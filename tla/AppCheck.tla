------------------------------ MODULE AppCheck ------------------------------
(***************************************************************************)
(* What `conductor check` sees of an application and what the runtime      *)
(* makes of it: the scanner (internal/scan), the checks of the declared    *)
(* graph (internal/graph), and the binding of every field at startup       *)
(* (run.go and the bind methods), side by side.                            *)
(*                                                                         *)
(* A declaration is a line of a node's struct: its kind, how it is written *)
(* (seen), the fields it declares with the method On<Field> each has, its  *)
(* tags (a function from those present), its type arguments and the        *)
(* literal calls (Goto, State) of it. A type has an identity, the name its  *)
(* //ros:type directive gives it ("" without one) and perhaps a Header. An *)
(* entry of a nodes tag may have a slash before the name. The tree is {},  *)
(* or the one transform tree there is.                                     *)
(***************************************************************************)
EXTENDS FrameTree

CONSTANTS Durations,   \* texts time.ParseDuration reads, with what it returns in ns
          Rates,       \* texts that end in hz, with their number
          Counts,      \* texts of digits alone
          Signed,      \* texts strconv.Atoi reads besides
          Spaced,      \* names with a blank or a slash in them
          Alphabet     \* the frames in the order of their names

\* A tag that is not there, and a text of no letters.
NoText == ""
Get(d, tag) == IF tag \in DOMAIN d.tags THEN d.tags[tag] ELSE NoText
QoSProfiles == [reliable  |-> [reliable |-> TRUE,  latched |-> FALSE],
                sensor    |-> [reliable |-> FALSE, latched |-> FALSE],
                transient |-> [reliable |-> TRUE,  latched |-> TRUE]]
QoSName(tag) == IF tag = NoText THEN "reliable" ELSE tag
ParseDuration(v) == IF v \in DOMAIN Durations THEN {Durations[v]} ELSE {}
\* The period; a frequency above a gigahertz has period 0 and is accepted.
ParseRate(v) ==
  IF v \in DOMAIN Rates THEN {1000000000 \div f : f \in {g \in {Rates[v]} : g > 0}}
  ELSE {p \in ParseDuration(v) : p > 0}
BadTimeout(v) == v # NoText /\ \A t \in ParseDuration(v) : t <= 0
BadBackoff(v) == v # NoText /\ \A t \in ParseDuration(v) : t < 0
StepEnds == {"done", "failed"}
Frame(d) == Get(d, "frame")

-----------------------------------------------------------------------------
(* The scanner: what it finds is the first name of a declaration written   *)
(* with the package's own name.                                            *)

NameTag == [Sub |-> "topic", Pub |-> "topic", Svc |-> "service", Client |-> "service",
            Action |-> "action", ActionClient |-> "action", Group |-> "group"]
\* The places in a node of the declarations found, and these.
Scanned(n, kinds) == {j \in DOMAIN n.decls : n.decls[j].seen = "plainly" /\ n.decls[j].kind \in kinds}
DeclsOf(n, kinds) == {n.decls[j] : j \in Scanned(n, kinds)}
Decls(app, kinds) == UNION {DeclsOf(app.nodes[i], kinds) : i \in DOMAIN app.nodes}
Field(d) == Head(d.names)
\* collectMethods knows a type by its bare name and a signature by its lengths.
HasHandler(d) == Field(d).handler \in {"right", "types", "elsewhere"}
splitList(d) == [i \in DOMAIN d.nodes |-> d.nodes[i].name]

-----------------------------------------------------------------------------
(* The graph.                                                              *)

\* An endpoint, with where it is declared: two servers may be alike.
Inside(at, d) == [at |-> at, ext |-> FALSE, types |-> d.types, ros |-> d.types[1].ros, qos |-> Get(d, "qos")]
Outside(at, e) == [at |-> at, ext |-> TRUE, types |-> <<>>, ros |-> e.type, qos |-> e.qos]
EndsIn(app, i, kind, name) ==
  {Inside(<<i, j>>, app.nodes[i].decls[j]) :
     j \in {x \in Scanned(app.nodes[i], {kind}) : Get(app.nodes[i].decls[x], NameTag[kind]) = name}}
EndsOutside(app, role, name) ==
  {Outside(<<0, j>>, app.externals[j]) :
     j \in {x \in DOMAIN app.externals : app.externals[x].role = role /\ app.externals[x].topic = name}}
Ends(app, kind, role, name) ==
  UNION {EndsIn(app, i, kind, name) : i \in DOMAIN app.nodes} \cup EndsOutside(app, role, name)
Named(app, kinds) ==
  ({Get(d, NameTag[d.kind]) : d \in Decls(app, kinds)} \ {NoText}) \cup {e.topic : e \in ToSet(app.externals)}

\* checkTypes; a service's or action's types are its Go types alone.
SameTypes(eps) == \A e, f \in eps : ~e.ext /\ ~f.ext => e.types = f.types
SameRosTypes(eps) == \A e, f \in eps : NoText \notin {e.ros, f.ros} => e.ros = f.ros
qosIncompat(p, s) == (s.reliable /\ ~p.reliable) \/ (s.latched /\ ~p.latched)
QoSMeets(pubs, subs) ==
  \A p \in pubs, s \in subs :
    {QoSName(p.qos), QoSName(s.qos)} \subseteq DOMAIN QoSProfiles =>
      ~qosIncompat(QoSProfiles[QoSName(p.qos)], QoSProfiles[QoSName(s.qos)])

TopicErrors(app) ==
  \E t \in Named(app, {"Sub", "Pub"}) :
    LET pubs == Ends(app, "Pub", "publisher", t)  subs == Ends(app, "Sub", "subscriber", t) IN
    \/ pubs = {} /\ subs # {}                                                  \* CND010
    \/ ~SameTypes(pubs \cup subs) \/ ~SameRosTypes(pubs \cup subs)             \* CND012
    \/ ~QoSMeets(pubs, subs)                                                   \* CND013
ServiceErrors(app) ==
  \E s \in Named(app, {"Svc", "Client"}) :
    LET servers == Ends(app, "Svc", "server", s)  clients == Ends(app, "Client", "client", s) IN
    \/ servers = {} /\ clients # {}                                            \* CND020
    \/ Several(servers)                                                        \* CND022
    \/ ~SameTypes(servers \cup clients)                                        \* CND023
ActionErrors(app) ==
  \E a \in Named(app, {"Action", "ActionClient"}) :
    LET servers == Ends(app, "Action", "action_server", a)
        clients == Ends(app, "ActionClient", "action_client", a) IN
    \/ Several(servers)                                                        \* CND030
    \/ servers = {} /\ clients # {}                                            \* CND031

EndpointErrors(app) ==
  \/ \E d \in Decls(app, {"Sub", "Pub", "Svc", "Client", "Action"}) : Get(d, NameTag[d.kind]) = NoText
  \/ \E d \in Decls(app, {"Sub", "Pub"}) : QoSName(Get(d, "qos")) \notin DOMAIN QoSProfiles
  \/ \E d \in Decls(app, {"Sub", "Timer", "Svc", "Action"}) : ~HasHandler(d)
  \/ \E d \in Decls(app, {"Timer"}) : ParseRate(Get(d, "rate")) = {}
  \/ \E e \in ToSet(app.externals) :
       \/ e.role \in {"publisher", "subscriber"} /\ QoSName(e.qos) \notin DOMAIN QoSProfiles
       \/ e.role \notin {"publisher", "subscriber", "server", "client", "action_server", "action_client"}

-----------------------------------------------------------------------------
(* Missions.                                                               *)

Steps(n) == DeclsOf(n, {"Step"})
Missions(n) == Scanned(n, {"Mission"})
MissionStart(n) == Get(n.decls[Min(Missions(n))], "start")
Declared(n) == {Field(s).field : s \in Steps(n)}
NextStep(s) == IF Get(s, "next") = NoText THEN "done" ELSE Get(s, "next")
\* Mutant: a Goto is not a transition.
TagsOnly(s) == {NextStep(s), Get(s, "fail")} \ {NoText}
Targets(s) == ({NextStep(s), Get(s, "fail")} \cup s.calls) \ {NoText}
\* markReachable, as the set its walk has marked when it is over.
Further(n, M) == M \cup (Declared(n) \cap UNION {Targets(s) : s \in {x \in Steps(n) : Field(x).field \in M}})
markReachable(n) ==
  LET marked[k \in 0..Cardinality(Steps(n))] ==
        IF k = 0 THEN {MissionStart(n)} \cap Declared(n) ELSE Further(n, marked[k - 1])
  IN  marked
Reachable(n) == markReachable(n)[Cardinality(Steps(n))]

MissionErrors(n) ==
  \/ Several(Missions(n))
  \/ Missions(n) = {} /\ Steps(n) # {}
  \/ /\ Missions(n) # {}
     /\ \/ Steps(n) = {}
        \/ MissionStart(n) \notin Declared(n)                                  \* CND041
        \/ \E s \in Steps(n) :
             \/ ~HasHandler(s)
             \/ ~(Targets(s) \subseteq Declared(n) \cup StepEnds)              \* CND040
             \/ BadTimeout(Get(s, "timeout")) \/ BadBackoff(Get(s, "backoff")) \* CND043
             \/ Get(s, "retry") \notin DOMAIN Counts \cup DOMAIN Signed \cup {NoText}

-----------------------------------------------------------------------------
(* Frames, planning groups, managed stacks.                                *)

Tree(app) == IF app.frames = {} THEN <<>> ELSE CHOOSE t \in app.frames : TRUE
FramesOn(app, t) ==
  {Frame(d) : d \in {x \in Decls(app, {"Sub", "Pub"}) : Get(x, "topic") = t /\ t # NoText}} \ {NoText}
\* validateFramePairs compares the first two frames of a topic, by name.
FirstTwo(F) == LET s == SelectSeq(Alphabet, LAMBDA f : f \in F) IN IF Len(s) < 2 THEN {} ELSE {<<s[1], s[2]>>}
FrameErrors(app) ==
  \/ Check(Tree(app)) # {}
  \/ \E d \in Decls(app, {"Sub", "Pub"}) :
       /\ Frame(d) # NoText
       /\ \/ d.types[1].ros # NoText /\ ~d.types[1].header                     \* CND057
          \/ ~Has(Tree(app), Frame(d))                                         \* CND050
  \/ \E i \in DOMAIN app.nodes : \E l \in app.nodes[i].lookups :
       DeclsOf(app.nodes[i], {"TF"}) # {} /\ Lookup(Tree(app), l[1], l[2]) = {}
  \/ \E d \in Decls(app, {"Sub", "Pub"}) :
       \E p \in FirstTwo(FramesOn(app, Get(d, "topic"))) : ~Connects(Tree(app), p[1], p[2])

GroupErrors(app) ==
  \E i \in DOMAIN app.nodes : \E d \in DeclsOf(app.nodes[i], {"Group"}) :
    \/ Get(d, "group") \notin DOMAIN app.groups                                \* CND070
    \/ ~(d.calls \subseteq app.groups[Get(d, "group")])                        \* CND071
LifecycleErrors(app) ==
  \E d \in Decls(app, {"Lifecycle"}) :
    LET managed == splitList(d) IN
    \/ managed = <<>> \/ NoText \in ToSet(managed) \/ ~IsInjective(managed)
    \/ ToSet(managed) \cap Spaced # {}                                         \* CND060
    \/ BadTimeout(Get(d, "timeout"))                                           \* CND062

HasErrors(app) ==
  \/ EndpointErrors(app) \/ TopicErrors(app) \/ ServiceErrors(app) \/ ActionErrors(app)
  \/ FrameErrors(app) \/ GroupErrors(app) \/ LifecycleErrors(app)
  \/ \E i \in DOMAIN app.nodes : MissionErrors(app.nodes[i])

-----------------------------------------------------------------------------
(* Startup: newAppOpts binds the declarations as the compiler sees them.   *)

Bound(n) == UNION {{[d |-> d, f |-> d.names[i]] : i \in DOMAIN d.names} : d \in ToSet(n.decls)}
frameTag(app, d) == Frame(d) # NoText => d.types[1].header /\ (app.frames # {} => Has(Tree(app), Frame(d)))
Registered(app, d) == d.types \in app.actions
parseNodeList(d) == \A i \in DOMAIN d.nodes : d.nodes[i].slash \/ d.nodes[i].name # NoText

\* The bind method of each kind.
Handled(b) == b.f.handler = "right"
bindTopic(app, d) ==
  Get(d, "topic") # NoText /\ QoSName(Get(d, "qos")) \in DOMAIN QoSProfiles /\ frameTag(app, d)
bindSub(app, b) == bindTopic(app, b.d) /\ Handled(b)
bindTimer(b) == ParseRate(Get(b.d, "rate")) # {} /\ Handled(b)
bindSvc(b) == Get(b.d, "service") # NoText /\ Handled(b)
bindClient(d) == Get(d, "service") # NoText /\ ~BadTimeout(Get(d, "timeout"))
bindAction(app, b) == Get(b.d, "action") # NoText /\ Handled(b) /\ Registered(app, b.d)
bindActionClient(app, d) ==
  Get(d, "action") # NoText /\ ~BadTimeout(Get(d, "timeout")) /\ Registered(app, d)
bindParam(d) == Get(d, "default") \in {NoText} \cup DOMAIN Counts \cup DOMAIN Signed
bindMission(d) == Get(d, "start") # NoText
bindStep(b) == /\ Handled(b) /\ ~BadTimeout(Get(b.d, "timeout")) /\ ~BadBackoff(Get(b.d, "backoff"))
               /\ Get(b.d, "retry") \in {NoText} \cup DOMAIN Counts
bindGroup(app, d) == Get(d, "group") \in DOMAIN app.groups
bindLifecycle(d) ==
  d.nodes # <<>> /\ parseNodeList(d) /\ IsInjective(splitList(d)) /\ ~BadTimeout(Get(d, "timeout"))

Binds(app, b) ==
  /\ b.d.kind = "Sub" => bindSub(app, b)
  /\ b.d.kind = "Pub" => bindTopic(app, b.d)
  /\ b.d.kind = "Timer" => bindTimer(b)
  /\ b.d.kind = "Svc" => bindSvc(b)
  /\ b.d.kind = "Client" => bindClient(b.d)
  /\ b.d.kind = "Action" => bindAction(app, b)
  /\ b.d.kind = "ActionClient" => bindActionClient(app, b.d)
  /\ b.d.kind = "Param" => bindParam(b.d)
  /\ b.d.kind = "Mission" => bindMission(b.d)
  /\ b.d.kind = "Step" => bindStep(b)
  /\ b.d.kind = "Group" => bindGroup(app, b.d)
  /\ b.d.kind = "Lifecycle" => bindLifecycle(b.d)

wireMission(n) ==
  LET missions == {b \in Bound(n) : b.d.kind = "Mission"}
      steps == {b \in Bound(n) : b.d.kind = "Step"}
      names == {b.f.field : b \in steps}
  IN /\ ~Several(missions)
     /\ IF missions = {} THEN steps = {}
        ELSE /\ \A m \in missions : Get(m.d, "start") \in names
             /\ \A s \in steps : {NextStep(s.d), Get(s.d, "fail")} \subseteq names \cup StepEnds \cup {NoText}

\* inproc.Serve: a name has one server.
Servers(app, kind) ==
  UNION {{[node |-> i, b |-> b] : b \in {x \in Bound(app.nodes[i]) : x.d.kind = kind}} : i \in DOMAIN app.nodes}
OneServerEach(app) ==
  \A kind \in {"Svc", "Action"} : \A s, t \in Servers(app, kind) :
    Get(s.b.d, NameTag[kind]) = Get(t.b.d, NameTag[kind]) => s = t

\* newAppOpts succeeds, and no timer panics on the ticker of no period it asks for.
StartsUp(app) ==
  /\ \A i \in DOMAIN app.nodes :
       /\ app.nodes[i].hooks = "right"
       /\ \A b \in Bound(app.nodes[i]) :
            /\ Binds(app, b)
            /\ b.d.kind = "Timer" => 0 \notin ParseRate(Get(b.d, "rate"))
       /\ wireMission(app.nodes[i])
  /\ OneServerEach(app)

-----------------------------------------------------------------------------
(* What the check is for.                                                  *)

\* What the languages see to: lists are lists, and a field has a name.
IsList(s) == s \in Seq(ToSet(s))
IsApp(app) ==
  /\ IsList(app.nodes) /\ \A t \in app.frames : IsList(t)
  /\ \A i \in DOMAIN app.nodes : IsList(app.nodes[i].decls)
  /\ \A i \in DOMAIN app.nodes : \A d \in ToSet(app.nodes[i].decls) :
       IsList(d.names) /\ IsList(d.nodes) /\ \A k \in DOMAIN d.names : d.names[k].field # NoText

\* What a syntactic scanner leaves to the compiler and to startup.
Unseen(app) ==
  \E i \in DOMAIN app.nodes :
    \/ app.nodes[i].hooks # "right"
    \/ \E d \in ToSet(app.nodes[i].decls) :
         \/ d.seen # "plainly" \/ Len(d.names) # 1
         \/ Field(d).handler \in {"types", "elsewhere"}
         \/ d.kind \in {"Client", "ActionClient"} /\ BadTimeout(Get(d, "timeout"))
         \/ d.kind = "ActionClient" /\ Get(d, "action") = NoText
         \/ d.kind \in {"Action", "ActionClient"} /\ ~Registered(app, d)
         \/ d.kind = "Param" /\ Get(d, "default") \notin {NoText} \cup DOMAIN Counts \cup DOMAIN Signed
         \/ d.kind = "Step" /\ Get(d, "retry") \in DOMAIN Signed
         \/ d.kind = "Timer" /\ 0 \in ParseRate(Get(d, "rate"))
         \/ d.kind \in {"Sub", "Pub"} /\ d.types[1].ros = NoText

\* The declarations of these kinds that startup binds.
BoundDecls(app, kinds) ==
  {b.d : b \in {x \in UNION {Bound(app.nodes[i]) : i \in DOMAIN app.nodes} : x.d.kind \in kinds}}

\* What travels between an application's own fields is of the type the receiver
\* asserts; stated below of topics and services, the check does not compare actions.
TypesAgree(app, kinds, tag) ==
  \A d, e \in BoundDecls(app, kinds) : Get(d, tag) = Get(e, tag) => d.types = e.types
\* The frames of a topic have a transform between them.
FramesConnect(app) ==
  \A d, e \in BoundDecls(app, {"Pub", "Sub"}) :
    Get(d, "topic") = Get(e, "topic") /\ Frame(d) # NoText /\ Frame(e) # NoText =>
      Connects(Tree(app), Frame(d), Frame(e))
\* The tree is published if a TF field was seen (CND055 warns otherwise).
TreeIsPublished(app) ==
  bindTF(Tree(app), [i \in DOMAIN app.nodes |-> \E b \in Bound(app.nodes[i]) : b.d.kind = "TF"]) # 0
    <=> Decls(app, {"TF"}) # {} /\ Published(Tree(app)) # <<>>
\* A step that was not reported unreachable is reached from the start by the moves
\* the runtime makes.
StepsAreReached(n) ==
  /\ MissionStart(n) \in Reachable(n)
  /\ \A s \in Steps(n) : Field(s).field \in Reachable(n) =>
       ({NextStep(s), Get(s, "fail")} \cup s.calls) \ (StepEnds \cup {NoText}) \subseteq Reachable(n)

\* An application that passes the check and is written plainly starts ("checks it
\* before anything runs"), and all of this holds of it.
HoldsUp(app) ==
  ~HasErrors(app) /\ ~Unseen(app) =>
    /\ StartsUp(app)
    /\ TypesAgree(app, {"Pub", "Sub"}, "topic") /\ TypesAgree(app, {"Svc", "Client"}, "service")
    /\ FramesConnect(app) /\ TreeIsPublished(app)
    /\ \A i \in DOMAIN app.nodes : Missions(app.nodes[i]) # {} => StepsAreReached(app.nodes[i])
=============================================================================
