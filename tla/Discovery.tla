------------------------------ MODULE Discovery ------------------------------
(***************************************************************************)
(* conductor externals: a running ROS graph is asked what it is, and what  *)
(* an application declares about it is corrected (internal/discover,       *)
(* cmd/conductor/externals.go). The graph is advertised in liveliness      *)
(* tokens, which conductor writes and reads (transport/rmwzenoh).          *)
(*                                                                         *)
(* A token is the sequence of its segments, a name the sequence of its     *)
(* parts: mangling makes one segment of a name. A type has a package, a    *)
(* kind, a name and the part of a service or action it is, or none.        *)
(***************************************************************************)
EXTENDS Integers, FiniteSets, SequencesExt

CONSTANTS
  Atoi,      \* the integers that the texts of some numbers spell
  Alphabet,  \* every name, in alphabetical order
  Infrastructure \* the types every ROS node carries

Itoa(n) == CHOOSE s \in DOMAIN Atoi : Atoi[s] = n
NoType == [pkg |-> "", kind |-> "", name |-> "", part |-> ""]

-----------------------------------------------------------------------------
(* Profiles (qos.go).                                                        *)

Profiles == [reliable  |-> [reliability |-> "reliable", durability |-> "volatile", depth |-> 10],
             sensor    |-> [reliability |-> "best-effort", durability |-> "volatile", depth |-> 5],
             transient |-> [reliability |-> "reliable", durability |-> "transient-local", depth |-> 1]]

\* "" when conductor has no name for what a peer offers.
profileName(q) ==
  LET like == {n \in DOMAIN Profiles : /\ Profiles[n].reliability = q.reliability
                                       /\ Profiles[n].durability = q.durability}
  IN IF like = {} THEN "" ELSE CHOOSE n \in like : TRUE

\* What of an offer a subscription cannot be served with (graph.go).
qosIncompat(p, s) ==
  \/ s.reliability = "reliable" /\ p.reliability # "reliable"
  \/ s.durability = "transient-local" /\ p.durability # "transient-local"

-----------------------------------------------------------------------------
(* Tokens, written and read.                                                 *)

AdminSpace == "@ros2_lv"
EndpointKinds == {"MP", "MS", "SS", "SC"}
Providing == {"MP", "SS"}

Mangle(name) == <<name>>
DDSType(t) == <<t.pkg, t.kind, "dds_", <<t.name, t.part>>>>
TypeFromDDS(dds) ==
  IF Len(dds) = 4 /\ dds[3] = "dds_"
  THEN [pkg |-> dds[1], kind |-> dds[2], name |-> dds[4][1], part |-> dds[4][2]]
  ELSE [NoType EXCEPT !.name = dds[1]]

QoSKeyexpr(q) ==
  <<IF q.reliability = "best-effort" THEN "2" ELSE "",
    IF q.durability = "transient-local" THEN "1" ELSE "",
    <<"", Itoa(q.depth)>>, <<"", "">>, <<"", "">>, <<"", "", "">>>>

Reliabilities == [s \in {"", "1", "2"} |-> IF s = "2" THEN "best-effort" ELSE "reliable"]
Durabilities == [s \in {"", "1", "2"} |-> IF s = "1" THEN "transient-local" ELSE "volatile"]
ParseQoSKeyexpr(s) ==
  IF \/ Len(s) < 3
     \/ s[1] \notin DOMAIN Reliabilities
     \/ s[2] \notin DOMAIN Durabilities
     \/ Len(s[3]) > 1 /\ s[3][2] \notin DOMAIN Atoi \cup {""}
  THEN {}
  ELSE {[reliability |-> Reliabilities[s[1]], durability |-> Durabilities[s[2]],
         depth |-> IF Len(s[3]) > 1 /\ s[3][2] # "" THEN Atoi[s[3][2]] ELSE 0]}

NodeToken(domain, zid, nid, eid, node) ==
  <<AdminSpace, Itoa(domain), zid, Itoa(nid), Itoa(eid), "NN", <<>>, <<>>, node>>
EndpointToken(domain, zid, nid, eid, e) ==
  <<AdminSpace, Itoa(domain), zid, Itoa(nid), Itoa(eid), e.kind, <<>>, <<>>, e.node>>
  \o Mangle(e.topic) \o Mangle(DDSType(e.type)) \o <<e.hash>> \o <<QoSKeyexpr(e.qos)>>

\* What one process advertises: its nodes, then their endpoints, each with an
\* id of its own and the id of its node (transport/zenoh).
TokensOf(process) ==
  LET Nid(node) == (CHOOSE i \in DOMAIN process.nodes : process.nodes[i] = node) - 1
  IN [i \in DOMAIN process.nodes |->
        NodeToken(process.domain, process.zid, i - 1, i - 1, process.nodes[i])]
     \o [i \in DOMAIN process.endpoints |->
           EndpointToken(process.domain, process.zid, Nid(process.endpoints[i].node),
                         Len(process.nodes) + i - 1, process.endpoints[i])]

ParseToken(t) ==
  IF Len(t) < 9 THEN {}
  ELSE IF t[1] # AdminSpace \/ ~({t[2], t[4], t[5]} \subseteq DOMAIN Atoi) THEN {}
  ELSE CASE t[6] = "NN" /\ Len(t) = 9 -> {[kind |-> "NN", node |-> t[9]]}
         [] t[6] \in EndpointKinds /\ Len(t) = 13 ->
              {[kind |-> t[6], node |-> t[9], topic |-> t[10], type |-> TypeFromDDS(t[11]),
                hash |-> t[12], qos |-> q] : q \in ParseQoSKeyexpr(t[13])}
         [] OTHER -> {}

\* The entities and the unreadable tokens of a domain, among the tokens heard in
\* the order of their text. Tokens withdrawn or not yet here are not heard.
Query(heard, domain) ==
  LET here == SelectSeq(heard, LAMBDA t : t[1] = AdminSpace /\ t[2] = Itoa(domain))
      readable == SelectSeq(here, LAMBDA t : ParseToken(t) # {})
  IN [entities |-> [i \in DOMAIN readable |-> CHOOSE e \in ParseToken(readable[i]) : TRUE],
      unreadable |-> {t \in ToSet(here) : ParseToken(t) = {}}]

-----------------------------------------------------------------------------
(* Interfaces.                                                               *)

ActionParts == {"send_goal", "get_result", "cancel_goal", "feedback", "status"}
splitAction(name) ==
  LET n == Len(name)
  IN IF n > 2 /\ name[n - 1] = "_action" /\ name[n] \in ActionParts
     THEN {SubSeq(name, 1, n - 2)} ELSE {}

actionType(t) ==
  IF t.part \in {"SendGoal", "GetResult", "SendGoal_Request", "SendGoal_Response", "GetResult_Request",
                 "GetResult_Response", "FeedbackMessage", "Feedback", "Goal", "Result"}
  THEN [t EXCEPT !.part = ""]
  ELSE IF t.pkg = "action_msgs" THEN NoType ELSE t
serviceType(t) == IF t.part \in {"Request", "Response", "Event"} THEN [t EXCEPT !.part = ""] ELSE t

Belongs(e) ==
  IF splitAction(e.topic) # {}
  THEN [kind |-> "action", name |-> CHOOSE a \in splitAction(e.topic) : TRUE]
  ELSE [kind |-> IF e.kind \in {"MP", "MS"} THEN "topic" ELSE "service", name |-> e.topic]

\* a offers less than b.
weaker(a, b) ==
  IF a.reliability # b.reliability THEN a.reliability = "best-effort"
  ELSE IF a.durability # b.durability THEN a.durability = "volatile"
  ELSE a.depth < b.depth

\* The declaration takes the strongest offer in place of the weakest.
settleQoSStrongest(offers, requests) ==
  LET pool == IF offers = {} THEN requests ELSE offers
  IN IF pool = {} THEN ""
     ELSE profileName(CHOOSE q \in pool : \A other \in pool \ {q} : weaker(other, q))

\* The weakest offer; the weakest request when nobody offers.
settleQoS(offers, requests) ==
  LET pool == IF offers = {} THEN requests ELSE offers
  IN IF pool = {} THEN ""
     ELSE profileName(CHOOSE q \in pool : \A other \in pool \ {q} : weaker(q, other))

\* A topic takes the first type it sees, a service the last, an action the
\* first that names it.
TypeOf(kind, types) ==
  LET named == SelectSeq(types, LAMBDA t : t # NoType)
  IN IF kind = "service" THEN Last(types) ELSE IF named = <<>> THEN NoType ELSE Head(named)

Interface(k, entities) ==
  LET its == SelectSeq(entities, LAMBDA e : e.kind # "NN" /\ Belongs(e) = k)
      Types == [topic |-> [i \in DOMAIN its |-> its[i].type],
                service |-> [i \in DOMAIN its |-> serviceType(its[i].type)],
                action |-> [i \in DOMAIN its |-> actionType(its[i].type)]]
      type == TypeOf(k.kind, Types[k.kind])
      Profiled(kind) == {e.qos : e \in {e \in ToSet(its) : e.kind = kind}}
  IN [kind |-> k.kind, name |-> k.name, type |-> type,
      infrastructure |-> type \in Infrastructure,
      hashes |-> IF k.kind = "action" THEN {} ELSE {its[i].hash : i \in DOMAIN its} \ {""},
      offers |-> IF k.kind = "topic" THEN Profiled("MP") ELSE {},
      qos |-> IF k.kind = "topic" THEN settleQoS(Profiled("MP"), Profiled("MS")) ELSE "",
      providers |-> {e.node : e \in {e \in ToSet(its) : e.kind \in Providing}},
      consumers |-> {e.node : e \in {e \in ToSet(its) : e.kind \notin Providing}}]

Interfaces(entities) ==
  {Interface(k, entities) : k \in {Belongs(e) : e \in {e \in ToSet(entities) : e.kind # "NN"}}}

-----------------------------------------------------------------------------
(* Declarations. An application has nodes, the interfaces it provides and    *)
(* consumes by kind, the managed nodes each of its lifecycle fields names,   *)
(* its externals in the order of the file, and whether an environment lays   *)
(* others over them.                                                         *)

Roles == [topic |-> [provider |-> "publisher", consumer |-> "subscriber"],
          service |-> [provider |-> "server", consumer |-> "client"],
          action |-> [provider |-> "action_server", consumer |-> "action_client"]]
Kinds == DOMAIN Roles

RoleOrder == <<"action_client", "action_server", "client", "publisher", "server", "subscriber">>

othersAmong(nodes, app) == nodes \ app.nodes # {}
inUse(app, name) == \E k \in Kinds : name \in app.provides[k] \cup app.consumes[k]

\* The role is of what is outside: a provider for what the application consumes.
rolesFor(app, i, all) ==
  LET Wanted(names) == i.name \in names \/ (all /\ ~inUse(app, i.name))
  IN {Roles[i.kind][side] : side \in
       {s \in {"provider", "consumer"} :
          IF s = "provider" THEN othersAmong(i.providers, app) /\ Wanted(app.consumes[i.kind])
                            ELSE othersAmong(i.consumers, app) /\ Wanted(app.provides[i.kind])}}

Considered(entities, options) ==
  {i \in Interfaces(entities) : ~i.infrastructure \/ options.infrastructure}
External(i, role) == [topic |-> i.name, role |-> role, type |-> i.type, qos |-> i.qos]
Offered(app, entities, options) ==
  UNION {{External(i, r) : r \in rolesFor(app, i, options.all)} : i \in Considered(entities, options)}

Key(e) == <<e.topic, e.role>>
Declared(app) == ToSet(app.externals)
\* The last of two declarations with one key is the one compared.
Have(app, k) ==
  LET n == CHOOSE n \in DOMAIN app.externals :
             /\ Key(app.externals[n]) = k
             /\ \A m \in DOMAIN app.externals : Key(app.externals[m]) = k => m <= n
  IN app.externals[n]

Disagrees(have, want) ==
  \/ have.type # want.type
  \/ want.qos # "" /\ have.qos # "" /\ have.qos # want.qos

\* Managed nodes: the first name alone when the graph manages nothing at all.
checkManagedNodes(app, entities) ==
  LET managed == {Front(i.name) : i \in {i \in Interfaces(entities) :
                    i.kind = "service" /\ Len(i.name) > 1 /\ Last(i.name) = "change_state"}}
      named == FlattenSeq(app.manages)
      missing == IF managed = {} /\ named # <<>> THEN {Head(named)} ELSE ToSet(named) \ managed
  IN {[kind |-> "absent", topic |-> n, role |-> "managed"] : n \in missing}

Findings(app, entities, options) ==
  LET offered == Offered(app, entities, options)
      Note(kind, e) == [kind |-> kind, topic |-> e.topic, role |-> e.role]
      keys == {Key(e) : e \in Declared(app)}
  IN checkManagedNodes(app, entities)
     \cup {[kind |-> "conflict", topic |-> i.name, role |-> ""] : i \in
             {i \in Considered(entities, options) : Cardinality(i.hashes) > 1 \/ Cardinality(i.offers) > 1}}
     \cup {Note("missing", w) : w \in {w \in offered : Key(w) \notin keys}}
     \cup {Note("mismatch", w) : w \in
             {w \in offered : Key(w) \in keys /\ Disagrees(Have(app, Key(w)), w)}}
     \cup {Note("absent", e) : e \in
             {e \in Declared(app) : Key(e) \notin {Key(w) : w \in offered}}}

Changed(findings) == \E f \in findings : f.kind \in {"missing", "mismatch"}

\* The declarations in the file's order, each as the graph offers it if it does,
\* and what is new behind them.
Externals(app, entities, options) ==
  LET offered == Offered(app, entities, options)
      keys == {Key(e) : e \in Declared(app)}
      first == SelectSeq([n \in DOMAIN app.externals |-> n],
                 LAMBDA n : \A m \in 1..n - 1 : Key(app.externals[m]) # Key(app.externals[n]))
      Stands(k) == IF k \in {Key(w) : w \in offered}
                   THEN CHOOSE w \in offered : Key(w) = k ELSE Have(app, k)
      Place(x, order) == CHOOSE n \in DOMAIN order : order[n] = x
      Earlier(a, b) == \/ Place(a.topic, Alphabet) < Place(b.topic, Alphabet)
                       \/ a.topic = b.topic /\ Place(a.role, RoleOrder) < Place(b.role, RoleOrder)
  IN [n \in DOMAIN first |-> Stands(Key(app.externals[first[n]]))]
     \o SetToSortSeq({w \in offered : Key(w) \notin keys}, Earlier)

\* An environment's overlay is never written into the base file.
Write(app, externals) == IF app.overlaid THEN {} ELSE {[app EXCEPT !.externals = externals]}

\* conductor externals -write: {} when the command fails.
runExternals(app, entities, options) ==
  IF ~Changed(Findings(app, entities, options)) THEN {app}
  ELSE Write(app, Externals(app, entities, options))

-----------------------------------------------------------------------------
(* Properties.                                                               *)

\* What a process advertises is what is read back, every endpoint once, with the
\* profile it was declared with (the parsers are the builders' inverse).
TokensReadBack(process) ==
  LET tokens == TokensOf(process)
      read == Query(tokens, process.domain)
      nodes == [i \in DOMAIN process.nodes |-> [kind |-> "NN", node |-> process.nodes[i]]]
  IN /\ read.unreadable = {} /\ Cardinality(ToSet(tokens)) = Len(tokens)
     /\ read.entities = nodes \o process.endpoints

\* Somebody outside the application is on that side of the interface.
Outside(app, entities, name, role) ==
  \E e \in ToSet(entities) :
    /\ e.kind # "NN"
    /\ Belongs(e).name = name /\ e.node \notin app.nodes
    /\ role = Roles[Belongs(e).kind][IF e.kind \in Providing THEN "provider" ELSE "consumer"]

\* Declarations once written are what the graph says: asked again, the command
\* finds nothing to correct.
WritingSettles(app, entities, options) ==
  \A written \in runExternals(app, entities, options) :
    /\ ~Changed(Findings(written, entities, options))
    /\ written # app => Externals(written, entities, options) = written.externals

\* The author's declarations stay, in their order, whatever part of the graph was
\* heard; what is added is somebody else's; and what the application consumes
\* from somebody else is declared.
DeclaresWhatIsThere(app, entities, options) ==
  LET after == Externals(app, entities, options)
      keys == {Key(e) : e \in Declared(app)}
      kept == SelectSeq(after, LAMBDA e : Key(e) \in keys)
      Index(k, list) == CHOOSE n \in DOMAIN list : /\ Key(list[n]) = k
                                                  /\ \A m \in 1..n - 1 : Key(list[m]) # k
  IN /\ {Key(kept[n]) : n \in DOMAIN kept} = keys /\ IsPrefix(kept, after)
     /\ \A j, k \in keys : Index(j, app.externals) < Index(k, app.externals) =>
                              Index(j, kept) < Index(k, kept)
     /\ \A n, m \in DOMAIN after : Key(after[n]) = Key(after[m]) => n = m
     /\ \A e \in ToSet(after) :
          e \in Declared(app) \/ Outside(app, entities, e.topic, e.role)
     /\ \A i \in Considered(entities, options) :
          i.name \in app.consumes[i.kind] /\ Outside(app, entities, i.name, Roles[i.kind].provider) =>
            \E e \in ToSet(after) : Key(e) = <<i.name, Roles[i.kind].provider>> /\ e.type = i.type

\* A subscription the check finds compatible with a derived declaration hears
\* every publisher on the graph, when conductor has a name for all they offer.
CompatibleIsHeard(app, entities, options) ==
  LET Offers(name) == {e.qos : e \in {e \in ToSet(entities) : e.kind = "MP" /\ e.topic = name}}
  IN \A e \in ToSet(Externals(app, entities, options)), s \in DOMAIN Profiles :
       /\ e.role = "publisher" /\ e \in Offered(app, entities, options)
       /\ \A q \in Offers(e.topic) : profileName(q) # ""
       /\ ~qosIncompat(Profiles[e.qos], Profiles[s])
       => \A q \in Offers(e.topic) : ~qosIncompat(q, Profiles[s])

\* The externals block derived from a graph can be trusted.
DeclarationsAreDerived(app, entities, options) ==
  /\ WritingSettles(app, entities, options)
  /\ DeclaresWhatIsThere(app, entities, options)
  /\ CompatibleIsHeard(app, entities, options)
=============================================================================
