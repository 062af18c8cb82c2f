----------------------------- MODULE MCServices -----------------------------
(* One question in each behaviour. Parts of the runtime with a state: the    *)
(* in-process bus, the simulated clock, a node's parameters, the collection  *)
(* of spans. Tools without one, asked about one input each: parameter files, *)
(* frames, the static check, what a release runs, the fleet view, a live     *)
(* graph and the bytes of a message.                                         *)
EXTENDS InprocBus, SimClock, Telemetry, ParamServices, Tools, TLC

VARIABLE system

servicesVars == <<system, busVars, vars, telemetryVars, paramVars, input>>

\* Publishers, late subscribers and deliveries of /clock are alike.
Sym == Permutations(Pubs) \cup Permutations(Subs) \cup Permutations(Setters)

\* A two-second timeout, a sleep of no time at all and a timer.
MCWait == [w \in {"timeout", "sleep", "timer"} |->
             CASE w = "timeout" -> 2 [] w = "sleep" -> 0 [] OTHER -> 1]

\* The clock of one process is ahead.
MCOffset == [p \in {"p", "q"} |-> IF p = "p" THEN 1 ELSE 0]

-----------------------------------------------------------------------------
(* Parameters: a duration and a string, and files that name them.            *)

Line(key) == [broken |-> FALSE, indented |-> FALSE, key |-> key, value |-> ""]
In(key, value) == [broken |-> FALSE, indented |-> TRUE, key |-> key, value |-> value]
Block == In("ros__parameters", "")
OwnFile == <<Line("n"), Block, In("d", "2"), In("s", "'x'")>>
WildFile == <<Line("/**"), Block, In("d", "2"), Line("n"), Block, In("s", "z")>>
BadFile == <<Line("n"), Block, In("d", "true")>>

Param(name, type, value) == [name |-> name, type |-> type, value |-> value]
MCRequests ==
  {[atomic |-> a, params |-> ps] : a \in BOOLEAN, ps \in
     {<<Param("d", "int", "2"), Param("s", "string", "'x'")>>,
      <<Param("s", "string", "w"), Param("use_sim_time", "bool", "true")>>,
      <<Param("d", "string", "1")>>,
      <<Param("none", "int", "1"), Param("d", "int", "1")>>}}

MCKind == [d |-> "duration", s |-> "string"]
MCDefault == [d |-> "1ns", s |-> "y"]
MCFiles == {<<>>, <<OwnFile>>, <<WildFile>>, <<BadFile>>, <<OwnFile, WildFile>>}

\* Files of up to four lines.
Lines == {Line("n"), Line("m"), [Line("n") EXCEPT !.value = "1"], Block, In("d", "1"), In("d", "2"),
          In("s", ""), [Block EXCEPT !.broken = TRUE]}
ParamFiles == UNION {[1..n -> Lines] : n \in 0..4}

-----------------------------------------------------------------------------
(* The static check, and frames.                                             *)

MCDurations == ("2s" :> 2) @@ ("0s" :> 0) @@ ("-1s" :> -1)
MCRates == ("10hz" :> 10) @@ ("2000000000hz" :> 2000000000) @@ ("0hz" :> 0)
MCCounts == ("2" :> 2)
MCSigned == ("-1" :> -1)
MCAlphabet == <<"base", "laser", "map">>

NoTurn == <<0, 0, 0, 2>>
Turns == {NoTurn, <<2, 0, 0, 0>>, <<1, 1, 1, 1>>, <<1, -1, 1, -1>>}
Transform(p, c, xyz, rot, dynamic, by) ==
  [parent |-> p, child |-> c, xyz |-> xyz, rot |-> rot, dynamic |-> dynamic, by |-> by]
Link(p, c) == Transform(p, c, <<0, 0, 0>>, NoTurn, FALSE, "")

\* Every list of two edges between four frames, and those of three that start
\* below the first.
Links == {Link(p, c) : p, c \in {"a", "b", "c", "d"}}
EdgeLists == UNION {[1..n -> Links] : n \in 0..2} \cup {f \in [1..3 -> Links] : f[1].parent = "a"}
\* A chain and a fork, turned in every way that keeps axes on axes.
Trees == {<<Transform("a", "b", <<1, 0, 0>>, q, FALSE, ""),
            Transform("b", "c", <<0, 2, 1>>, r, d, ""),
            Transform("b", "d", <<1, 2, 3>>, s, FALSE, "x")>> :
            q \in Turns, r \in Turns, s \in Turns, d \in BOOLEAN}
\* Frames derived from a description over a file that has been edited by hand.
Joint(p, c, type, xyz) == [parent |-> p, child |-> c, type |-> type, xyz |-> xyz, rot |-> NoTurn]
Descriptions == {<<Joint("b", "c", t, <<1, 0, 0>>), Joint("c", "d", u, <<0, 1, 0>>)>> :
                   t, u \in {"fixed", "revolute"}}
FrameFiles == [static : {<<>>, <<Transform("b", "c", <<5, 5, 5>>, NoTurn, FALSE, "x")>>,
                         <<Transform("c", "d", <<5, 5, 5>>, NoTurn, FALSE, "x")>>},
               dynamic : {<<>>, <<Transform("a", "b", <<0, 1, 0>>, NoTurn, TRUE, "ekf")>>}]
DeriveOptions == [ours : BOOLEAN, fixedOnly : BOOLEAN, publisher : {"rsp", ""}]

Scan == [id |-> "Scan", ros |-> "sensor/Scan", header |-> TRUE]
Bool == [id |-> "Bool", ros |-> "std/Bool", header |-> FALSE]
Local == [id |-> "Local", ros |-> "", header |-> FALSE]
Declare(kind, field, tags, types) ==
  [kind |-> kind, seen |-> "plainly", names |-> <<[field |-> field, handler |-> "right"]>>,
   tags |-> tags, nodes |-> <<>>, types |-> types, calls |-> {}]
Tag(k, v) == k :> v

Subscriptions ==
  {Declare("Sub", "scan", Tag("topic", t) @@ Tag("qos", q) @@ f, <<ty>>) :
     t \in {"", "scan"}, q \in {"", "sensor", "bogus"}, ty \in {Scan, Bool},
     f \in {<<>>, Tag("frame", "laser"), Tag("frame", "map")}}
Publishers ==
  {[s EXCEPT !.kind = "Pub", !.names[1].field = "out"] : s \in Subscriptions}
  \cup {Declare("Pub", "out", Tag("topic", "scan") @@ Tag("frame", "laser"), <<Local>>)}
\* Fields the scanner sees as another spelling of a subscription, or not at all.
OddSubscriptions ==
  {[Declare("Sub", "scan", Tag("topic", "scan"), <<Scan>>) EXCEPT !.seen = v, !.names[1].handler = h] :
     v \in {"plainly", "aliased", "embedded"},
     h \in {"missing", "arity", "types", "elsewhere", "right"}}
TwoNames ==
  {[Declare("Svc", "stop", Tag("service", "stop"), <<Bool, Bool>>) EXCEPT
      !.names = <<@[1], [field |-> "halt", handler |-> "missing"]>>]}
Timers == {Declare("Timer", "tick", Tag("rate", r), <<>>) :
             r \in {"10hz", "2000000000hz", "0hz", "2s", "soon", ""}}
Services == {Declare("Svc", "stop", Tag("service", s), <<ty, Bool>>) : s \in {"", "stop"}, ty \in {Bool, Scan}}
Clients == {Declare("Client", "call", Tag("service", s) @@ Tag("timeout", t), <<Bool, Bool>>) :
              s \in {"", "stop", "go"}, t \in {"", "2s", "0s"}}
Actions == {Declare(k, "go", Tag("action", a) @@ Tag("timeout", t), types) :
              k \in {"Action", "ActionClient"}, a \in {"", "nav"}, t \in {"", "0s"},
              types \in {<<Bool, Bool, Bool>>, <<Scan, Bool, Bool>>}}
Parameters == {Declare("Param", "speed", Tag("default", v), <<>>) : v \in {"", "2", "-1", "fast"}}
Groups == {[Declare("Group", "arm", Tag("group", g), <<>>) EXCEPT !.calls = c] :
             g \in {"", "arm", "leg"}, c \in {{}, {"ready"}, {"stowed"}}}
Managed(slash, name) == [slash |-> slash, name |-> name]
Managers == {[Declare("Lifecycle", "nav", Tag("timeout", t), <<>>) EXCEPT !.nodes = l] :
               t \in {"", "2s", "0s"},
               l \in {<<>>, <<Managed(FALSE, "amcl")>>, <<Managed(TRUE, "amcl"), Managed(FALSE, "amcl")>>,
                      <<Managed(TRUE, "")>>, <<Managed(FALSE, "a b")>>}}
TF == Declare("TF", "tf", <<>>, <<>>)
Declarations ==
  Subscriptions \cup Publishers \cup OddSubscriptions \cup TwoNames \cup Timers \cup Services
  \cup Clients \cup Actions \cup Parameters \cup Groups \cup Managers \cup {TF}

Mission(start) == Declare("Mission", "work", Tag("start", start), <<>>)
MStep(f, next, fail, calls) ==
  [Declare("Step", f, Tag("next", next) @@ Tag("fail", fail), <<>>) EXCEPT !.calls = calls]
Plain(f) == MStep(f, "", "", {})
Branches == {"", "a", "b", "c", "x", "done"}
Machines ==
  {<<Mission(start), MStep("a", next, fail, calls), MStep("b", onward, "", {}), Plain("c")>> :
     start \in {"", "a", "b"}, next, fail, onward \in Branches, calls \in {{}, {"c"}, {"x"}}}
  \cup {<<Mission("a"), [Plain("a") EXCEPT !.tags = @ @@ Tag(k, v)]>> :
          k \in {"retry", "timeout", "backoff"}, v \in {"2", "-1", "0s", "2s"}}
  \cup {<<Plain("a")>>, <<Mission("a")>>, <<Mission("a"), Plain("a"), Mission("a")>>}

FrameTrees == {{}, {<<Link("base", "laser"), Link("map", "base")>>},
               {<<Link("base", "laser"), Link("map", "odom")>>}}
Declares(declarations) == [decls |-> declarations, hooks |-> "right", lookups |-> {}]
External(topic, role, qos) == [topic |-> topic, role |-> role, type |-> "sensor/Scan", qos |-> qos]
Externals ==
  {<<>>, <<External("scan", "publisher", "")>>, <<External("scan", "subscriber", "transient")>>,
   <<External("stop", "server", "")>>, <<External("scan", "nobody", "")>>}
Application(nodes, externals, frames) ==
  [nodes |-> nodes, externals |-> externals, frames |-> frames,
   groups |-> ("arm" :> {"ready"}), actions |-> {<<Bool, Bool, Bool>>}]

\* Any two declarations on two nodes, two framed ones with a tree and a lookup,
\* and every mission of three steps.
Framed == {d \in Subscriptions \cup Publishers : Frame(d) # "" /\ Get(d, "topic") # ""}
AskApplication(nodes, externals, frames) == AskCheck(Application(nodes, externals, frames))
AskChecks ==
  \/ \E d, e \in Declarations, x \in Externals : AskApplication(<<Declares(<<d>>), Declares(<<e>>)>>, x, {})
  \/ \E d, e \in Framed, t \in FrameTrees, l \in {{}, {<<"base", "laser">>}, {<<"map", "laser">>}} :
       AskApplication(<<Declares(<<d>>), [Declares(<<e, TF>>) EXCEPT !.lookups = l]>>,
                      <<External("scan", "publisher", "")>>, t)
  \/ \E m \in Machines, h \in {"right", "wrong"} :
       AskApplication(<<[Declares(m) EXCEPT !.hooks = h]>>, <<>>, {})

-----------------------------------------------------------------------------
(* What a release runs.                                                      *)

MCMachineOf == ("pi@r1" :> "r1")

MachineFile(name) == <<"", name>>
Environment ==
  [name |-> "sim", transport |-> "", endpoint |-> "", domain |-> "", params |-> <<>>,
   externals |-> <<>>, without |-> {}, frames |-> NoFile, metrics |-> <<>>, dashboard |-> <<>>,
   trace |-> FALSE, deploy |-> <<>>, robots |-> <<>>]
Robot ==
  [name |-> "r1", host |-> "", params |-> <<>>, frames |-> NoFile, domain |-> "", endpoint |-> "",
   metrics |-> <<>>, dashboard |-> <<>>, prefix |-> "", scope |-> ""]
\* A chain, a loop that hangs off its end, and a node alone.
NodeGraphs ==
  {[order |-> <<"a", "b">>, deps |-> ("a" :> {}) @@ ("b" :> {"a"})],
   [order |-> <<"d", "a", "b">>, deps |-> ("a" :> {"b"}) @@ ("b" :> {"a"}) @@ ("d" :> {"a"})],
   [order |-> <<"a">>, deps |-> ("a" :> {})]}
\* A fleet of two, a name used twice, and a calibration that is not there.
RobotLists ==
  {<<>>,
   <<[Robot EXCEPT !.host = "pi@r1", !.params = <<MachineFile("params.r1.yaml")>>,
                   !.frames = MachineFile("r1.frames.json")],
     [Robot EXCEPT !.name = "r2", !.host = "r2", !.dashboard = <<"127.0.0.1", 4010>>, !.domain = "2"]>>,
   <<Robot, Robot>>,
   <<[Robot EXCEPT !.frames = MachineFile("missing.json"), !.host = "local"]>>}
EachOf(S, field, V) == {[e EXCEPT ![field] = v] : e \in S, v \in V}
SimParams == MachineFile("params.sim.yaml")
Plainly == EachOf({Environment}, "transport", {"", "zenoh"})
Addressed ==
  EachOf(EachOf(EachOf(Plainly, "metrics", {<<>>, <<"", 9100>>, <<"", 4001>>}),
                "dashboard", {<<>>, <<"", 4000>>, <<"bad">>}), "robots", RobotLists)
Filed ==
  EachOf(EachOf(EachOf(Plainly, "params", {<<>>, <<SimParams>>, <<SimParams, <<"calib", "params.sim.yaml">>>>,
                                           <<<<"calib", "params.yaml">>>>}),
                "frames", {NoFile, MachineFile("r1.frames.json")}), "robots", RobotLists)
OnDisk == {SimParams, MachineFile("params.r1.yaml"), <<"calib", "params.sim.yaml">>,
           <<"calib", "params.yaml">>, MachineFile("r1.frames.json")}
DeclareApp(environment, graph, files, atRoot, default) ==
  [order |-> graph.order, deps |-> graph.deps, atRoot |-> atRoot, files |-> OnDisk \cup files,
   externals |-> <<>>, default |-> default, environments |-> ("sim" :> environment)]
ReleaseAsked(declared) ==
  \E b \in {<<"127.0.0.1", 4000>>, <<"off">>} : AskRelease(declared, "", b)
AskReleases ==
  \/ \E e \in Addressed, g \in NodeGraphs : ReleaseAsked(DeclareApp(e, g, {}, TRUE, "sim"))
  \/ \E e \in Filed, root \in BOOLEAN, default \in {"", "sim"},
        files \in SUBSET {MachineFile("frames.json"), MachineFile("robot.urdf"), MachineFile("waffle.urdf")} :
       ReleaseAsked(DeclareApp(e, CHOOSE g \in NodeGraphs : Len(g.order) = 2, files, root, default))

-----------------------------------------------------------------------------
(* The fleet view.                                                           *)

F == INSTANCE FleetView WITH Names <- <<"a", "b", "c", "ext", "scan", "vel">>

\* a publishes a scan, b turns it into velocities and c hears those, twice over.
End(kind, topic, type, qos) == [kind |-> kind, topic |-> topic, type |-> type, qos |-> qos, count |-> 1]
Release(type, qos, frames) ==
  [endpoints |-> [n \in {"a", "b", "c"} |->
     CASE n = "a" -> <<End("pub", "scan", "Scan", qos)>>
       [] n = "b" -> <<End("sub", "scan", type, "sensor"), End("pub", "vel", "Twist", "")>>
       [] OTHER -> <<End("sub", "vel", "Twist", ""), End("sub", "vel", "Twist", ""),
                     End("sub", "ext", "Map", "")>>],
   frames |-> frames, missions |-> {"b"}]
Releases == {Release("Scan", "sensor", <<"base">>), Release("Scan2", "sensor", <<"base">>),
             Release("Scan", "", <<"odom">>), Release("Scan", "sensor", <<>>)}
Process(host, name, nodes, release, ok, s) ==
  [host |-> host, name |-> name, robot |-> host, url |-> "u", nodes |-> nodes, release |-> release,
   ok |-> ok, state |-> [n \in {"a", "b", "c"} |-> IF n = "b" THEN s ELSE "active"],
   dropped |-> IF s = "active" THEN {} ELSE {"c"}]

\* A robot on one release or between two of them, in one process or split.
SplitRobot(host) ==
  {<<Process(host, "a", <<"a">>, x, oa, s), Process(host, "b", <<"b">>, y, ob, s),
     Process(host, "c", <<"c">>, x, oc, s)>> :
     x, y \in Releases, oa, ob, oc \in BOOLEAN, s \in {"active", "inactive"}}
WholeRobot(host) == {<<Process(host, "app", <<"b", "a", "c">>, x, ok, "active")>> :
                       x \in Releases, ok \in BOOLEAN}
Fleets == SplitRobot("") \cup WholeRobot("")
TwoRobots == {f \in WholeRobot("r1") : f[1].ok} \X {f \in SplitRobot("r2") : f[1].release = f[2].release}
AskFleet ==
  \E x \in {{}, {"ext"}} :
    \/ \E f \in Fleets : input' = [tool |-> "fleet", fleet |-> F!fetchAll(f), external |-> x]
    \/ \E f \in TwoRobots :
         /\ f[1][1].release = f[2][1].release
         /\ input' = [tool |-> "fleet", fleet |-> F!fetchAll(f[1] \o f[2]), external |-> x]

\* What the fleet view says of the robots is what their releases and the
\* processes that answer amount to (mergeFleet), and the chains of spans it draws
\* are whole (stitch).
FleetIsTrue ==
  /\ input.tool = "fleet" => F!FleetIsTrue(input.fleet, input.external)
  /\ ChainsAreCausal

-----------------------------------------------------------------------------
(* A live graph.                                                             *)

Cmd == <<"cmd">>
Goal == <<"go">>
Reset == <<"reset">>
Type(pkg, kind, name) == [pkg |-> pkg, kind |-> kind, name |-> name, part |-> ""]
PartOf(type, part) == [type EXCEPT !.part = part]
Twist == Type("geometry_msgs", "msg", "Twist")
Stamped == Type("geometry_msgs", "msg", "TwistStamped")
SetBool == Type("std_srvs", "srv", "SetBool")
Change == Type("lifecycle_msgs", "srv", "ChangeState")
Navigate == Type("nav_msgs", "action", "Navigate")
GoalStatus == Type("action_msgs", "msg", "GoalStatusArray")

G == INSTANCE Discovery WITH
       Atoi <- [s \in {ToString(n) : n \in 0..10} |-> CHOOSE n \in 0..10 : ToString(n) = s],
       Alphabet <- <<<<"amcl", "change_state">>, Cmd, Goal, Reset, <<"scan">>>>,
       Infrastructure <- {Change}

OnGraph(kind, node, topic, type, hash, profile) ==
  [kind |-> kind, node |-> node, topic |-> topic, type |-> type, hash |-> hash,
   qos |-> IF profile \in DOMAIN G!Profiles THEN G!Profiles[profile]
           ELSE [reliability |-> "best-effort", durability |-> "transient-local", depth |-> 1]]
\* A navigation stack of two nodes that command the robot, and the robot.
Stack(q, r, type) ==
  [domain |-> 0, zid |-> "z1", nodes |-> <<"amcl", "nav">>,
   endpoints |->
     <<OnGraph("SS", "amcl", <<"amcl", "change_state">>, PartOf(Change, "Request"), "h1", "reliable"),
       OnGraph("MP", "nav", Cmd, Twist, "h2", q),
       OnGraph("MP", "amcl", Cmd, type, "h3", r),
       OnGraph("MP", "nav", Goal \o <<"_action", "status">>, GoalStatus, "h4", "transient"),
       OnGraph("SS", "nav", Goal \o <<"_action", "send_goal">>, PartOf(Navigate, "SendGoal_Request"), "h5", "reliable"),
       OnGraph("SC", "nav", Reset, PartOf(SetBool, "Request"), "h6", "reliable"),
       OnGraph("MS", "nav", <<"scan">>, Twist, "h2", "sensor")>>]
OwnProcess(q) ==
  [domain |-> 0, zid |-> "z0", nodes |-> <<"base">>,
   endpoints |-> <<OnGraph("MS", "base", Cmd, Twist, "h2", q), OnGraph("MP", "base", Cmd, Twist, "h2", q),
                   OnGraph("MP", "base", <<"scan">>, Twist, "h2", "reliable"),
                   OnGraph("SS", "base", Reset, SetBool, "h6", "reliable")>>]
\* Another domain's, and two this build cannot read.
Strange == <<<<"@ros2_lv", "1", "z9", "0", "0", "NN", <<>>, <<>>, "base">>,
             <<"@ros2_lv", "0", "z9", "0", "1", "XX", <<>>, <<>>, "x">>,
             <<"@ros2_lv", "0", "z9", "0", "2", "MP", <<>>, <<>>, "x">>>>
DeclaredAs(topic, role, type, qos) == [topic |-> topic, role |-> role, type |-> type, qos |-> qos]
DeclaredLists ==
  {<<>>,
   <<DeclaredAs(<<"scan">>, "subscriber", Twist, ""), DeclaredAs(Cmd, "publisher", Stamped, "")>>,
   <<DeclaredAs(Goal, "action_server", Navigate, ""), DeclaredAs(Cmd, "publisher", Twist, "transient"),
     DeclaredAs(Cmd, "publisher", Twist, "reliable")>>}
Consuming(externals, overlaid) ==
  [nodes |-> {"base"}, externals |-> externals, overlaid |-> overlaid,
   manages |-> IF overlaid THEN <<>> ELSE <<<<<<"amcl">>, <<"map">>>>>>,
   provides |-> [topic |-> {<<"scan">>, Cmd}, service |-> {Reset}, action |-> {}],
   consumes |-> [topic |-> {Cmd}, service |-> {}, action |-> {Goal}]]
\* The stack is all there, or some of its endpoints are not yet.
AskGraph ==
  \E q, r \in DOMAIN G!Profiles \cup {"other"}, type \in {Twist, Stamped}, declared \in DeclaredLists,
     overlaid, all, infrastructure \in BOOLEAN :
    LET stack == G!TokensOf(Stack(q, r, type)) IN
    \E missing \in SUBSET {stack[n] : n \in {4, 5, 7}} :
      /\ infrastructure => all
      /\ input' = [tool |-> "graph", process |-> Stack(q, r, type), app |-> Consuming(declared, overlaid),
                   options |-> [all |-> all, infrastructure |-> infrastructure],
                   heard |-> G!TokensOf(OwnProcess(q)) \o SelectSeq(stack, LAMBDA t : t \notin missing)
                             \o Strange]

\* The externals block derived from a graph, or a part of it, can be trusted, and
\* a process is read back as what it advertised (Interfaces, Externals, ParseToken).
DeclarationsAreDerived ==
  input.tool = "graph" =>
    /\ G!TokensReadBack(input.process)
    /\ G!DeclarationsAreDerived(input.app, G!Query(input.heard, 0).entities, input.options)

-----------------------------------------------------------------------------
(* The bytes. Every kind of field, behind an odd byte, a text or another, in *)
(* sequences and in sequences of those.                                      *)

W == INSTANCE Wire WITH Base <- 4, Second <- 10, Magic <- <<67, 68, 84, 82>>

Odd == [kind |-> "bool"]
Text == [kind |-> "string"]
Sequence(elem) == [kind |-> "slice", elem |-> elem]
Struct(fields) == [kind |-> "struct", fields |-> fields]
Scalars == {[kind |-> k] : k \in {"bool", "string", "time", "duration"}}
           \cup {W!Number(k, n) : k \in {"int", "uint"}, n \in {1, 2, 4, 8}}
Types == Scalars \cup {Sequence(t) : t \in Scalars}
         \cup {Struct(<<Odd, t, u>>) : t \in {Text, W!Number("int", 2)}, u \in Scalars}
         \cup {[kind |-> "array", size |-> 2, elem |-> Struct(<<t, Odd>>)] : t \in Scalars}
         \cup {Sequence(Struct(<<Odd, Sequence(W!Number("uint", 8))>>))}

RECURSIVE Values(_)
Values(t) ==
  CASE t.kind = "bool" -> BOOLEAN
    [] t.kind = "string" -> {<<>>, <<0>>, <<2, 1, 3>>}
    [] t.kind = "time" -> {[isZero |-> TRUE, at |-> 0]} \cup {[isZero |-> FALSE, at |-> a] : a \in {0, -3, 25, 1280}}
    [] t.kind = "duration" -> {0, 25, -20, -5}
    [] t.kind = "int" -> {0, -1, 4^t.size \div 2 - 1}
    [] t.kind = "uint" -> {0, 4^t.size - 1}
    [] t.kind = "slice" -> UNION {[1..n -> Values(t.elem)] : n \in 0..2}
    [] t.kind = "array" -> [1..t.size -> Values(t.elem)]
    [] OTHER -> FoldLeft(LAMBDA some, field : {Append(v, x) : v \in some, x \in Values(field)},
                         {<<>>}, t.fields)

Trace(sampled) == [trace |-> [i \in 1..16 |-> i], span |-> [i \in 1..8 |-> 67], sampled |-> sampled]
AskWire ==
  \/ \E t \in Types : \E v \in Values(t) : input' = [tool |-> "wire", type |-> t, value |-> v]
  \/ \E b \in {0, 255}, gid \in {<<>>, [i \in 1..16 |-> 2]}, s \in BOOLEAN :
       input' = [tool |-> "attachment", seq |-> [i \in 1..8 |-> b], at |-> [i \in 1..8 |-> i],
                 gid |-> gid, trace |-> Trace(s)]

\* A message and what travels with it are read back as they were written, and
\* never as something else when their end is lost (Marshal, Unmarshal).
WireKeepsValues ==
  /\ input.tool = "wire" => W!WireKeepsValues(input.type, input.value)
  /\ input.tool = "attachment" => W!AttachmentsKeep(input.seq, input.at, input.gid, input.trace)

-----------------------------------------------------------------------------
AskTool ==
  /\ input = NoInput
  /\ \/ \E f \in ParamFiles : AskFile(f)
     \/ \E e \in EdgeLists : AskEdges(e)
     \/ \E t \in Trees : AskTree(t, <<1, 2, 5>>)
     \/ \E f \in FrameFiles, j \in Descriptions, o \in DeriveOptions :
          AskDerive(f, j, o)
     \/ AskChecks \/ AskReleases \/ AskFleet \/ AskGraph \/ AskWire

ServicesInit ==
  /\ system \in {"bus", "clock", "params", "telemetry", "tools"}
  /\ BusInit /\ Init /\ TelemetryInit /\ ParamInit
  /\ system # "params" => given = <<>>
  /\ ToolInit

ServicesNext ==
  /\ UNCHANGED system
  /\ \/ system = "bus" /\ BusNext /\ UNCHANGED <<vars, telemetryVars, paramVars, input>>
     \/ system = "clock" /\ Next /\ UNCHANGED <<busVars, telemetryVars, paramVars, input>>
     \/ system = "telemetry" /\ TelemetryNext /\ UNCHANGED <<busVars, vars, paramVars, input>>
     \/ system = "params" /\ ParamNext /\ UNCHANGED <<busVars, vars, telemetryVars, input>>
     \/ system = "tools" /\ AskTool /\ UNCHANGED <<busVars, vars, telemetryVars, paramVars>>

ServicesSpec == ServicesInit /\ [][ServicesNext]_servicesVars
=============================================================================
