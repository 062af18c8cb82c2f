----------------------------- MODULE Deployment -----------------------------
(***************************************************************************)
(* What an environment means: how environments.json is resolved for an     *)
(* environment and for a robot (internal/scan/environments.go, frames.go), *)
(* what a release is made of and what its units run (internal/deploy,      *)
(* internal/gen), where the fleet view looks for them (deploy/peers.go),   *)
(* and what the same application is run with during development            *)
(* (internal/run).                                                         *)
(*                                                                         *)
(* A file is <<directory, name>>, its directory relative to that of the    *)
(* application, and stands for its content. An address is <<>>, or what    *)
(* net.SplitHostPort makes of it: <<host, port>>, or <<text>> where it     *)
(* makes nothing. A field of a record that is not given is "" (a list,     *)
(* empty). Parameters, domain, metrics address and the like have no        *)
(* structure here.                                                         *)
(***************************************************************************)
EXTENDS FrameTree

CONSTANTS MachineOf,   \* user@machine |-> machine, for the hosts written so
          Relative     \* install prefixes that are not absolute paths

Unset == ""
NoFile == <<>>
Generated == <<"generated", "params.yaml">>
Beside(name) == <<Unset, name>>
BaseName(file) == file[2]
IsUrdf(file) == file \in {Beside("robot.urdf"), Beside("waffle.urdf")}

Or(a, b) == IF a = Unset THEN b ELSE a
OrAddr(a, b) == IF a = <<>> THEN b ELSE a
NoEnv == [name |-> Unset]
NoRobot == "no robot"

-----------------------------------------------------------------------------
(* The environment (internal/scan). A result that may be an error is a set *)
(* with the value or {}.                                                   *)

checkRobots(robots) ==
  /\ \A i \in DOMAIN robots : robots[i].name # Unset
  /\ \A i, j \in DOMAIN robots : robots[i].name = robots[j].name => i = j

\* loadGroups, loadFrames: a file of the expected name, if there is one.
BesideConfig(decl, name) == IF Beside(name) \in decl.files THEN Beside(name) ELSE NoFile

\* loadDescription: the only .urdf; two of them are ambiguous.
loadDescription(decl) ==
  LET urdfs == {f \in decl.files : IsUrdf(f)} IN
  IF \E f \in urdfs : urdfs = {f} THEN CHOOSE f \in urdfs : TRUE ELSE NoFile

\* ScanApp: what is declared beside the code.
ScanApp(decl) ==
  {[decl  |-> decl, env |-> NoEnv, robot |-> NoRobot, externals |-> decl.externals,
    framesFile |-> BesideConfig(decl, "frames.json"),
    groupsFile |-> BesideConfig(decl, "groups.json"),
    descriptionFile |-> loadDescription(decl)] :
    ok \in {TRUE} \cap
      {/\ decl.default # Unset => decl.default \in DOMAIN decl.environments
       /\ \A e \in DOMAIN decl.environments : checkRobots(decl.environments[e].robots)}}

SamePeer(e, f) == e.topic = f.topic /\ e.role = f.role

Overlaid(out, e) ==
  LET at == {i \in DOMAIN out : SamePeer(out[i], e)} IN
  IF at = {} THEN Append(out, e) ELSE [out EXCEPT ![Max(at)] = e]

mergeExternals(base, env) ==
  FoldLeft(Overlaid, SelectSeq(base, LAMBDA e : e.topic \notin env.without), env.externals)

\* resolveFrames: a file that is named must exist.
resolveFrames(app, frames) ==
  IF frames = NoFile THEN {app}
  ELSE {[app EXCEPT !.framesFile = f] : f \in {frames} \cap app.decl.files}

Resolve(app, given) ==
  LET name == Or(given, app.decl.default) IN
  IF name = Unset THEN {app}
  ELSE UNION {resolveFrames([app EXCEPT !.env = app.decl.environments[e],
                                        !.externals = mergeExternals(app.externals,
                                                                     app.decl.environments[e])],
                            app.decl.environments[e].frames) :
              e \in {name} \cap DOMAIN app.decl.environments}

NoDeploy == [host |-> Unset, cross |-> FALSE, zenoh |-> FALSE, cgo |-> FALSE, cc |-> Unset,
             scope |-> Unset, prefix |-> Unset]
DeployOf(env) == IF env.deploy = <<>> THEN NoDeploy ELSE env.deploy[1]

\* A robot appends its parameter files and replaces the rest.
ForRobot(app, robot) ==
  LET env == app.env
      d == DeployOf(env)
      own == [env EXCEPT !.robots = <<>>,
                         !.domain = Or(robot.domain, @),
                         !.endpoint = Or(robot.endpoint, @),
                         !.metrics = OrAddr(robot.metrics, @),
                         !.dashboard = OrAddr(robot.dashboard, @),
                         !.params = @ \o robot.params,
                         !.deploy = <<[d EXCEPT !.host = Or(robot.host, @),
                                                !.prefix = Or(robot.prefix, @),
                                                !.scope = Or(robot.scope, @)]>>]
  IN resolveFrames([app EXCEPT !.env = own, !.robot = robot.name], robot.frames)

Robots(app) == IF app.env = NoEnv THEN <<>> ELSE app.env.robots

\* The applications a command that takes -env is about, in rollout order; the
\* configuration of one robot may be in error.
OnEach(app) ==
  IF Robots(app) = <<>> THEN <<{app}>>
  ELSE [i \in DOMAIN Robots(app) |-> ForRobot(app, Robots(app)[i])]

-----------------------------------------------------------------------------
(* The release (internal/deploy).                                          *)

transportName(app) == IF app.env = NoEnv THEN "inproc" ELSE Or(app.env.transport, "inproc")
singleProcess(app) == transportName(app) = "inproc"
envParams(app) == IF app.env = NoEnv THEN <<>> ELSE app.env.params
EnvAddr(app, field) == IF app.env = NoEnv THEN <<>> ELSE app.env[field]

\* A remote home is not known here: Unset is for validate to refuse.
UserHome == "home"
defaultPrefix(scope, host) ==
  IF scope # "user" THEN "/opt/conductor" ELSE IF host # Unset THEN Unset ELSE UserHome

\* The command line o, over the environment's deploy section.
applyDefaults(app, o) ==
  LET d == IF app.env = NoEnv THEN NoDeploy ELSE DeployOf(app.env)
      named == Or(o.host, d.host)
      host == IF named = "local" THEN Unset ELSE named
      scope == Or(o.scope, Or(d.scope, "system"))
  IN [host |-> host, scope |-> scope, cc |-> Or(o.cc, d.cc),
      prefix |-> Or(o.prefix, Or(d.prefix, defaultPrefix(scope, host))),
      zenoh |-> o.zenoh \/ d.zenoh, cgo |-> o.cgo \/ d.cgo, cross |-> d.cross]

validate(app, o) ==
  /\ transportName(app) = "zenoh" => o.zenoh
  /\ o.zenoh => o.cgo
  /\ o.cgo /\ o.cross => o.cc # Unset
  /\ o.scope \in {"system", "user"}
  /\ o.prefix \notin Relative \cup {Unset}

\* The files build writes into the stage, in its order: each a name and what
\* it holds. Those that are the same in every release are left out.
Written(app) ==
  <<<<"params.yaml", Generated>>>>
  \o [i \in DOMAIN envParams(app) |-> <<BaseName(envParams(app)[i]), envParams(app)[i]>>]
  \o (IF app.framesFile = NoFile THEN <<>> ELSE <<<<"frames.json", app.framesFile>>>>)
  \o (IF app.groupsFile = NoFile THEN <<>> ELSE <<<<"groups.json", app.groupsFile>>>>)
  \o (IF app.descriptionFile = NoFile THEN <<>>
      ELSE <<<<BaseName(app.descriptionFile), app.descriptionFile>>>>)

\* What a file of the release holds: {} when there is none of that name.
Staged(app, name) ==
  LET of == {i \in DOMAIN Written(app) : Written(app)[i][1] = name} IN
  IF of = {} THEN {} ELSE {Written(app)[Max(of)][2]}
-----------------------------------------------------------------------------
(* What runs a process: flags as pairs, a file's value being where it is.  *)

Given(flag, value) == IF value = Unset THEN <<>> ELSE <<<<flag, value>>>>
GivenAddr(flag, addr) == IF addr = <<>> THEN <<>> ELSE <<<<flag, addr>>>>
InRelease(name) == <<"release", name>>
InSources(file) == <<"sources", file>>
GivenFile(flag, file, at) == IF file = NoFile THEN <<>> ELSE <<<<flag, at>>>>

transportFlags(env) == Given("transport", env.transport) \o Given("zenoh-endpoint", env.endpoint)
                       \o Given("domain", env.domain)
traceFlag(env) == IF env.trace THEN <<<<"trace", TRUE>>>> ELSE <<>>

\* Those of the units. Without an environment there are none.
runtimeFlags(app) ==
  IF app.env = NoEnv THEN <<>>
  ELSE transportFlags(app.env)
       \o <<<<"params", InRelease("params.yaml")>>>>
       \o [i \in DOMAIN app.env.params |-> <<"params", InRelease(BaseName(app.env.params[i]))>>]
       \o GivenFile("frames", app.framesFile, InRelease("frames.json"))
       \o GivenFile("groups", app.groupsFile, InRelease("groups.json"))
       \o (IF app.descriptionFile = NoFile THEN <<>>
           ELSE <<<<"description", InRelease(BaseName(app.descriptionFile))>>>>)
       \o traceFlag(app.env)

\* Those of `conductor run`, against the sources (run.Flags).
Flags(app) ==
  IF app.env = NoEnv THEN <<>>
  ELSE transportFlags(app.env)
       \o [i \in DOMAIN app.env.params |-> <<"params", InSources(app.env.params[i])>>]
       \o GivenFile("frames", app.framesFile, InSources(app.framesFile))
       \o GivenFile("groups", app.groupsFile, InSources(app.groupsFile))
       \o GivenFile("description", app.descriptionFile, InSources(app.descriptionFile))
       \o GivenAddr("metrics-addr", app.env.metrics) \o GivenAddr("dashboard", app.env.dashboard)
       \o traceFlag(app.env)

\* A node is given by its position in the bringup order, from 1.
offsetPort(addr, index) ==
  IF Len(addr) = 2 THEN <<addr[1], addr[2] + index - 1>> ELSE addr

Order(app) == app.decl.order
Rank(app, node) == CHOOSE i \in DOMAIN Order(app) : Order(app)[i] = node

\* The edges that point back in the order.
After(app, node) == {p \in app.decl.deps[node] : Rank(app, p) < Rank(app, node)}

Unit(app, node, after, index) ==
  [node |-> node, after |-> after,
   flags |-> runtimeFlags(app)
             \o GivenAddr("metrics-addr", offsetPort(EnvAddr(app, "metrics"), index))
             \o GivenAddr("dashboard", offsetPort(EnvAddr(app, "dashboard"), index))]

\* The units but for the target, which wants them all; Unset is every node.
SystemdUnits(app) ==
  IF singleProcess(app) THEN {Unit(app, Unset, {}, 1)}
  ELSE {Unit(app, Order(app)[i], After(app, Order(app)[i]), i) : i \in DOMAIN Order(app)}

\* A process per node in the order, with nothing but the binary and the name.
LaunchXML(app) == {[node |-> Order(app)[i], flags |-> <<>>] : i \in DOMAIN Order(app)}

\* runApp: one process, from the root of the module, with a dashboard unless
\* told otherwise; base is dashboardBase, <<"off">> for none.
runApp(app, base) ==
  [node |-> Unset, cwd |-> IF app.decl.atRoot THEN "app" ELSE "elsewhere",
   flags |-> Flags(app) \o (IF base = <<"off">> \/ EnvAddr(app, "dashboard") # <<>> THEN <<>>
                            ELSE <<<<"dashboard", base>>, <<"dashboard-traces", 300>>>>)]

\* The elements of a sequence that are in a set, in their order.
withoutDashboard(flags) == Among(flags, {f \in ToSet(flags) : f[1] \notin {"dashboard", "metrics-addr"}})

\* runSplit: a process per node, from the directory of the application.
runSplit(app, base) ==
  {[node |-> Order(app)[i], cwd |-> "app",
    flags |-> withoutDashboard(Flags(app))
              \o (IF base = <<"off">> THEN <<>>
                  ELSE <<<<"dashboard", offsetPort(base, i)>>, <<"dashboard-traces", 300>>>>)
              \o GivenAddr("metrics-addr", offsetPort(EnvAddr(app, "metrics"), i))] :
     i \in DOMAIN Order(app)}

-----------------------------------------------------------------------------
(* What a process makes of its flags (run.go).                             *)

\* The last of a flag that is repeated is the one that counts.
Value(flags, flag, default) ==
  LET of == {i \in DOMAIN flags : flags[i][1] = flag}
  IN  IF of = {} THEN default ELSE flags[Max(of)][2]
IsGiven(flags, flag) == \E f \in ToSet(flags) : f[1] = flag

\* What a file named by a flag holds.
Content(app, at) == IF at[1] = "release" THEN Staged(app, at[2])
                    ELSE {at[2]} \cap app.decl.files

\* findFramesFile: the flag's file, or the default name in the working
\* directory or above the binary, which for a release is the release.
Found(app, flags, cwd, flag, default) ==
  IF IsGiven(flags, flag) THEN Content(app, Value(flags, flag, NoFile))
  ELSE CASE cwd = "release"   -> Staged(app, default)
         [] cwd = "app"       -> {Beside(default)} \cap app.decl.files
         [] cwd = "elsewhere" -> {}

\* The parameter files a process loads, but for the generated defaults.
Loaded(app, flags) ==
  LET files == Among(flags, {f \in ToSet(flags) : f[1] = "params" /\ Content(app, f[2]) # {Generated}})
  IN  [i \in DOMAIN files |-> Content(app, files[i][2])]

\* What differs between two processes of a node in how they behave; where they
\* serve their metrics and dashboard is not that, nor are the generated
\* defaults, which are those the fields have anyway.
Behaviour(app, flags, cwd) ==
  [transport   |-> Value(flags, "transport", "inproc"),
   endpoint    |-> Value(flags, "zenoh-endpoint", "default"),
   domain      |-> Value(flags, "domain", "0"),
   trace       |-> Value(flags, "trace", FALSE),
   params      |-> Loaded(app, flags),
   frames      |-> Found(app, flags, cwd, "frames", "frames.json"),
   groups      |-> Found(app, flags, cwd, "groups", "groups.json"),
   description |-> Found(app, flags, cwd, "description", "robot.urdf")]

Deployed(app) == {Behaviour(app, u.flags, "release") : u \in SystemdUnits(app)}
Launched(app) == {Behaviour(app, p.flags, "release") : p \in LaunchXML(app)}
Developed(app, base) == {Behaviour(app, runApp(app, base).flags, runApp(app, base).cwd)}
Split(app, base) == {Behaviour(app, p.flags, p.cwd) : p \in runSplit(app, base)}

-----------------------------------------------------------------------------
(* The fleet view (deploy/peers.go).                                       *)

peerHost(app) ==
  LET host == DeployOf(app.env).host
  IN  IF host = "local" THEN Unset ELSE IF host \in DOMAIN MachineOf THEN MachineOf[host] ELSE host

\* A process that binds every address is asked for at the deploy host.
peerURL(host, addr) ==
  IF Len(addr) # 2 THEN addr
  ELSE <<IF addr[1] \in {Unset, "0.0.0.0", "::"} THEN Or(host, "127.0.0.1") ELSE addr[1], addr[2]>>

\* Mutant: one peer per node, whatever runs them.
PeersOfNodes(app) ==
  IF EnvAddr(app, "dashboard") = <<>> THEN {}
  ELSE {[node |-> Order(app)[i], robot |-> app.robot,
         url |-> peerURL(peerHost(app), offsetPort(app.env.dashboard, i))] :
        i \in DOMAIN Order(app)}

Peers(app) ==
  IF EnvAddr(app, "dashboard") = <<>> THEN {}
  ELSE {[node |-> IF singleProcess(app) THEN Unset ELSE Order(app)[i], robot |-> app.robot,
         url |-> peerURL(peerHost(app), offsetPort(app.env.dashboard, i))] :
        i \in IF singleProcess(app) THEN {1} ELSE DOMAIN Order(app)}

\* {} when a robot's configuration is in error.
FleetPeers(app) ==
  IF \E i \in DOMAIN OnEach(app) : OnEach(app)[i] = {} THEN {}
  ELSE {UNION {Peers(on) : on \in UNION ToSet(OnEach(app))}}

-----------------------------------------------------------------------------
(* Properties, of what a command makes of one declaration.                 *)

\* A peer of the environment takes the place of the one with its topic and
\* role; the rest of the declared ones stay, unless the environment is without
\* them ("an environment can change the type or QoS a peer offers on a topic
\* without repeating the whole list").
ExternalsAreOverlaid(base, env) ==
  LET out == ToSet(mergeExternals(base, env))
      Same(e, s) == \E i \in DOMAIN s : SamePeer(e, s[i])
      Final(s, i) == \A j \in (i + 1)..Len(s) : ~SamePeer(s[i], s[j])
  IN (\A i \in DOMAIN base : Final(base, i)) =>
       out = {env.externals[i] : i \in {j \in DOMAIN env.externals : Final(env.externals, j)}}
             \cup {e \in ToSet(base) : e.topic \notin env.without /\ ~Same(e, env.externals)}

\* Every robot runs with its own geometry and is tuned last ("a robot that
\* silently falls back to the simulator's calibration is the failure this whole
\* mechanism exists to prevent"), and is the machine its release goes to.
RobotsAreThemselves(app) ==
  \A i \in DOMAIN Robots(app) :
    LET robot == Robots(app)[i] IN
    \A on \in ForRobot(app, robot) :
      /\ on.framesFile = IF robot.frames # NoFile THEN robot.frames
                         ELSE IF app.env.frames # NoFile THEN app.env.frames
                         ELSE BesideConfig(app.decl, "frames.json")
      /\ on.framesFile # NoFile => on.framesFile \in app.decl.files
      /\ IsSuffix(robot.params, envParams(on)) /\ IsPrefix(app.env.params, envParams(on))
      /\ robot.host # Unset => applyDefaults(on, [NoDeploy EXCEPT !.scope = "system"]).host
                               = IF robot.host = "local" THEN Unset ELSE robot.host

\* What the binary was built with: cgo is off unless asked for.
Transports(o) == {"inproc"} \cup (IF o.zenoh /\ o.cgo THEN {"zenoh"} ELSE {})

\* A release that passes validate has the transport its environment names, if
\* there is one of that name, and a place to be ("validate rejects the
\* combinations that would only fail on the robot", internal/deploy/deploy.go:226).
ReleaseCanStart(app, given) ==
  LET o == applyDefaults(app, given) IN
  validate(app, o) /\ transportName(app) \in {"inproc", "zenoh"} =>
    /\ transportName(app) \in Transports(o)
    /\ o.prefix = UserHome => o.host = Unset

\* build reads every file it ships; a process refuses to start without one it is
\* told to load.
Complete(app) == \A i \in DOMAIN envParams(app) : envParams(app)[i] \in app.decl.files
\* Two files of one name go into the release, where they are one; a parameter file
\* with the default name of another is taken for it.
Collide(app) ==
  \/ \E i, j \in DOMAIN Written(app) : i < j /\ Written(app)[i][1] = Written(app)[j][1]
  \/ \E i \in DOMAIN envParams(app) :
       BaseName(envParams(app)[i]) \in {"frames.json", "groups.json", "robot.urdf"}
\* Without flags that name them, files are looked for by their default names.
Unnamed(app) == app.env = NoEnv \/ \E f, g \in app.decl.files : IsUrdf(f) /\ IsUrdf(g) /\ f # g

\* "What a developer runs locally and what systemd runs on the robot differ in
\* paths, not in behaviour" (internal/run/run.go:341). It takes an environment,
\* and parameter files that are there and differ in their names and not in their
\* directories.
BehavesAsDeveloped(app, base) ==
  Complete(app) /\ ~Collide(app) /\ ~Unnamed(app) =>
    /\ Deployed(app) = Developed(app, base)
    /\ ~singleProcess(app) => Deployed(app) = Split(app, base)

\* Every file a unit is told to load is in the release.
FilesAreShipped(app) ==
  \A u \in SystemdUnits(app) : \A i \in DOMAIN u.flags :
    u.flags[i][1] \in {"params", "frames", "groups", "description"} =>
      Content(app, u.flags[i][2]) # {}

\* "Transport, Endpoint and Domain become the runtime flags baked into the
\* generated units and launch file" (internal/scan/environments.go:34).
LaunchedAsDeployed(app) ==
  Order(app) # <<>> =>
    \A l \in Launched(app), d \in Deployed(app) :
      l.transport = d.transport /\ l.endpoint = d.endpoint /\ l.domain = d.domain

\* The nodes that, through what they consume, come to wait for themselves: those in
\* or below a cycle.
Looped(decl) ==
  {n \in ToSet(decl.order) :
     \E S \in SUBSET ToSet(decl.order) : n \in S /\ \A m \in S : decl.deps[m] \cap S # {}}

\* systemd can start the units: of any of them, one is after none of the others; and
\* where the graph has no cycle, a unit is after every unit whose node provides for
\* its own.
Ordered(app) ==
  /\ \A S \in (SUBSET SystemdUnits(app)) \ {{}} : \E u \in S : \A v \in S : v.node \notin u.after
  /\ \A u \in SystemdUnits(app) :
       u.node # Unset /\ u.node \notin Looped(app.decl) => u.after = app.decl.deps[u.node]

\* The processes the fleet view asks are the ones the units start: robot by
\* robot, at the address the unit serves its dashboard on, as that is reached
\* from elsewhere ("a list that drifts", deploy/peers.go:13, is what this saves).
PeersAreUnits(app) ==
  \A peers \in FleetPeers(app) :
    peers = UNION {{[node |-> u.node, robot |-> on.robot,
                     url |-> peerURL(peerHost(on), Value(u.flags, "dashboard", <<>>))] :
                    u \in {v \in SystemdUnits(on) : Value(v.flags, "dashboard", <<>>) # <<>>}} :
                   on \in UNION ToSet(OnEach(app))}

Ports(flags) == {Value(flags, f, <<>>) : f \in {"metrics-addr", "dashboard"}} \ {<<>>}
\* "So the nodes of a per-node deployment do not fight over one port"
\* (internal/gen/systemd.go:157): each has its own, when the two base ports are
\* as far apart as there are nodes.
PortsAreApart(app) ==
  LET m == EnvAddr(app, "metrics")
      d == EnvAddr(app, "dashboard")
      far == Len(m) = 2 /\ Len(d) = 2 => (m[2] - d[2]) \notin (-Len(Order(app)))..Len(Order(app))
  IN Len(m) # 1 /\ Len(d) # 1 /\ far =>
       \A u, v \in SystemdUnits(app) : u # v => Ports(u.flags) \cap Ports(v.flags) = {}
=============================================================================
