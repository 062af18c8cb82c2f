------------------------------- MODULE Tools -------------------------------
(***************************************************************************)
(* The parts of the project that keep no state between two calls: reading  *)
(* a parameter file (paramfile.go), checking a list of transforms, looking *)
(* up in it and deriving it (frames.go, cmd/conductor/frames.go),          *)
(* `conductor check` (internal/scan, internal/graph), and what a release   *)
(* of an environment runs (internal/deploy, internal/gen). They are asked  *)
(* about one input, whatever a file or a program can hold, and the         *)
(* properties say of their answer what it is trusted for.                  *)
(***************************************************************************)
EXTENDS ParamFile, AppCheck, Deployment

VARIABLE input   \* what a tool is asked about

NoInput == [tool |-> "none"]

File(T) == Seq([broken : BOOLEAN, indented : BOOLEAN, key : T, value : T])
IsFile(lines) ==
  lines \in File({lines[i].key : i \in DOMAIN lines} \cup {lines[i].value : i \in DOMAIN lines})

AskFile(lines) == IsFile(lines) /\ input' = [tool |-> "files", lines |-> lines]
AskEdges(ts) == IsList(ts) /\ input' = [tool |-> "edges", edges |-> ts]

\* The units among the quaternions of halves.
Rotations == {q \in Int \X Int \X Int \X Int : q[1]*q[1] + q[2]*q[2] + q[3]*q[3] + q[4]*q[4] = 4}
IsPoint(p) == p \in Int \X Int \X Int
IsPlaced(ts) == \A i \in DOMAIN ts : IsPoint(ts[i].xyz) /\ ts[i].rot \in Rotations
AskTree(ts, p) ==
  /\ IsList(ts) /\ IsPlaced(ts) /\ IsPoint(p)
  /\ input' = [tool |-> "tree", edges |-> ts, point |-> p]
IsTransform(t) ==
  t = [parent |-> t.parent, child |-> t.child, xyz |-> t.xyz, rot |-> t.rot,
       dynamic |-> t.dynamic, by |-> t.by]
IsFramesFile(file) ==
  /\ IsList(file.static) /\ IsList(file.dynamic)
  /\ \A t \in ToSet(file.static) \cup ToSet(file.dynamic) : IsTransform(t)
AskDerive(file, joints, opts) ==
  /\ IsFramesFile(file) /\ IsList(joints) /\ opts.ours \in BOOLEAN
  /\ input' = [tool |-> "derive", file |-> file, joints |-> joints, options |-> opts]

\* What the readers of environments.json and the graph see to: an address has a port
\* that is a number if it has one, no prefix is written like the mark for the user's
\* home, a node is declared once and, outside cycles, comes after those it consumes
\* from (Graph.BringupOrder), and there is one at least.
IsAddress(a) == a = <<>> \/ Len(a) = 1 \/ (Len(a) = 2 /\ a[2] \in Nat)
IsRobot(r) == /\ IsList(r.params) /\ IsAddress(r.metrics) /\ IsAddress(r.dashboard)
              /\ r.prefix # UserHome
IsEnvironment(env) ==
  /\ {"robots", "domain", "endpoint", "metrics", "dashboard", "params", "deploy"} \subseteq DOMAIN env
  /\ IsList(env.params) /\ IsAddress(env.metrics) /\ IsAddress(env.dashboard)
  /\ env.deploy # <<>> => DOMAIN env.deploy[1] = DOMAIN NoDeploy /\ env.deploy[1].prefix # UserHome
  /\ IsList(env.robots) /\ \A i \in DOMAIN env.robots : IsRobot(env.robots[i])
IsDeclaration(decl) ==
  /\ IsList(decl.order) /\ decl.order # <<>> /\ IsInjective(decl.order) /\ Unset \notin ToSet(decl.order)
  /\ \A n \in ToSet(decl.order) : decl.deps[n] \subseteq ToSet(decl.order)
  /\ \A i, j \in DOMAIN decl.order :
       decl.order[i] \in decl.deps[decl.order[j]] /\ decl.order[j] \notin Looped(decl) => i < j
  /\ \A e \in DOMAIN decl.environments : IsEnvironment(decl.environments[e])

AskCheck(app) == IsApp(app) /\ input' = [tool |-> "check", app |-> app]
AskRelease(decl, given, base) ==
  /\ IsDeclaration(decl)
  /\ \E scanned \in ScanApp(decl) : \E app \in Resolve(scanned, given) :
       input' = [tool |-> "release", app |-> app, base |-> base]

ToolInit == input = NoInput
ToolNext ==
  /\ input = NoInput
  /\ \/ \E lines : AskFile(lines)
     \/ \E ts : AskEdges(ts)
     \/ \E ts, p : AskTree(ts, p)
     \/ \E file, joints, opts : AskDerive(file, joints, opts)
     \/ \E app : AskCheck(app)
     \/ \E decl, given, base : AskRelease(decl, given, base)
ToolSpec == ToolInit /\ [][ToolNext]_input

-----------------------------------------------------------------------------
\* A parameter file says of each node what the lines under its name say, the last
\* one of each parameter, and is refused exactly when one of its lines is out of
\* place (parseParamFile).
FilesMeanWhatTheySay == input.tool = "files" => FileMeans(input.lines)

\* A lookup is the product of the edges between two frames, and deriving the file
\* again changes nothing (Lookup, runFrames).
FramesAreRight ==
  /\ input.tool = "tree" => LookupsCompose(input.edges, input.point)
  /\ input.tool = "derive" => DerivationIsStable(input.file, input.joints, input.options)

\* A list of transforms passes the check exactly when it is a tree (FrameTree.Check),
\* and an application conductor check finds no error in, and whose source it reads as
\* the compiler does, starts: no field fails to bind, no step is missing, no call
\* inside it is left without an answer (Validate, newAppOpts).
CheckHoldsUp ==
  /\ input.tool = "edges" => ChecksAreRight(input.edges)
  /\ input.tool = "check" => HoldsUp(input.app)

\* A release starts, runs with the files, flags and order development runs with, on
\* ports of its own, where the fleet view looks for it; and a robot's is its own
\* (ScanApp, Resolve, ForRobot, SystemdUnits, Peers).
IsSound(app, base) ==
  /\ ReleaseCanStart(app, NoDeploy) /\ FilesAreShipped(app) /\ BehavesAsDeveloped(app, base)
  /\ Ordered(app) /\ PortsAreApart(app)
ReleaseIsSound ==
  input.tool = "release" =>
    /\ RobotsAreThemselves(input.app) /\ PeersAreUnits(input.app)
    /\ \A i \in DOMAIN OnEach(input.app) : \A on \in OnEach(input.app)[i] : IsSound(on, input.base)
=============================================================================
