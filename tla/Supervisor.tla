----------------------------- MODULE Supervisor -----------------------------
(***************************************************************************)
(* `conductor run` (internal/run): the required processes of an            *)
(* environment are started in order and awaited, then the application runs *)
(* as one process or, with -split, as one process per node, and everything *)
(* the session started is stopped again, youngest first.                   *)
(*                                                                         *)
(* A process is a group: its leader, which the session forked, and one     *)
(* child standing for what the leader spawned.  Children die whenever they *)
(* like; nothing makes one obey a signal but SIGKILL, which is obeyed at   *)
(* once.  A child that moves to a group of its own is not modelled.        *)
(***************************************************************************)
EXTENDS Integers, FiniteSetsExt

CONSTANTS Required,     \* how many processes the environment requires
          SplitNodes,   \* how many nodes a split run starts
          MaxSignals    \* bound: signals sent to the session

ASSUME SupAssumption ==
  Required \in Nat /\ SplitNodes \in Nat /\ MaxSignals \in Nat

VARIABLES
  session,   \* where the session's goroutine is
  at,        \* the process that goroutine is about
  split,     \* -split was given
  ready,     \* the readiness each required process declares
  foreign,   \* required processes whose endpoint somebody else serves already
  group,     \* each process: leader, child, and the strongest signal it was told;
             \* a "piped" child holds the pipe the session copies the output from
  status,    \* the exit error of the application or of a node, once it is gone
  inbox,     \* the signal channel, which has room for one
  interrupted,
  result,    \* what Run returns
  watcher,   \* openWhenUp's goroutine
  browser,   \* a browser was opened on the dashboard
  serving,   \* the application has bound its dashboard
  signals    \* signals sent so far

supVars == <<session, at, split, ready, foreign, group, status, inbox, interrupted,
             result, watcher, browser, serving, signals>>

Requires == 1..Required
\* The application is the next process, the nodes of a split run those after.
App == Required + 1
NodeProcs == (Required + 1)..(Required + SplitNodes)
Reported == NodeProcs \cup {App}
Procs == Requires \cup Reported

Ready == {"none", "delay", "probe"}
Signals == {"int", "term", "hup"}
Told == {"nothing", "int", "term", "kill"}
Children == {"none", "piped", "loose"}
NoSignal == "none"

Phases == {"start", "await", "build", "launch", "forked", "app", "hangup", "nodes",
           "drain", "stop", "grace", "exited", "killed"}

SupTypeOK ==
  /\ session \in Phases /\ at \in 0..(Required + SplitNodes + 1)
  /\ split \in BOOLEAN
  /\ ready \in [Requires -> Ready] /\ foreign \subseteq Requires
  /\ group \in [Procs -> [leader : {"unborn", "up", "gone"}, child : Children, told : Told]]
  /\ status \in [Reported -> {"none", "ok", "failed"}]
  /\ inbox \in Signals \cup {NoSignal}
  /\ interrupted \in BOOLEAN
  /\ result \in {"none", "nil", "error"}
  /\ watcher \in {"none", "polling", "over"}
  /\ browser \in BOOLEAN /\ serving \in BOOLEAN
  /\ signals \in 0..MaxSignals

Born(p) == group[p].leader # "unborn"
LeaderUp(p) == group[p].leader = "up"
ChildUp(p) == group[p].child # "none"
Alive(p) == LeaderUp(p) \/ ChildUp(p)
\* In a plain run the session's child is `go run`, and the application its child.
GoRun(p) == ~split /\ p = App
\* Wait returns when the leader is reaped and nobody holds the pipe its output
\* is copied from: it does not wait for a child that writes elsewhere.
Done(p) == group[p].leader = "gone" /\ group[p].child # "piped"

Begin == [leader |-> "up", child |-> "none", told |-> "nothing"]
Fork(p) == group' = [group EXCEPT ![p] = Begin]
\* kill(-pgid): everybody in the group hears of it.
Hears(told, sig) == IF told = "kill" \/ (told = "term" /\ sig = "int") THEN told ELSE sig
Killed(g) == [leader |-> IF g.leader = "up" THEN "gone" ELSE g.leader,
              child |-> "none", told |-> "kill"]
Tell(P, sig) ==
  group' = [p \in Procs |-> IF p \in P /\ Born(p)
                            THEN [group[p] EXCEPT !.told = Hears(@, sig)] ELSE group[p]]
Kill(P) ==
  /\ group' = [p \in Procs |-> IF p \in P /\ Born(p) THEN Killed(group[p]) ELSE group[p]]
  /\ status' = [p \in Reported |-> IF p \in P /\ LeaderUp(p) THEN "failed" ELSE status[p]]

\* s.started, as the processes that have been forked; the application is not
\* one of them, nobody stops it but runApp.
Started == {p \in Procs : Born(p) /\ ~GoRun(p)}

SupInit ==
  /\ session = "start" /\ at = 1
  /\ split \in BOOLEAN
  /\ ready \in [Requires -> Ready]
  /\ foreign \in SUBSET {p \in Requires : ready[p] = "probe"}
  /\ group = [p \in Procs |-> [leader |-> "unborn", child |-> "none", told |-> "nothing"]]
  /\ status = [p \in Reported |-> "none"]
  /\ inbox = NoSignal /\ interrupted = FALSE /\ result = "none"
  /\ watcher = "none" /\ browser = FALSE /\ serving = FALSE
  /\ signals = 0

Control == <<split, ready, foreign, signals>>
Views == <<watcher, browser, serving>>

-----------------------------------------------------------------------------
(* Bringing the environment up.                                            *)

\* Whatever Run returns, stop runs behind it, from the youngest process on.
\* A runApp that leaves starts the deferred openWhenUp first.
Leave(r) ==
  /\ session' = "stop" /\ at' = Required + SplitNodes + 1
  /\ result' = r
  /\ inbox' = NoSignal
  /\ watcher' = IF session \in {"app", "hangup"} THEN "polling" ELSE watcher

StartRequired ==
  /\ session = "start" /\ at \in Requires
  /\ \/ Fork(at) /\ session' = "await" /\ UNCHANGED <<at, result, inbox, watcher>>
     \/ Leave("error") /\ UNCHANGED group        \* nothing to run, or fork failed
  /\ UNCHANGED <<Control, status, interrupted, browser, serving>>

\* await: a delay is slept through; a probe is asked first, and only when it
\* says no does await look whether the process is there, then at the deadline.
Answers(p) == p \in foreign \/ Alive(p)
Await ==
  /\ session = "await"
  /\ \/ /\ ready[at] = "probe" => Answers(at)
        /\ session' = "start" /\ at' = at + 1 /\ UNCHANGED <<result, inbox, watcher>>
     \/ /\ ready[at] # "none"
        /\ Leave("error")                        \* exited, late, or a bad duration
  /\ UNCHANGED <<Control, group, status, interrupted, browser, serving>>

RequiredUp ==
  /\ session = "start" /\ at = App
  /\ session' = IF split THEN "build" ELSE "launch"
  /\ UNCHANGED <<Control, at, group, status, inbox, interrupted, result, Views>>

\* go build; without nodes or with a transport that stays in the process, or
\* when it fails, the run ends here.
Build ==
  /\ session = "build"
  /\ \/ session' = "launch" /\ UNCHANGED <<at, result, inbox, watcher>>
     \/ Leave("error")
  /\ UNCHANGED <<Control, group, status, interrupted, browser, serving>>

LaunchApp ==
  /\ session = "launch" /\ ~split
  /\ \/ Fork(App) /\ session' = "forked" /\ UNCHANGED <<at, result, inbox, watcher>>
     \/ Leave("error") /\ UNCHANGED group
  /\ UNCHANGED <<Control, status, interrupted, browser, serving>>

\* signal.Notify, after the fork.
HandleSignals ==
  /\ session = "forked" /\ session' = "app"
  /\ UNCHANGED <<Control, at, group, status, inbox, interrupted, result, Views>>

LaunchNode ==
  /\ session = "launch" /\ split
  /\ \/ /\ at \in NodeProcs
        /\ \/ Fork(at) /\ at' = at + 1 /\ UNCHANGED <<session, result, inbox, watcher>>
           \/ Leave("error") /\ UNCHANGED group
        /\ UNCHANGED browser
     \/ /\ at \notin NodeProcs
        /\ session' = "nodes"
        /\ browser' = TRUE                       \* serveFleet opens it itself
        /\ UNCHANGED <<at, group, result, inbox, watcher>>
  /\ UNCHANGED <<Control, status, interrupted, serving>>

-----------------------------------------------------------------------------
(* Running.                                                                *)

\* runApp's loop.  An interrupt or SIGTERM goes on to the application's group; a
\* hangup interrupts it and gives it three seconds.
ForwardSignal ==
  /\ session = "app" /\ inbox # NoSignal
  /\ interrupted' = TRUE /\ inbox' = NoSignal
  /\ Tell({App}, IF inbox = "term" THEN "term" ELSE "int")
  /\ session' = IF inbox = "hup" THEN "hangup" ELSE "app"
  /\ UNCHANGED <<Control, at, status, result, Views>>

\* Mutant: a hangup waits, but never kills.
HangupOverUnkilled ==
  /\ session = "hangup" /\ Done(App)
  /\ Leave("nil")
  /\ UNCHANGED <<Control, group, status, interrupted, browser, serving>>

HangupOver ==
  /\ session = "hangup"
  /\ \/ Done(App) /\ UNCHANGED <<group, status, serving>>
     \/ Kill({App}) /\ serving' = FALSE
  /\ Leave("nil")
  /\ UNCHANGED <<Control, interrupted, browser>>

AppExited ==
  /\ session = "app" /\ Done(App)
  /\ Leave(IF interrupted \/ status[App] = "ok" THEN "nil" ELSE "error")
  /\ UNCHANGED <<Control, group, status, interrupted, browser, serving>>

\* awaitNodes: the first node to go takes the rest with it.
Interrupted ==
  /\ session = "nodes" /\ inbox # NoSignal
  /\ Tell(NodeProcs, "int")
  /\ session' = "drain" /\ at' = App /\ result' = "nil" /\ inbox' = NoSignal
  /\ UNCHANGED <<Control, status, interrupted, Views>>

NodeExited ==
  /\ session = "nodes"
  /\ \E p \in NodeProcs :
       Done(p) /\ result' = IF status[p] = "ok" THEN "nil" ELSE "error"
  /\ Tell(NodeProcs, "int")
  /\ session' = "drain" /\ at' = App
  /\ UNCHANGED <<Control, status, inbox, interrupted, Views>>

\* waitNodes: in the order they were started, under one deadline.
Drain ==
  /\ session = "drain"
  /\ \/ at \in NodeProcs /\ Done(at) /\ at' = at + 1
        /\ UNCHANGED <<session, group, status, result, inbox, watcher>>
     \/ at \in NodeProcs /\ Kill(NodeProcs) /\ Leave(result)
     \/ at \notin NodeProcs /\ Leave(result) /\ UNCHANGED <<group, status>>
  /\ UNCHANGED <<Control, interrupted, browser, serving>>

-----------------------------------------------------------------------------
(* Stopping.                                                               *)

StopNext ==
  /\ session = "stop"
  /\ LET left == {p \in Started : p <= at}
     IN \/ /\ left # {}
           /\ at' = Max(left) /\ session' = "grace"
           /\ Tell({Max(left)}, "int")
        \/ left = {} /\ session' = "exited" /\ UNCHANGED <<at, group>>
  /\ UNCHANGED <<Control, status, inbox, interrupted, result, Views>>

\* Mutant: the next process is interrupted without a wait for this one.
GraceUnwaited ==
  /\ session = "grace"
  /\ session' = "stop" /\ at' = at - 1
  /\ UNCHANGED <<Control, group, status, inbox, interrupted, result, Views>>

\* Three seconds after the interrupt the group is killed, and waited for.
Grace ==
  /\ session = "grace"
  /\ \/ Done(at) /\ session' = "stop" /\ at' = at - 1 /\ UNCHANGED <<group, status>>
     \/ ~Done(at) /\ Kill({at}) /\ UNCHANGED <<session, at>>
  /\ UNCHANGED <<Control, inbox, interrupted, result, Views>>

-----------------------------------------------------------------------------
(* Everybody else, for as long as there is a session: what becomes of the  *)
(* processes a killed session leaves is not followed.                      *)

Running == session \notin {"exited", "killed"}

\* signal.Notify is in force only inside runApp's and awaitNodes' loops, the
\* waits those make included.  Elsewhere the default action ends the session
\* where it stands; the kernel then sends SIGTERM to the leaders that asked for
\* it, which the application's did not.
Handling == session \in {"app", "hangup", "nodes", "drain"}

Signal(sig) ==
  /\ Running /\ signals < MaxSignals
  /\ signals' = signals + 1
  /\ \/ /\ Handling
        /\ inbox' = IF inbox = NoSignal THEN sig ELSE inbox
        /\ UNCHANGED <<session, group, watcher>>
     \/ /\ ~Handling
        /\ session' = "killed"
        /\ Tell({p \in Started : LeaderUp(p)}, "term")
        /\ watcher' = "over"
        /\ UNCHANGED inbox
  /\ UNCHANGED <<at, split, ready, foreign, status, interrupted, result, browser, serving>>

\* What `go run` starts writes to the session's own files; SIGTERM ends it where
\* it stands.
Spawn(p) ==
  /\ LeaderUp(p) /\ ~ChildUp(p)
  /\ GoRun(p) => group[p].told # "term"
  /\ \E c \in IF GoRun(p) THEN {"loose"} ELSE {"piped", "loose"} :
       group' = [group EXCEPT ![p].child = c]
  /\ UNCHANGED <<Control, session, at, status, inbox, interrupted, result, Views>>

\* A child sends its output elsewhere, or leaves behind another that does.
Redirect(p) ==
  /\ group[p].child = "piped"
  /\ group' = [group EXCEPT ![p].child = "loose"]
  /\ UNCHANGED <<Control, session, at, status, inbox, interrupted, result, Views>>

\* `go run` waits for what it started and ignores an interrupt, but not SIGTERM.
\* (A SIGKILL aimed at it alone is not modelled.)
LeaderExits(p) ==
  /\ LeaderUp(p)
  /\ GoRun(p) /\ ChildUp(p) => group[p].told = "term"
  /\ group' = [group EXCEPT ![p].leader = "gone"]
  /\ \/ p \in Reported /\ \E s \in {"ok", "failed"} : status' = [status EXCEPT ![p] = s]
     \/ p \in Requires /\ UNCHANGED status
  /\ UNCHANGED <<Control, session, at, inbox, interrupted, result, Views>>

ChildExits(p) ==
  /\ ChildUp(p)
  /\ group' = [group EXCEPT ![p].child = "none"]
  /\ serving' = (serving /\ p # App)
  /\ UNCHANGED <<Control, session, at, status, inbox, interrupted, result, watcher, browser>>

\* The application binds its dashboard's port.
BindDashboard ==
  /\ ~split /\ ChildUp(App) /\ ~serving
  /\ serving' = TRUE
  /\ UNCHANGED <<Control, session, at, group, status, inbox, interrupted, result, watcher, browser>>

\* openWhenUp: twenty seconds of trying to connect.
OpenWhenUp ==
  /\ watcher = "polling" /\ Running
  /\ \/ serving /\ browser' = TRUE
     \/ ~serving /\ UNCHANGED browser
  /\ watcher' = "over"
  /\ UNCHANGED <<Control, session, at, group, status, inbox, interrupted, result, serving>>

SessionStep ==
  \/ StartRequired \/ Await \/ RequiredUp \/ Build \/ LaunchApp \/ HandleSignals
  \/ LaunchNode
  \/ ForwardSignal \/ HangupOver \/ AppExited \/ Interrupted \/ NodeExited \/ Drain
  \/ StopNext \/ Grace

SupNext ==
  \/ SessionStep \/ OpenWhenUp
  \/ \E sig \in Signals : Signal(sig)
  \/ Running /\ \E p \in Procs : Spawn(p) \/ Redirect(p) \/ LeaderExits(p) \/ ChildExits(p)
  \/ Running /\ BindDashboard
SupSpec == SupInit /\ [][SupNext]_supVars

\* The session's goroutines run, and its waits are all bounded: for readiness by
\* ready_timeout, for an end by three or five seconds.  How long the application
\* runs is not.
SupFairSpec == SupSpec /\ WF_supVars(SessionStep) /\ WF_supVars(OpenWhenUp)

-----------------------------------------------------------------------------
\* What Wait does not wait for: a leader that was asked to end has ended, and a
\* child of its group that holds no pipe has not.
LeftBehind(p) ==
  /\ group[p].leader = "gone" /\ group[p].child = "loose"
  /\ group[p].told \in {"int", "term"}

\* Run returns only once every process it forked has been asked to end and has,
\* with whatever held its output, and nothing is left of a group that took too
\* long: after a failed start, a failed build, a crash or an interrupt.
TeardownComplete == session = "exited" => \A p \in Procs : Alive(p) => LeftBehind(p)

\* "Youngest first": a required process is not stopped while anything that was
\* started after it, and may depend on it, is still waited for.
DependentsFirst ==
  \A p \in Requires :
    group[p].told \in {"int", "kill"} => \A q \in Procs : q > p /\ Alive(q) => LeftBehind(q)

\* Whatever ends the session, what it started ends before it and youngest first,
\* but for the children nobody waits for.
StoppedInOrder == SupTypeOK /\ TeardownComplete /\ DependentsFirst

\* "Stopping it stops whatever it spawned": when the session is over nothing is
\* left of the groups stop has gone through.
StopsWhatItSpawned == session = "exited" => \A p \in Started : ~Alive(p)

\* The processes the application depends on come down after it: none of them is
\* stopped while the application still runs its own teardown.
DownAfterTheApplication ==
  ~split => \A p \in Requires : group[p].told \in {"int", "kill"} => ~Alive(App)

\* A split run that is interrupted, and any run whose terminal hangs up, ends,
\* though nothing it started obeys.  (A lone application that ignores an
\* interrupt keeps its session waiting.)
EndsWhenTold ==
  (\/ session = "nodes" /\ inbox # NoSignal
   \/ session = "app" /\ inbox = "hup") ~> ~Running

\* openWhenUp "waits for the application to bind its dashboard before handing
\* the URL to a browser".
BrowserOpens == (session = "app" /\ serving) ~> (browser \/ ~serving)
=============================================================================
