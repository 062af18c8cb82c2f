---------------------------- MODULE MissionNode ----------------------------
(***************************************************************************)
(* A node with a mission: the lifecycle of ManagedNode driving the runner  *)
(* of MissionRunner.  wireMission hangs start_ on the node's onActive list *)
(* (behind the subscriptions' own entries) and stop on its onInactive      *)
(* list, and transition calls them on its own goroutine after it has       *)
(* released the lifecycle's lock, before it stores the gauge and returns.  *)
(***************************************************************************)
EXTENDS Integers, FiniteSets, Sequences

CONSTANTS Threads, Hooked, Cap, Latched, MaxMsgs, HasTimer,
          Steps, Start, Def, MaxRuns, Unknown

ASSUME MissionNodeAssumption == MaxMsgs \in Nat /\ MaxRuns \in Nat

VARIABLES
  state, thread, stateGauge, mailbox, exec, execDone, quit, timer, sent, deliver,
  pending, handled, client,
  mission, cur, run, canceled, closed, gauge, caller,
  called      \* the threads whose onActive or onInactive has reached the mission

N == INSTANCE ManagedNode
M == INSTANCE MissionRunner WITH state <- mission, Callers <- Threads

nodeVars == <<state, thread, stateGauge, mailbox, exec, execDone, quit, timer, sent,
              deliver, pending, handled, client>>
missionVars == <<mission, cur, run, canceled, closed, gauge, caller>>
vars == <<nodeVars, missionVars, called>>

Init == N!Init /\ M!Init /\ called = {}

\* Where a transition calls the mission: last on the way into Active, and on
\* the way out of it.
EntersActive(th) == thread[th].pc = "report" /\ thread[th].row.goal = "Active"
LeavesActive(th) == thread[th].pc = "onInactive"

CallMission(th) ==
  /\ th \notin called
  /\ \/ EntersActive(th) /\ M!Call(th, "Activate")
     \/ LeavesActive(th) /\ M!Call(th, "Cancel")
  /\ called' = called \cup {th}
  /\ UNCHANGED nodeVars

\* The call has returned.
MissionCalled(th) == th \in called /\ caller[th].pc = "idle"

\* A step of the lifecycle that does not call the mission.  Bound: no thread
\* begins an activation once MaxRuns runs exist.
BeginTransition(th) ==
  /\ \E row \in N!transitionTable :
       (row.goal = "Active" => cur < MaxRuns) /\ N!Begin(th, row)
  /\ UNCHANGED <<missionVars, called>>

TransitionStep(th) ==
  /\ N!RunHook(th) \/ N!HookReturned(th) \/ N!Commit(th) \/ N!OnActive(th) \/ N!Flush(th)
  /\ UNCHANGED <<missionVars, called>>

\* The lifecycle goes on behind its calls of the mission.
PassOnInactive(th) ==
  /\ MissionCalled(th)
  /\ N!OnInactive(th)
  /\ called' = called \ {th}
  /\ UNCHANGED missionVars

PassReport(th) ==
  /\ EntersActive(th) => MissionCalled(th)
  /\ N!Report(th)
  /\ called' = called \ {th}
  /\ UNCHANGED missionVars

\* The mission in the middle of a call, and on its own goroutine.
CallStep(th) ==
  /\ M!StopCancel(th) \/ M!StopDone(th) \/ M!StopGrace(th) \/ M!StartRun(th) \/ M!SpawnRun(th)
  /\ UNCHANGED <<nodeVars, called>>

MissionStep(g) == M!RunNext(g) /\ UNCHANGED <<nodeVars, called>>

ExecutorStep ==
  /\ N!Take \/ N!Finish \/ N!ExecQuit
  /\ UNCHANGED <<missionVars, called>>

CloseQuit == N!CloseQuit /\ UNCHANGED <<missionVars, called>>

ThreadStep(th) ==
  TransitionStep(th) \/ CallMission(th) \/ CallStep(th) \/ PassOnInactive(th) \/ PassReport(th)

Next ==
  \/ \E th \in Threads : BeginTransition(th) \/ ThreadStep(th)
  \/ \E g \in 1..cur : MissionStep(g)
  \/ ExecutorStep
  \/ CloseQuit

Spec == Init /\ [][Next]_vars

\* One activation at a time is past its guard when the last run is started.
Runs == 1..(MaxRuns + Cardinality(Threads) - 1)

\* Goroutines run, hooks return, and a step's handler
\* returns once its context is over.  stop is bounded by its grace period.
FairSpec ==
  /\ Spec
  /\ \A th \in Threads : WF_vars(ThreadStep(th))
  /\ \A g \in Runs :
       /\ WF_vars(/\ M!Loop(g) \/ M!Enter(g) \/ M!Decide(g) \/ M!Backoff(g)
                     \/ M!ClearGauge(g) \/ M!CloseDone(g)
                  /\ UNCHANGED <<nodeVars, called>>)
       /\ WF_vars(M!ReturnStopped(g) /\ UNCHANGED <<nodeVars, called>>)
  /\ WF_vars(ExecutorStep)

-----------------------------------------------------------------------------
\* No transition is under way.
AtRest == \A th \in Threads : thread[th].pc = "idle"

\* The mission "is canceled when [the node] leaves Active": on a node at rest
\* outside Active the last run has been told to stop.  One driver at a time
\* gets this; two change_state requests in a row need not, because the second
\* can run its onInactive before the first has run its onActive.
StoppedOutsideActive == AtRest /\ state # "Active" => cur = 0 \/ cur \in canceled

\* No transition hangs: not on a hook that is refused, fails or is abandoned by
\* a shutdown, and not on a mission whose step will not stop.
TransitionReturns == N!TransitionReturns

\* A mission canceled by its node's leaving Active winds down, whatever its
\* node does next, and closes the done channel somebody may be waiting on.
CancelEnds == \A g \in Runs : (g \in canceled) ~> (g \in closed)
=============================================================================
