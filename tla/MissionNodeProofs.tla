------------------------- MODULE MissionNodeProofs -------------------------
(***************************************************************************)
(* A node with a mission is a node and a mission: what is proved of either *)
(* alone holds of the two together.  And what neither has alone: the       *)
(* mission of a node that one goroutine drives is told to stop whenever    *)
(* that node is left.                                                      *)
(***************************************************************************)
EXTENDS MissionNode, TLAPS

-----------------------------------------------------------------------------
(* The composition keeps to each of its parts.                              *)

\* wireMission adds calls of the mission to the lifecycle and takes nothing from
\* it: a node with a mission behaves as a node does.
THEOREM BehavesAsNode == Spec => N!Spec
<1>1. Init => N!Init
  BY DEF Init
<1>2. [Next]_vars => [N!Next]_(N!vars)
  <2> SUFFICES ASSUME [Next]_vars PROVE N!Next \/ UNCHANGED nodeVars
    BY DEF nodeVars, N!vars
  <2>1. ASSUME NEW th \in Threads, BeginTransition(th)
        PROVE  N!Next
    BY <2>1 DEF BeginTransition, N!Next
  <2>2. ASSUME NEW th \in Threads, TransitionStep(th) \/ PassOnInactive(th) \/ PassReport(th)
        PROVE  N!Next
    BY <2>2 DEF TransitionStep, PassOnInactive, PassReport, N!Next, N!ThreadStep
  <2>3. ASSUME NEW th \in Threads, CallMission(th) \/ CallStep(th)
        PROVE  UNCHANGED nodeVars
    BY <2>3 DEF CallMission, CallStep
  <2>4. ASSUME NEW g \in 1..cur, MissionStep(g)
        PROVE  UNCHANGED nodeVars
    BY <2>4 DEF MissionStep
  <2>5. CASE ExecutorStep \/ CloseQuit
    BY <2>5 DEF ExecutorStep, CloseQuit, N!Next
  <2>6. CASE UNCHANGED vars
    BY <2>6 DEF vars
  <2> QED
    BY <2>1, <2>2, <2>3, <2>4, <2>5, <2>6 DEF Next, ThreadStep
<1> QED
  BY <1>1, <1>2, PTL DEF Spec, N!Spec

\* The lifecycle is one more caller of the mission, within what a caller may do.
THEOREM BehavesAsMission == Spec => M!Spec
<1>1. Init => M!Init
  BY DEF Init
<1>2. [Next]_vars => [M!Next]_(M!vars)
  <2> SUFFICES ASSUME [Next]_vars PROVE M!Next \/ UNCHANGED missionVars
    BY DEF missionVars, M!vars
  <2>1. ASSUME NEW th \in Threads, CallMission(th)
        PROVE  M!Next
    BY <2>1 DEF CallMission, M!Next, M!CallerNext, M!Ops
  <2>2. ASSUME NEW th \in Threads, CallStep(th)
        PROVE  M!Next
    BY <2>2 DEF CallStep, M!Next, M!CallerNext
  <2>3. ASSUME NEW g \in 1..cur, MissionStep(g)
        PROVE  M!Next
    BY <2>3 DEF MissionStep, M!Next
  <2>4. ASSUME NEW th \in Threads,
               BeginTransition(th) \/ TransitionStep(th) \/ PassOnInactive(th) \/ PassReport(th)
        PROVE  UNCHANGED missionVars
    BY <2>4 DEF BeginTransition, TransitionStep, PassOnInactive, PassReport
  <2>5. CASE ExecutorStep \/ CloseQuit
    BY <2>5 DEF ExecutorStep, CloseQuit
  <2>6. CASE UNCHANGED vars
    BY <2>6 DEF vars
  <2> QED
    BY <2>1, <2>2, <2>3, <2>4, <2>5, <2>6 DEF Next, ThreadStep
<1> QED
  BY <1>1, <1>2, PTL DEF Spec, M!Spec

-----------------------------------------------------------------------------
(* One goroutine drives the node.                                           *)

\* The last run has been told to stop.
Stopped == cur = 0 \/ cur \in canceled

\* Where the driver, whose transition is x and whose call of the mission is c,
\* is in state s of the node; called says that it has made its call.
Driven(x, s, stopped, made, c) ==
  /\ ~made => c.pc = "idle"
  /\ x.pc \notin {"onInactive", "report"} => ~made
  /\ x.pc = "report" /\ x.row.goal # "Active" => ~made
  /\ x.pc = "idle" /\ s # "Active" => stopped
  /\ x.pc \in {"hook", "wait", "commit"} /\ x.row.from # "Active" => stopped
  /\ x.pc \in {"onActive", "flush"} => s = "Active" /\ x.row.goal = "Active"
  /\ x.pc = "report" /\ x.row.goal = "Active" => s = "Active"
  /\ x.pc = "report" /\ x.row.goal # "Active" => stopped
  /\ x.pc = "onInactive" =>
       /\ x.row.goal # "Active"
       /\ made => c.op = "Cancel" /\ c.pc \in {"idle", "stop", "wait"}
       /\ made /\ c.pc # "stop" => stopped

CallShape == [pc : {"idle", "stop", "wait", "start", "gauge"}, op : M!Ops, gen : Nat]

Shapes ==
  /\ thread \in [Threads -> N!ThreadState] /\ pending \in 0..MaxMsgs
  /\ caller \in [Threads -> CallShape] /\ cur \in Nat

DriverInv(t) ==
  Shapes /\ Driven(thread[t], state, Stopped, t \in called, caller[t])

LEMMA TableRows ==
  \A row \in N!transitionTable : row.from = "Active" => row.goal # "Active"
  BY DEF N!transitionTable

LEMMA DriverStart ==
  ASSUME NEW t, Threads = {t}, Init PROVE DriverInv(t)
<1>1. N!IdleThread \in N!ThreadState /\ N!IdleThread.pc = "idle"
  BY MissionNodeAssumption DEF N!IdleThread, N!ThreadState, N!ThreadPcs, N!transitionTable
<1>2. M!Idle \in CallShape /\ M!Idle.pc = "idle"
  BY DEF M!Idle, CallShape, M!Ops
<1>3. /\ thread = [th \in Threads |-> N!IdleThread] /\ pending = 0 /\ cur = 0
      /\ caller = [c \in Threads |-> M!Idle] /\ called = {}
  BY DEF Init, N!Init, M!Init
<1>4. Shapes
  BY <1>1, <1>2, <1>3, MissionNodeAssumption DEF Shapes
<1>5. Stopped
  BY <1>3 DEF Stopped
<1>6. Driven(thread[t], state, Stopped, t \in called, caller[t])
  BY <1>1, <1>2, <1>3, <1>5 DEF Driven
<1> QED
  BY <1>4, <1>6 DEF DriverInv

\* While the mission is left alone, what was said of it stands.
LEMMA MissionStands ==
  ASSUME UNCHANGED missionVars PROVE Stopped' = Stopped /\ caller' = caller /\ cur' = cur
  BY DEF missionVars, Stopped

LEMMA BeginKeepsDriver ==
  ASSUME NEW t, Threads = {t}, DriverInv(t), BeginTransition(t) PROVE DriverInv(t)'
<1>1. PICK row \in N!transitionTable : N!Begin(t, row)
  BY DEF BeginTransition
<1>2. Shapes /\ Driven(thread[t], state, Stopped, t \in called, caller[t])
  BY DEF DriverInv
<1>3. /\ thread[t].pc = "idle" /\ row.from = state
      /\ thread' = [thread EXCEPT ![t] = [N!IdleThread EXCEPT !.pc = "hook", !.row = row]]
      /\ pending' = pending
  BY <1>1 DEF N!Begin
<1>4. N!IdleThread \in N!ThreadState
  BY MissionNodeAssumption DEF N!IdleThread, N!ThreadState, N!ThreadPcs, N!transitionTable
<1>5. PICK x \in N!ThreadState : x.pc = "hook" /\ x.row = row
                                /\ thread' = [thread EXCEPT ![t] = x]
  BY <1>3, <1>4 DEF N!ThreadState, N!ThreadPcs
<1>6. UNCHANGED missionVars /\ called' = called
  BY DEF BeginTransition
<1>7. Stopped' = Stopped /\ caller' = caller /\ cur' = cur
  BY <1>6, MissionStands
<1>8. Shapes' /\ thread'[t] = x
  BY <1>2, <1>3, <1>5, <1>7 DEF Shapes
<1>9. Driven(x, state', Stopped, t \in called, caller[t])
  BY <1>2, <1>3, <1>5 DEF Driven
<1> QED
  BY <1>6, <1>7, <1>8, <1>9 DEF DriverInv

LEMMA TransitionKeepsDriver ==
  ASSUME NEW t, Threads = {t}, DriverInv(t), TransitionStep(t) PROVE DriverInv(t)'
<1>1. Shapes /\ Driven(thread[t], state, Stopped, t \in called, caller[t])
  BY DEF DriverInv
<1>2. UNCHANGED missionVars /\ called' = called
  BY DEF TransitionStep
<1>3. Stopped' = Stopped /\ caller' = caller /\ cur' = cur
  BY <1>2, MissionStands
<1> DEFINE x == thread[t]
<1>4. x \in N!ThreadState /\ x.row \in N!transitionTable
  BY <1>1 DEF Shapes, N!ThreadState
<1>5. ASSUME NEW y \in N!ThreadState, thread' = [thread EXCEPT ![t] = y], pending' \in {pending, 0},
             Driven(y, state', Stopped, t \in called, caller[t])
      PROVE  DriverInv(t)'
  <2>1. Shapes' /\ thread'[t] = y
    BY <1>1, <1>3, <1>5, MissionNodeAssumption DEF Shapes
  <2> QED
    BY <1>2, <1>3, <1>5, <2>1 DEF DriverInv
<1>6. CASE N!RunHook(t) \/ N!HookReturned(t)
  <2>1. PICK y \in N!ThreadState :
          /\ thread' = [thread EXCEPT ![t] = y] /\ y.row = x.row
          /\ x.pc \in {"hook", "wait"} /\ y.pc \in {"wait", "commit"}
    <3>1. CASE N!RunHook(t)
      <4>1. x.pc = "hook"
            /\ \/ thread' = [thread EXCEPT ![t] = [x EXCEPT !.pc = "commit", !.res = "ok"]]
               \/ thread' = [thread EXCEPT ![t] = [x EXCEPT !.pc = "wait"]]
               \/ thread' = [thread EXCEPT ![t] = [x EXCEPT !.pc = "commit", !.res = "err"]]
        BY <1>1, <3>1 DEF N!RunHook, Shapes, N!ThreadState
      <4>2. /\ [x EXCEPT !.pc = "commit", !.res = "ok"] \in N!ThreadState
            /\ [x EXCEPT !.pc = "commit", !.res = "err"] \in N!ThreadState
            /\ [x EXCEPT !.pc = "wait"] \in N!ThreadState
        BY <1>4 DEF N!ThreadState, N!ThreadPcs
      <4> QED
        BY <1>4, <4>1, <4>2 DEF N!ThreadState
    <3>2. CASE N!HookReturned(t)
      <4>1. x.pc = "wait"
            /\ \/ thread' = [thread EXCEPT ![t] = [x EXCEPT !.pc = "commit"]]
               \/ thread' = [thread EXCEPT ![t] = [x EXCEPT !.pc = "commit", !.res = "err"]]
        BY <1>1, <3>2 DEF N!HookReturned, Shapes, N!ThreadState
      <4>2. /\ [x EXCEPT !.pc = "commit", !.res = "err"] \in N!ThreadState
            /\ [x EXCEPT !.pc = "commit"] \in N!ThreadState
        BY <1>4 DEF N!ThreadState, N!ThreadPcs
      <4> QED
        BY <1>4, <4>1, <4>2 DEF N!ThreadState
    <3> QED
      BY <1>6, <3>1, <3>2
  <2>2. pending' = pending /\ state' = state
    BY <1>6 DEF N!RunHook, N!HookReturned
  <2>3. Driven(y, state', Stopped, t \in called, caller[t])
    BY <1>1, <2>1, <2>2 DEF Driven
  <2> QED
    BY <1>5, <2>1, <2>2, <2>3
<1>7. CASE N!Commit(t)
  <2>1. x.pc = "commit" /\ pending' = pending
    BY <1>7 DEF N!Commit
  <2>2. CASE state' = x.row.from /\ thread' = [thread EXCEPT ![t] = N!IdleThread]
    <3>1. N!IdleThread \in N!ThreadState /\ N!IdleThread.pc = "idle"
      BY MissionNodeAssumption DEF N!IdleThread, N!ThreadState, N!ThreadPcs, N!transitionTable
    <3>2. Driven(N!IdleThread, state', Stopped, t \in called, caller[t])
      BY <1>1, <2>1, <2>2, <3>1 DEF Driven
    <3> QED
      BY <1>5, <2>1, <2>2, <3>1, <3>2
  <2>3. ASSUME NEW pc \in N!ThreadPcs, state' = x.row.goal,
               thread' = [thread EXCEPT ![t] = [x EXCEPT !.pc = pc]],
               pc = IF x.row.goal = "Active" THEN "onActive"
                    ELSE IF x.row.from = "Active" THEN "onInactive" ELSE "report"
        PROVE  DriverInv(t)'
    <3>1. PICK y \in N!ThreadState : y = [x EXCEPT !.pc = pc] /\ y.pc = pc /\ y.row = x.row
      <4> HIDE DEF x
      <4>1. /\ [x EXCEPT !.pc = pc] \in N!ThreadState /\ [x EXCEPT !.pc = pc].pc = pc
            /\ [x EXCEPT !.pc = pc].row = x.row
        BY <1>4, <2>3 DEF N!ThreadState
      <4> QED
        BY <4>1
    <3>2. Driven(y, state', Stopped, t \in called, caller[t])
      BY <1>1, <1>4, <2>1, <2>3, <3>1, TableRows DEF Driven
    <3> QED
      BY <1>5, <2>1, <2>3, <3>1, <3>2
  <2>4. {"onActive", "onInactive", "report"} \subseteq N!ThreadPcs
    BY DEF N!ThreadPcs
  <2>5. \/ state' = x.row.from /\ thread' = [thread EXCEPT ![t] = N!IdleThread]
        \/ /\ state' = x.row.goal
           /\ thread' = [thread EXCEPT ![t] = [x EXCEPT !.pc =
                           IF x.row.goal = "Active" THEN "onActive"
                           ELSE IF x.row.from = "Active" THEN "onInactive" ELSE "report"]]
    BY <1>7 DEF N!Commit
  <2> QED
    BY <2>2, <2>3, <2>4, <2>5
<1>8. CASE N!OnActive(t) \/ N!Flush(t)
  <2>1. state' = state /\ pending' \in {pending, 0} /\ pending \in 0..MaxMsgs /\ 0 \in 0..MaxMsgs
    BY <1>1, <1>8, MissionNodeAssumption DEF N!OnActive, N!Flush, Shapes
  <2>2. x.pc \in {"onActive", "flush"}
        /\ \/ thread' = [thread EXCEPT ![t] = [x EXCEPT !.pc = "flush", !.held = pending]]
           \/ thread' = [thread EXCEPT ![t] = [x EXCEPT !.pc = "report", !.held = 0]]
    BY <1>1, <1>8 DEF N!OnActive, N!Flush, Shapes, N!ThreadState
  <2>3. /\ [x EXCEPT !.pc = "flush", !.held = pending] \in N!ThreadState
        /\ [x EXCEPT !.pc = "report", !.held = 0] \in N!ThreadState
    BY <1>4, <2>1 DEF N!ThreadState, N!ThreadPcs
  <2>4. PICK y \in N!ThreadState : y.pc \in {"flush", "report"} /\ y.row = x.row
                                  /\ thread' = [thread EXCEPT ![t] = y]
    BY <1>4, <2>2, <2>3 DEF N!ThreadState
  <2>5. Driven(y, state', Stopped, t \in called, caller[t])
    BY <1>1, <2>1, <2>2, <2>4 DEF Driven
  <2> QED
    BY <1>5, <2>1, <2>4, <2>5
<1> QED
  BY <1>6, <1>7, <1>8 DEF TransitionStep

\* The mission's own steps, and those of the node's executor, move neither the
\* driver nor what it may rely on.
LEMMA MissionRuns ==
  ASSUME NEW g, MissionStep(g) PROVE UNCHANGED <<nodeVars, called, cur, canceled, caller>>
  BY DEF MissionStep, M!RunNext, M!Loop, M!Enter, M!Expire, M!ReturnStopped, M!ReturnFreely,
         M!HandlerReturns, M!Decide, M!Backoff, M!ClearGauge, M!CloseDone

LEMMA OthersKeepDriver ==
  ASSUME NEW t, Threads = {t}, DriverInv(t),
         (\E g \in 1..cur : MissionStep(g)) \/ ExecutorStep \/ CloseQuit \/ UNCHANGED vars
  PROVE  DriverInv(t)'
<1>1. Shapes /\ Driven(thread[t], state, Stopped, t \in called, caller[t])
  BY DEF DriverInv
<1>2. UNCHANGED <<state, pending, called, cur, canceled, caller>>
  <2>1. CASE \E g \in 1..cur : MissionStep(g)
    BY <2>1, MissionRuns DEF nodeVars
  <2>2. CASE ExecutorStep \/ CloseQuit \/ UNCHANGED vars
    BY <2>2 DEF ExecutorStep, CloseQuit, vars, nodeVars, missionVars, N!Take, N!Finish,
                N!ExecQuit, N!CloseQuit, N!lifecycleVars
  <2> QED
    BY <2>1, <2>2
<1>3. PICK y \in N!ThreadState :
        /\ thread' = [thread EXCEPT ![t] = y] /\ y.pc = thread[t].pc /\ y.row = thread[t].row
  <2>1. thread[t] \in N!ThreadState /\ thread = [thread EXCEPT ![t] = thread[t]]
    BY <1>1 DEF Shapes
  <2>2. CASE N!Finish
    <3>1. CASE exec.owner \in Threads
      <4>1. PICK res \in {"ok", "err"} :
              thread' = [thread EXCEPT ![t] = [thread[t] EXCEPT !.res = res]]
        BY <2>2, <3>1 DEF N!Finish
      <4>2. [thread[t] EXCEPT !.res = res] \in N!ThreadState
        BY <2>1 DEF N!ThreadState
      <4> QED
        BY <2>1, <4>1, <4>2 DEF N!ThreadState
    <3>2. CASE exec.owner \notin Threads
      BY <2>1, <2>2, <3>2 DEF N!Finish
    <3> QED
      BY <3>1, <3>2
  <2>3. CASE UNCHANGED thread
    BY <2>1, <2>3
  <2>4. CASE \E g \in 1..cur : MissionStep(g)
    BY <2>3, <2>4, MissionRuns DEF nodeVars
  <2>5. CASE ExecutorStep \/ CloseQuit \/ UNCHANGED vars
    BY <2>2, <2>3, <2>5 DEF ExecutorStep, CloseQuit, vars, nodeVars, N!Take, N!ExecQuit,
                            N!CloseQuit
  <2> QED
    BY <2>4, <2>5
<1>4. Shapes' /\ thread'[t] = y
  BY <1>1, <1>2, <1>3 DEF Shapes
<1>5. Driven(y, state, Stopped, t \in called, caller[t])
  BY <1>1, <1>3 DEF Driven
<1>6. Stopped' = Stopped
  BY <1>2 DEF Stopped
<1> QED
  BY <1>2, <1>4, <1>5, <1>6 DEF DriverInv

LEMMA CallKeepsDriver ==
  ASSUME NEW t, Threads = {t}, DriverInv(t), CallMission(t) PROVE DriverInv(t)'
<1>1. Shapes /\ Driven(thread[t], state, Stopped, t \in called, caller[t])
  BY DEF DriverInv
<1>2. PICK op \in {"Activate", "Cancel"} :
        /\ M!Call(t, op)
        /\ \/ op = "Activate" /\ EntersActive(t)
           \/ op = "Cancel" /\ LeavesActive(t)
  BY DEF CallMission
<1>3. PICK c : c = [pc |-> IF op = "Activate" THEN "start" ELSE "stop", op |-> op, gen |-> 0]
  OBVIOUS
<1>4. c \in CallShape /\ (op = "Cancel" => c.pc = "stop" /\ c.op = "Cancel")
  BY <1>3 DEF CallShape, M!Ops
<1>5. /\ caller' = [caller EXCEPT ![t] = c] /\ UNCHANGED <<cur, canceled>>
      /\ UNCHANGED nodeVars /\ called' = called \cup {t}
  BY <1>2, <1>3 DEF M!Call, CallMission
<1>6. Shapes' /\ caller'[t] = c /\ thread'[t] = thread[t] /\ state' = state
  BY <1>1, <1>4, <1>5 DEF Shapes, nodeVars
<1>7. t \in called' /\ Stopped' = Stopped
  BY <1>5 DEF Stopped
<1>8. Driven(thread[t], state, Stopped, TRUE, c)
  BY <1>1, <1>2, <1>4 DEF Driven, EntersActive, LeavesActive
<1>9. (t \in called)' = TRUE
  BY <1>7
<1> QED
  BY <1>6, <1>7, <1>8, <1>9 DEF DriverInv

LEMMA PassKeepsDriver ==
  ASSUME NEW t, Threads = {t}, DriverInv(t), PassOnInactive(t) \/ PassReport(t)
  PROVE  DriverInv(t)'
<1>1. Shapes /\ Driven(thread[t], state, Stopped, t \in called, caller[t])
  BY DEF DriverInv
<1>2. /\ UNCHANGED missionVars /\ called' = called \ {t} /\ state' = state /\ pending' = pending
  BY DEF PassOnInactive, PassReport, N!OnInactive, N!Report
<1>3. Stopped' = Stopped /\ caller' = caller /\ cur' = cur
  BY <1>2, MissionStands
<1>4. (t \in called)' = FALSE
  BY <1>2
<1>5. thread[t] \in N!ThreadState
  BY <1>1 DEF Shapes
<1>6. ASSUME NEW y \in N!ThreadState, thread' = [thread EXCEPT ![t] = y],
             Driven(y, state, Stopped, FALSE, caller[t])
      PROVE  DriverInv(t)'
  <2>1. Shapes' /\ thread'[t] = y
    BY <1>1, <1>2, <1>3, <1>6 DEF Shapes
  <2> QED
    BY <1>2, <1>3, <1>4, <1>6, <2>1 DEF DriverInv
<1>7. CASE PassOnInactive(t)
  <2>1. thread[t].pc = "onInactive" /\ t \in called /\ caller[t].pc = "idle"
        /\ thread' = [thread EXCEPT ![t] = [thread[t] EXCEPT !.pc = "report"]]
    BY <1>1, <1>7 DEF PassOnInactive, MissionCalled, N!OnInactive, Shapes
  <2>2. PICK y \in N!ThreadState : y.pc = "report" /\ y.row = thread[t].row
                                  /\ thread' = [thread EXCEPT ![t] = y]
    BY <1>5, <2>1 DEF N!ThreadState, N!ThreadPcs
  <2>3. Driven(y, state, Stopped, FALSE, caller[t])
    BY <1>1, <2>1, <2>2 DEF Driven
  <2> QED
    BY <1>6, <2>2, <2>3
<1>8. CASE PassReport(t)
  <2>1. thread[t].pc = "report" /\ thread' = [thread EXCEPT ![t] = N!IdleThread]
        /\ (thread[t].row.goal = "Active" => caller[t].pc = "idle")
    BY <1>8 DEF PassReport, N!Report, EntersActive, MissionCalled
  <2>2. N!IdleThread \in N!ThreadState /\ N!IdleThread.pc = "idle"
    BY MissionNodeAssumption DEF N!IdleThread, N!ThreadState, N!ThreadPcs, N!transitionTable
  <2>3. Driven(N!IdleThread, state, Stopped, FALSE, caller[t])
    BY <1>1, <2>1, <2>2 DEF Driven
  <2> QED
    BY <1>6, <2>1, <2>2, <2>3
<1> QED
  BY <1>7, <1>8

LEMMA CallBecomes ==
  ASSUME NEW c \in CallShape, NEW pc \in {"wait", "gauge"}, NEW n \in Nat
  PROVE  /\ [c EXCEPT !.gen = n, !.pc = pc] \in CallShape
         /\ [c EXCEPT !.gen = n, !.pc = pc].pc = pc
         /\ [c EXCEPT !.gen = n, !.pc = pc].op = c.op
         /\ [c EXCEPT !.pc = pc, !.gen = n] = [c EXCEPT !.gen = n, !.pc = pc]
  BY DEF CallShape

LEMMA CallStepKeepsDriver ==
  ASSUME NEW t, Threads = {t}, DriverInv(t), CallStep(t) PROVE DriverInv(t)'
<1>1. Shapes /\ Driven(thread[t], state, Stopped, t \in called, caller[t])
  BY DEF DriverInv
<1>2. UNCHANGED <<nodeVars, called>>
  BY DEF CallStep
<1> DEFINE c == caller[t]
           x == thread[t]
<1>3. c \in CallShape /\ c.pc # "idle" /\ t \in called
      /\ cur \in Nat
  <2>1. c.pc # "idle"
    BY DEF CallStep, M!StopCancel, M!StopDone, M!StopGrace, M!StartRun, M!SpawnRun
  <2> QED
    BY <1>1, <2>1 DEF Driven, Shapes
<1>4. M!Idle \in CallShape /\ M!Idle.pc = "idle" /\ M!Idle.op = "Cancel"
  BY DEF M!Idle, CallShape, M!Ops
<1>5. ASSUME NEW d \in CallShape, caller' = [caller EXCEPT ![t] = d], cur' \in Nat,
             x.pc = "onInactive" =>
               /\ d.op = "Cancel" /\ d.pc \in {"idle", "stop", "wait"}
               /\ d.pc # "stop" => Stopped'
      PROVE  DriverInv(t)'
  <2>1. Shapes' /\ caller'[t] = d /\ thread'[t] = x /\ state' = state
    BY <1>1, <1>2, <1>5 DEF Shapes, nodeVars
  <2>2. x.pc # "onInactive" => x.pc = "report" /\ x.row.goal = "Active"
    BY <1>1, <1>3 DEF Driven
  <2>3. (t \in called)' = TRUE
    BY <1>2, <1>3
  <2>4. PICK st : st = Stopped'
    OBVIOUS
  <2>5. Driven(x, state, st, TRUE, d)
    BY <1>1, <1>3, <1>5, <2>2, <2>4 DEF Driven
  <2> QED
    BY <2>1, <2>3, <2>4, <2>5 DEF DriverInv
<1>6. x.pc = "onInactive" => c.op = "Cancel" /\ c.pc \in {"stop", "wait"}
                             /\ (c.pc # "stop" => Stopped)
  BY <1>1, <1>3 DEF Driven
<1>7. ASSUME NEW pc \in {"idle", "start"}, M!CallerTo(t, pc), UNCHANGED <<cur, canceled>>,
             x.pc = "onInactive" => pc = "idle" /\ Stopped
      PROVE  DriverInv(t)'
  <2>1. PICK d \in CallShape : caller' = [caller EXCEPT ![t] = d] /\ d.pc = pc
                               /\ (pc = "idle" => d.op = "Cancel")
    <3>1. CASE pc = "idle"
      BY <1>4, <1>7, <3>1 DEF M!CallerTo
    <3>2. CASE pc = "start"
      <4>1. caller' = [caller EXCEPT ![t] = [c EXCEPT !.pc = "start"]]
        BY <1>1, <1>7, <3>2 DEF M!CallerTo, Shapes
      <4>2. [c EXCEPT !.pc = "start"] \in CallShape /\ [c EXCEPT !.pc = "start"].pc = "start"
        BY <1>3 DEF CallShape
      <4> QED
        BY <3>2, <4>1, <4>2
    <3> QED
      BY <3>1, <3>2
  <2>2. Stopped' = Stopped /\ cur' \in Nat
    BY <1>3, <1>7 DEF Stopped
  <2> QED
    BY <1>5, <1>7, <2>1, <2>2
<1>8. M!AfterStop(t) \in {"idle", "start"} /\ (c.op = "Cancel" => M!AfterStop(t) = "idle")
  BY DEF M!AfterStop
<1>9. CASE M!StopCancel(t)
  <2>1. cur' = cur /\ canceled' = (IF cur = 0 THEN canceled ELSE canceled \cup {cur})
    BY <1>9 DEF M!StopCancel
  <2>2. Stopped'
    BY <2>1 DEF Stopped
  <2>3. CASE cur = 0
    BY <1>6, <1>7, <1>8, <1>9, <2>1, <2>3 DEF M!StopCancel, Stopped
  <2>4. CASE cur # 0
    <3>1. caller' = [caller EXCEPT ![t] = [c EXCEPT !.gen = cur, !.pc = "wait"]]
      BY <1>1, <1>9, <2>4 DEF M!StopCancel, Shapes
    <3>2. PICK d \in CallShape : d = [c EXCEPT !.gen = cur, !.pc = "wait"]
                                 /\ d.pc = "wait" /\ d.op = c.op
      <4> HIDE DEF c
      <4>1. c \in CallShape /\ "wait" \in {"wait", "gauge"} /\ cur \in Nat
        BY <1>3
      <4>2. /\ [c EXCEPT !.gen = cur, !.pc = "wait"] \in CallShape
            /\ [c EXCEPT !.gen = cur, !.pc = "wait"].pc = "wait"
            /\ [c EXCEPT !.gen = cur, !.pc = "wait"].op = c.op
        BY <4>1, CallBecomes
      <4> QED
        BY <4>2
    <3> QED
      BY <1>3, <1>5, <1>6, <2>1, <2>2, <3>1, <3>2
  <2> QED
    BY <2>3, <2>4
<1>10. CASE M!StopDone(t) \/ M!StopGrace(t)
  <2>1. c.pc = "wait" /\ M!CallerTo(t, M!AfterStop(t)) /\ UNCHANGED <<cur, canceled>>
    BY <1>10 DEF M!StopDone, M!StopGrace
  <2> QED
    BY <1>6, <1>7, <1>8, <2>1
<1>11. CASE M!StartRun(t) \/ M!SpawnRun(t)
  <2>1. c.pc \in {"start", "gauge"} /\ canceled' = canceled
    BY <1>11 DEF M!StartRun, M!SpawnRun
  <2>2. x.pc # "onInactive"
    BY <1>6, <2>1
  <2>3. CASE M!CallerTo(t, "idle") /\ UNCHANGED cur
    BY <1>7, <2>1, <2>2, <2>3
  <2>4. CASE caller' = [caller EXCEPT ![t].pc = "gauge", ![t].gen = cur + 1] /\ cur' = cur + 1
    <3>1. caller' = [caller EXCEPT ![t] = [c EXCEPT !.pc = "gauge", !.gen = cur + 1]]
      BY <1>1, <2>4 DEF Shapes
    <3>2. [c EXCEPT !.pc = "gauge", !.gen = cur + 1] \in CallShape /\ cur + 1 \in Nat
      <4>1. cur + 1 \in Nat
        BY <1>3
      <4> HIDE DEF c
      <4> QED
        BY <1>3, <4>1, CallBecomes
    <3> QED
      BY <1>5, <2>2, <2>4, <3>1, <3>2
  <2> QED
    BY <1>11, <2>3, <2>4 DEF M!StartRun, M!SpawnRun
<1> QED
  BY <1>9, <1>10, <1>11 DEF CallStep

\* The mission "is canceled when [the node] leaves Active": with one goroutine
\* driving the node, whatever hooks fail, whatever grace periods run out and
\* however long its steps take, a node at rest outside Active has told its
\* mission's last run to stop.
THEOREM CanceledOutsideActive ==
  ASSUME NEW t, Threads = {t}
  PROVE  Spec => []StoppedOutsideActive
<1>1. Init => DriverInv(t)
  BY DriverStart
<1>2. DriverInv(t) /\ [Next]_vars => DriverInv(t)'
  BY BeginKeepsDriver, TransitionKeepsDriver, OthersKeepDriver, CallKeepsDriver,
     PassKeepsDriver, CallStepKeepsDriver
     DEF Next, ThreadStep
<1>3. DriverInv(t) => StoppedOutsideActive
  BY DEF DriverInv, Driven, StoppedOutsideActive, AtRest, Stopped
<1> QED
  BY <1>1, <1>2, <1>3, PTL DEF Spec
=============================================================================
