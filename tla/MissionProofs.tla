--------------------------- MODULE MissionProofs ---------------------------
(* Proofs about the mission runner: the inductive invariant IInv and what    *)
(* follows from it, for every mission, set of callers and number of runs.    *)
EXTENDS MissionRunner, TLAPS

USE DEF StepDone, StepFailed, NoBranch, NoErr, Errors, Terminal, Targets

\* The constants of a run are of their types.
LEMMA NewRunType == NewRun \in RunState
  BY StepsAssumption DEF NewRun, RunState, RunPcs, Writing, NoReturn, Returns

LEMMA NoReturnType == NoReturn \in Returns
  BY DEF NoReturn, Returns

\* What wireMission guarantees of a declared step.
LEMMA DefType ==
  ASSUME NEW s \in Steps
  PROVE  /\ Def[s].next \in Targets
         /\ Def[s].fail \in Targets \cup {NoBranch}
         /\ Def[s].retry \in Nat
  <1>1. Def[s] \in [next: Targets, fail: Targets \cup {NoBranch},
                    retry: Nat, timeout: BOOLEAN, backoff: BOOLEAN]
    BY StepsAssumption
  <1> QED  BY <1>1

LEMMA RetryType ==
  ASSUME NEW s \in Steps
  PROVE  Def[s].retry \in Nat /\ 1 <= Def[s].retry + 1
  <1>1. Def[s].retry \in Nat
    BY DefType
  <1> QED  BY <1>1

\* The mission starts idle, with nothing spawned.
LEMMA InitInv == Init => IInv
  <1> SUFFICES ASSUME Init PROVE IInv  OBVIOUS
  <1>1. TypeOK
    <2>1. run \in [1..cur -> RunState]
      <3>1. 1..0 = {}  OBVIOUS
      <3> QED  BY <3>1 DEF Init
    <2>2. caller \in [Callers -> CallerState]
      BY DEF Init, Idle, CallerState, Ops
    <2>3. state \in [status: {"idle", "running"} \cup Terminal, step: Targets,
                     attempt: Nat, err: Errors]
      BY StepsAssumption DEF Init
    <2> QED  BY <2>1, <2>2, <2>3 DEF Init, TypeOK
  <1>2. SingleWriter /\ SpawnerOwnsRun /\ ClosedIsGone /\ IdleIsFirst
    BY DEF Init, SingleWriter, SpawnerOwnsRun, ClosedIsGone, IdleIsFirst, Idle
  <1>3. LoopVariables /\ LateIsCanceled /\ GaugeSettlesLow
    BY DEF Init, LoopVariables, LateIsCanceled, GaugeSettlesLow
  <1> QED  BY <1>1, <1>2, <1>3 DEF IInv

\* A step of a caller that leaves state, cur, run, closed and gauge alone.
LEMMA CallerStep ==
  ASSUME IInv, NEW c \in Callers,
         UNCHANGED <<state, cur, run, closed, gauge>>,
         canceled' \in SUBSET (1..cur), canceled \subseteq canceled',
         NEW s \in CallerState, caller' = [caller EXCEPT ![c] = s],
         s.pc # "gauge"
  PROVE  IInv'
  <1>1. TypeOK'
    BY DEF IInv, TypeOK
  <1>2. SpawnerOwnsRun'
    BY DEF IInv, SpawnerOwnsRun, TypeOK
  <1>3. SingleWriter' /\ ClosedIsGone' /\ IdleIsFirst'
    BY DEF IInv, SingleWriter, ClosedIsGone, IdleIsFirst
  <1>4. LoopVariables' /\ GaugeSettlesLow'
    BY DEF IInv, LoopVariables, GaugeSettlesLow
  <1>5. LateIsCanceled'
    BY DEF IInv, LateIsCanceled
  <1> QED  BY <1>1, <1>2, <1>3, <1>4, <1>5 DEF IInv

\* start_ spawns a run only when no run is left that writes the state.
LEMMA StartRunInv ==
  ASSUME IInv, NEW c \in Callers, StartRun(c)
  PROVE  IInv'
  <1> USE DEF IInv
  <1>1. CASE state.status = "running"
    <2>1. Idle \in CallerState /\ Idle.pc # "gauge"
      BY DEF Idle, CallerState, Ops
    <2> QED  BY <1>1, <2>1, CallerStep DEF StartRun, CallerTo, TypeOK
  <1>2. CASE state.status # "running"
    <2> DEFINE k == cur + 1
    <2>0. k \in Nat /\ 1..k = (1..cur) \cup {k} /\ k \notin 1..cur
      BY DEF TypeOK
    <2>1. /\ cur' = k /\ k \in Nat /\ 1..cur' = (1..cur) \cup {k} /\ k \notin 1..cur
          /\ run' = [g \in 1..k |-> IF g = k THEN NewRun ELSE run[g]]
          /\ state' = [status |-> "running", step |-> Start, attempt |-> 1, err |-> NoErr]
          /\ caller' = [caller EXCEPT ![c].pc = "gauge", ![c].gen = k]
          /\ UNCHANGED <<canceled, closed, gauge>>
      BY <1>2, <2>0 DEF StartRun
    <2>2. run'[k] = NewRun /\ \A g \in 1..cur : run'[g] = run[g]
      BY <2>1
    <2>3. caller'[c].pc = "gauge" /\ caller'[c].gen = k
          /\ \A d \in Callers \ {c} : caller'[d] = caller[d]
      BY <2>1 DEF TypeOK, CallerState
    <2>4. \A g \in 1..cur : run[g].pc \notin Writing
      BY <1>2 DEF SingleWriter
    <2>5. \A d \in Callers : caller[d].pc # "gauge"
      BY <2>4 DEF SpawnerOwnsRun, Writing
    <2>6. TypeOK'
      <3>1. state' \in [status: {"idle", "running"} \cup Terminal, step: Targets,
                        attempt: Nat, err: Errors]
        BY <2>1, StepsAssumption
      <3>2. run' \in [1..cur' -> RunState]
        BY <2>1, NewRunType DEF TypeOK
      <3>3. canceled' \subseteq 1..cur' /\ closed' \subseteq 1..cur'
        BY <2>1 DEF TypeOK
      <3>4. caller' \in [Callers -> CallerState]
        BY <2>1 DEF TypeOK, CallerState
      <3> QED  BY <2>1, <3>1, <3>2, <3>3, <3>4 DEF TypeOK
    <2>7. SingleWriter'
      BY <2>1, <2>2, <2>4 DEF SingleWriter, NewRun, Writing
    <2>8. SpawnerOwnsRun'
      BY <2>1, <2>2, <2>3, <2>5 DEF SpawnerOwnsRun, NewRun
    <2>9. ClosedIsGone' /\ IdleIsFirst'
      BY <2>1, <2>2 DEF ClosedIsGone, IdleIsFirst, TypeOK
    <2>10. LoopVariables'
      <3>0. Start \in Steps
        BY StepsAssumption
      <3>1. Def[Start].retry \in Nat /\ 1 <= Def[Start].retry + 1
        BY <3>0, RetryType
      <3> QED  BY <2>1, <2>2, <3>1 DEF LoopVariables, NewRun, InStep
    <2>11. LateIsCanceled'
      BY <2>1, <2>2 DEF LateIsCanceled, NewRun
    <2>12. GaugeSettlesLow'
      BY <2>1 DEF GaugeSettlesLow
    <2> QED  BY <2>6, <2>7, <2>8, <2>9, <2>10, <2>11, <2>12
  <1> QED  BY <1>1, <1>2

\* A step of the run that writes the state: either it goes on writing, or it
\* finishes and the mission ends with it.
LEMMA RunStep ==
  ASSUME IInv, NEW g \in 1..cur, run[g].pc \in Writing \ {"spawn"},
         UNCHANGED <<cur, canceled, closed, gauge, caller>>,
         NEW r \in RunState, run' = [run EXCEPT ![g] = r],
         state' \in [status: {"idle", "running"} \cup Terminal, step: Targets,
                     attempt: Nat, err: Errors],
         \/ r.pc \in Writing \ {"spawn"} /\ state'.status = state.status
         \/ r.pc = "finish" /\ state'.status \in Terminal,
         r.pc \in InStep => r.step \in Steps,
         r.step \in Steps => r.attempt <= Def[r.step].retry + 1,
         r.late <= 1,
         r.late > 0 => g \in canceled /\ r.pc # "enter"
  PROVE  IInv'
  <1> USE DEF IInv
  <1>1. g = cur /\ state.status = "running" /\ cur \in Nat
    BY DEF SingleWriter, TypeOK
  <1>2. run'[g] = r /\ \A h \in 1..cur \ {g} : run'[h] = run[h]
    BY DEF TypeOK
  <1>3. TypeOK'
    BY DEF TypeOK
  <1>4. \A h \in 1..cur \ {g} : run[h].pc \notin Writing
    BY <1>1 DEF SingleWriter
  <1>5. SingleWriter'
    <2>1. \A h \in 1..cur : run'[h].pc \in Writing => h = g /\ r.pc \in Writing
      BY <1>2, <1>4
    <2>2. "finish" \notin Writing /\ "running" \notin Terminal
      BY DEF Writing
    <2>3. (r.pc \in Writing /\ state'.status = "running")
          \/ (r.pc \notin Writing /\ state'.status # "running")
      BY <1>1, <2>2
    <2> QED  BY <1>1, <1>2, <2>1, <2>3 DEF SingleWriter
  <1>6. SpawnerOwnsRun'
    <2>1. \A c \in Callers : caller[c].pc = "gauge" => caller[c].gen # g
      BY DEF SpawnerOwnsRun
    <2> QED  BY <1>2, <2>1 DEF SpawnerOwnsRun
  <1>7. ClosedIsGone' /\ IdleIsFirst'
    <2>1. g \notin closed
      BY DEF ClosedIsGone, Writing
    <2>2. state'.status # "idle"
      BY <1>1
    <2> QED  BY <1>2, <2>1, <2>2 DEF ClosedIsGone, IdleIsFirst, TypeOK
  <1>8. LoopVariables'
    BY <1>2 DEF LoopVariables
  <1>9. LateIsCanceled'
    BY <1>2 DEF LateIsCanceled
  <1>10. GaugeSettlesLow'
    BY <1>1, <1>2 DEF GaugeSettlesLow
  <1> QED  BY <1>3, <1>5, <1>6, <1>7, <1>8, <1>9, <1>10

\* The tail of a run: it has finished and only clears the gauge or closes done.
LEMMA TailStep ==
  ASSUME IInv, NEW g \in 1..cur, ClearGauge(g) \/ CloseDone(g)
  PROVE  IInv'
  <1> USE DEF IInv
  <1> DEFINE pc == run'[g].pc
  <1>1. /\ UNCHANGED <<state, cur, canceled, caller>>
        /\ run[g].pc \notin Writing /\ pc \in {"close", "gone"}
        /\ run' = [run EXCEPT ![g].pc = pc]
        /\ \/ gauge' = 0 /\ closed' = closed /\ pc = "close"
           \/ /\ gauge' = gauge /\ run[g].pc = "close"
              /\ closed' = closed \cup {g} /\ pc = "gone"
        /\ run[g].pc # "gone"
    BY DEF ClearGauge, CloseDone, At, TypeOK, Writing, RunState
  <1> HIDE DEF pc
  <1>2. /\ run'[g] = [run[g] EXCEPT !.pc = pc]
        /\ \A h \in 1..cur \ {g} : run'[h] = run[h]
    BY <1>1 DEF TypeOK
  <1>3. \A h \in 1..cur : run'[h].pc \in Writing <=> run[h].pc \in Writing
    BY <1>1, <1>2 DEF Writing, TypeOK, RunState
  <1>4. TypeOK'
    <2>1. run'[g] \in RunState
      <3>1. run[g] \in RunState /\ pc \in RunPcs
        BY <1>1 DEF TypeOK, RunPcs
      <3> QED  BY <1>2, <3>1 DEF RunState
    <2>2. run' \in [1..cur' -> RunState]
      BY <1>1, <1>2, <2>1 DEF TypeOK
    <2> QED  BY <1>1, <2>2 DEF TypeOK
  <1>5. SingleWriter'
    BY <1>1, <1>3 DEF SingleWriter, TypeOK
  <1>6. SpawnerOwnsRun'
    BY <1>1, <1>2 DEF SpawnerOwnsRun, Writing
  <1>7. ClosedIsGone' /\ IdleIsFirst'
    BY <1>1, <1>2 DEF ClosedIsGone, IdleIsFirst, TypeOK, RunState
  <1>8. LoopVariables'
    BY <1>1, <1>2 DEF LoopVariables, InStep, TypeOK, RunState
  <1>9. LateIsCanceled'
    BY <1>1, <1>2 DEF LateIsCanceled, TypeOK, RunState
  <1>10. GaugeSettlesLow'
    BY <1>1, <1>2 DEF GaugeSettlesLow, TypeOK, RunState
  <1> QED  BY <1>4, <1>5, <1>6, <1>7, <1>8, <1>9, <1>10

\* A start_ that got past the lock hands its run to the goroutine it spawns.
LEMMA SpawnRunInv ==
  ASSUME IInv, NEW c \in Callers, SpawnRun(c)
  PROVE  IInv'
  <1> USE DEF IInv
  <1> DEFINE g == caller[c].gen
  <1>1. /\ UNCHANGED <<state, cur, canceled, closed>> /\ gauge' = 1
        /\ caller[c].pc = "gauge" /\ caller' = [caller EXCEPT ![c] = Idle]
        /\ run' = [run EXCEPT ![g].pc = "loop"]
    BY DEF SpawnRun, CallerTo
  <1>2. g \in 1..cur /\ run[g].pc = "spawn" /\ g = cur /\ state.status = "running"
    BY <1>1 DEF SpawnerOwnsRun, SingleWriter, Writing
  <1> HIDE DEF g
  <1>3. /\ run'[g] = [run[g] EXCEPT !.pc = "loop"]
        /\ \A h \in 1..cur \ {g} : run'[h] = run[h]
    BY <1>1, <1>2 DEF TypeOK
  <1>4. run'[g].pc = "loop" /\ run'[g] \in RunState
    BY <1>2, <1>3 DEF TypeOK, RunState, RunPcs, Writing
  <1>5. caller'[c] = Idle /\ \A d \in Callers \ {c} : caller'[d].pc # "gauge"
    BY <1>1 DEF TypeOK, SpawnerOwnsRun
  <1>6. TypeOK'
    <2>1. run' \in [1..cur' -> RunState]
      BY <1>1, <1>2, <1>3, <1>4 DEF TypeOK
    <2>2. Idle \in CallerState
      BY DEF Idle, CallerState, Ops
    <2> QED  BY <1>1, <2>1, <2>2 DEF TypeOK
  <1>7. SingleWriter'
    BY <1>1, <1>2, <1>3, <1>4 DEF SingleWriter, TypeOK, Writing
  <1>8. SpawnerOwnsRun'
    BY <1>5 DEF SpawnerOwnsRun, Idle
  <1>9. ClosedIsGone' /\ IdleIsFirst'
    BY <1>1, <1>2, <1>3 DEF ClosedIsGone, IdleIsFirst, TypeOK
  <1>10. LoopVariables'
    BY <1>1, <1>2, <1>3, <1>4 DEF LoopVariables, InStep, TypeOK, RunState
  <1>11. LateIsCanceled'
    BY <1>1, <1>2, <1>3, <1>4 DEF LateIsCanceled, TypeOK, RunState
  <1>12. GaugeSettlesLow'
    BY <1>1, <1>2 DEF GaugeSettlesLow
  <1> QED  BY <1>6, <1>7, <1>8, <1>9, <1>10, <1>11, <1>12

\* finish ends the mission, whichever branch of the loop calls it.
LEMMA FinishInv ==
  ASSUME IInv, NEW g \in 1..cur, run[g].pc \in Writing \ {"spawn"},
         NEW status \in Terminal, NEW err \in Errors, Finish(g, status, err),
         UNCHANGED <<cur, canceled, closed, gauge, caller>>
  PROVE  IInv'
  <1> DEFINE r == [NewRun EXCEPT !.pc = "finish"]
  <1>1. r \in RunState /\ r.pc = "finish" /\ r.late = 0 /\ r.step = Start /\ r.attempt = 1
    BY NewRunType DEF RunState, RunPcs, NewRun
  <1>2. run' = [run EXCEPT ![g] = r]
    BY DEF Finish
  <1>3. /\ state' \in [status: {"idle", "running"} \cup Terminal, step: Targets,
                       attempt: Nat, err: Errors]
        /\ state'.status \in Terminal
    BY DEF Finish, IInv, TypeOK
  <1>4. Start \in Steps
    BY StepsAssumption
  <1>5. r.attempt <= Def[r.step].retry + 1
    BY <1>1, <1>4, RetryType
  <1>6. r.pc \notin InStep /\ r.late <= 1 /\ ~(r.late > 0)
    BY <1>1 DEF InStep
  <1> HIDE DEF r
  <1> QED  BY <1>1, <1>2, <1>3, <1>5, <1>6, RunStep

\* Entering the next step, by next, by fail or by Goto, starts its count at 1.
LEMMA MoveInv ==
  ASSUME IInv, NEW g \in 1..cur, run[g].pc = "returned",
         NEW step \in Targets, NEW cause \in Errors, Move(g, step, cause),
         state' \in [status: {"idle", "running"} \cup Terminal, step: Targets,
                     attempt: Nat, err: Errors],
         state'.status = state.status,
         UNCHANGED <<cur, canceled, closed, gauge, caller>>
  PROVE  IInv'
  <1> DEFINE r == [NewRun EXCEPT !.pc = "loop", !.step = step, !.cause = cause,
                     !.late = run[g].late]
  <1>1. run[g].late \in Nat
    BY DEF IInv, TypeOK, RunState
  <1>2. /\ r \in RunState /\ r.pc = "loop" /\ r.late = run[g].late
        /\ r.step = step /\ r.attempt = 1
    BY <1>1, NewRunType DEF RunState, RunPcs, Writing, NewRun
  <1>3. run' = [run EXCEPT ![g] = r]
    BY DEF Move
  <1>4. step \in Steps => r.attempt <= Def[r.step].retry + 1
    BY <1>2, RetryType
  <1>5. r.late <= 1 /\ (r.late > 0 => g \in canceled)
    BY <1>2 DEF IInv, LateIsCanceled
  <1> HIDE DEF r
  <1> QED  BY <1>2, <1>3, <1>4, <1>5, RunStep DEF InStep, Writing

\* Every step of a caller preserves the invariant.
LEMMA CallerInv ==
  ASSUME IInv, NEW c \in Callers, CallerNext(c)
  PROVE  IInv'
  <1>0. caller[c] \in CallerState /\ Idle \in CallerState /\ Idle.pc # "gauge"
    BY DEF IInv, TypeOK, Idle, CallerState, Ops
  <1>1. ASSUME NEW op \in Ops, Call(c, op)
        PROVE  IInv'
    <2> DEFINE s == [pc |-> IF op = "Activate" THEN "start" ELSE "stop",
                     op |-> op, gen |-> 0]
    <2>1. s \in CallerState /\ s.pc # "gauge"
      BY DEF CallerState, Ops
    <2>2. caller' = [caller EXCEPT ![c] = s]
      BY <1>1 DEF Call
    <2> HIDE DEF s
    <2> QED  BY <1>1, <2>1, <2>2, CallerStep DEF Call, IInv, TypeOK
  <1>2. ASSUME NEW pc \in {"idle", "start"}, CallerTo(c, pc),
               UNCHANGED <<state, cur, run, canceled, closed, gauge>>
        PROVE  IInv'
    <2> DEFINE s == IF pc = "idle" THEN Idle ELSE [caller[c] EXCEPT !.pc = pc]
    <2>1. s \in CallerState /\ s.pc # "gauge"
      BY <1>0 DEF CallerState
    <2>2. caller' = [caller EXCEPT ![c] = s]
      BY <1>2 DEF CallerTo
    <2> HIDE DEF s
    <2> QED  BY <1>2, <2>1, <2>2, CallerStep DEF IInv, TypeOK
  <1>3. AfterStop(c) \in {"idle", "start"}
    BY DEF AfterStop
  <1>4. CASE StopCancel(c)
    <2>1. CASE cur = 0
      BY <1>2, <1>3, <1>4, <2>1 DEF StopCancel
    <2>2. CASE cur # 0
      <3> DEFINE s == [caller[c] EXCEPT !.gen = cur, !.pc = "wait"]
      <3>1. cur \in Nat /\ cur \in 1..cur /\ canceled \subseteq 1..cur
        BY <2>2 DEF IInv, TypeOK
      <3>2. s \in CallerState /\ s.pc # "gauge"
        BY <1>0, <3>1 DEF CallerState
      <3>3. /\ caller' = [caller EXCEPT ![c] = s]
            /\ canceled' = canceled \cup {cur}
            /\ UNCHANGED <<state, cur, run, closed, gauge>>
        BY <1>4, <2>2 DEF StopCancel
      <3> HIDE DEF s
      <3> QED  BY <3>1, <3>2, <3>3, CallerStep
    <2> QED  BY <2>1, <2>2
  <1>5. CASE StopDone(c) \/ StopGrace(c)
    BY <1>2, <1>3, <1>5 DEF StopDone, StopGrace
  <1> QED
    BY <1>1, <1>4, <1>5, StartRunInv, SpawnRunInv DEF CallerNext

\* Every step of a run preserves the invariant.
LEMMA RunInv ==
  ASSUME IInv, NEW g \in 1..cur, RunNext(g)
  PROVE  IInv'
  <1> DEFINE StateType == [status: {"idle", "running"} \cup Terminal, step: Targets,
                           attempt: Nat, err: Errors]
  <1>0. /\ run \in [1..cur -> RunState] /\ run[g] \in RunState /\ state \in StateType
        /\ run[g].late \in Nat /\ run[g].attempt \in Nat /\ run[g].step \in Targets
        /\ run[g].ret \in Returns
    BY DEF IInv, TypeOK, RunState
  <1>l. run[g].late <= 1 /\ (run[g].late > 0 => g \in canceled /\ run[g].pc # "enter")
    BY DEF IInv, LateIsCanceled
  <1>v. /\ run[g].pc \in InStep => run[g].step \in Steps
        /\ run[g].step \in Steps => run[g].attempt <= Def[run[g].step].retry + 1
    BY DEF IInv, LoopVariables
  <1>r. /\ state.err \in Errors /\ run[g].ret.err \in Errors
        /\ run[g].ret.to \in Targets \cup {Unknown}
    BY <1>0 DEF Returns
  <1>1. CASE Loop(g)
    <2>0. run[g].pc = "loop" /\ UNCHANGED <<cur, canceled, closed, gauge, caller>>
      BY <1>1 DEF Loop, At
    <2>1. ASSUME NEW s \in Terminal, NEW e \in Errors, Finish(g, s, e)
          PROVE  IInv'
      BY <2>0, <2>1, FinishInv DEF Writing
    <2>2. CASE /\ g \notin canceled /\ run[g].step \notin {StepDone, StepFailed}
               /\ run' = [run EXCEPT ![g].pc = "enter"] /\ UNCHANGED state
      <3> DEFINE r == [run[g] EXCEPT !.pc = "enter"]
      <3>1. /\ r \in RunState /\ r.pc = "enter" /\ r.late = run[g].late
            /\ r.step = run[g].step /\ r.attempt = run[g].attempt
        BY <1>0 DEF RunState, RunPcs, Writing
      <3>2. run' = [run EXCEPT ![g] = r] /\ UNCHANGED state
        BY <2>2, <1>0
      <3>3. r.step \in Steps
        BY <2>2, <1>0, <3>1
      <3>4. ~(r.late > 0) /\ r.late <= 1
        BY <1>l, <2>2, <3>1
      <3> HIDE DEF r
      <3> QED  BY <1>0, <1>v, <2>0, <3>1, <3>2, <3>3, <3>4, RunStep DEF Writing
    <2> QED  BY <1>1, <1>r, <2>1, <2>2 DEF Loop
  <1>2. CASE Enter(g)
    <2> DEFINE late == IF g \in canceled THEN run[g].late + 1 ELSE run[g].late
               r == [run[g] EXCEPT !.pc = "handler", !.expired = FALSE, !.late = late]
    <2>0. run[g].pc = "enter" /\ UNCHANGED <<cur, canceled, closed, gauge, caller>>
      BY <1>2 DEF Enter, At
    <2>1. late \in Nat /\ late <= 1 /\ (late > 0 => g \in canceled)
      BY <1>0, <1>l, <2>0
    <2> HIDE DEF late
    <2>2. /\ r \in RunState /\ r.pc = "handler" /\ r.late = late
          /\ r.step = run[g].step /\ r.attempt = run[g].attempt
      BY <1>0, <2>1 DEF RunState, RunPcs, Writing
    <2>3. run' = [run EXCEPT ![g] = r]
      BY <1>0, <1>2 DEF Enter, late
    <2>4. state' \in StateType /\ state'.status = state.status
      BY <1>0, <1>2 DEF Enter
    <2> HIDE DEF r
    <2> QED  BY <1>v, <2>0, <2>1, <2>2, <2>3, <2>4, RunStep DEF Writing, InStep
  <1>3. CASE Expire(g)
    <2> DEFINE r == [run[g] EXCEPT !.expired = TRUE]
    <2>0. /\ run[g].pc = "handler" /\ run' = [run EXCEPT ![g] = r]
          /\ UNCHANGED <<state, cur, canceled, closed, gauge, caller>>
      BY <1>0, <1>3 DEF Expire, At
    <2>2. /\ r \in RunState /\ r.pc = "handler" /\ r.late = run[g].late
          /\ r.step = run[g].step /\ r.attempt = run[g].attempt
      BY <1>0, <2>0 DEF RunState
    <2> HIDE DEF r
    <2> QED  BY <1>0, <1>l, <1>v, <2>0, <2>2, RunStep DEF Writing, InStep
  <1>4. ASSUME NEW ret \in Returns, HandlerReturns(g, ret)
        PROVE  IInv'
    <2> DEFINE r == [run[g] EXCEPT !.pc = "returned", !.ret = ret]
    <2>0. /\ run[g].pc = "handler" /\ run' = [run EXCEPT ![g] = r]
          /\ UNCHANGED <<state, cur, canceled, closed, gauge, caller>>
      BY <1>0, <1>4 DEF HandlerReturns, At
    <2>2. /\ r \in RunState /\ r.pc = "returned" /\ r.late = run[g].late
          /\ r.step = run[g].step /\ r.attempt = run[g].attempt
      BY <1>0, <2>0 DEF RunState, RunPcs, Writing
    <2> HIDE DEF r
    <2> QED  BY <1>0, <1>l, <1>v, <2>0, <2>2, RunStep DEF Writing, InStep
  <1>5. CASE ReturnStopped(g)
    <2>1. [NoReturn EXCEPT !.kind = "err", !.err = ContextErr(g)] \in Returns
      BY NoReturnType DEF Returns, ContextErr
    <2> QED  BY <1>4, <1>5, <2>1 DEF ReturnStopped
  <1>6. CASE ReturnFreely(g)
    <2>1. /\ [NoReturn EXCEPT !.kind = "err", !.err = "failure"] \in Returns
          /\ \A to \in Targets \cup {Unknown} :
               [NoReturn EXCEPT !.kind = "goto", !.to = to] \in Returns
      BY NoReturnType DEF Returns
    <2> QED  BY <1>4, <1>6, <2>1, NoReturnType DEF ReturnFreely
  <1>7. CASE Decide(g)
    <2>0. run[g].pc = "returned" /\ UNCHANGED <<cur, canceled, closed, gauge, caller>>
      BY <1>7 DEF Decide, At
    <2>1. ASSUME NEW s \in Terminal, NEW e \in Errors, Finish(g, s, e)
          PROVE  IInv'
      BY <2>0, <2>1, FinishInv DEF Writing
    <2>2. ASSUME NEW s \in Targets, NEW e \in Errors, Move(g, s, e),
                 state' \in StateType, state'.status = state.status
          PROVE  IInv'
      BY <2>0, <2>2, MoveInv
    <2>3. run[g].step \in Steps
      BY <1>v, <2>0 DEF InStep
    <2>4. ASSUME run[g].attempt <= Def[run[g].step].retry, UNCHANGED state,
                 run' = [run EXCEPT
                   ![g].pc = IF Def[run[g].step].backoff THEN "backoff" ELSE "loop",
                   ![g].attempt = @ + 1, ![g].cause = NoErr,
                   ![g].expired = FALSE, ![g].ret = NoReturn]
          PROVE  IInv'
      <3> DEFINE pc == IF Def[run[g].step].backoff THEN "backoff" ELSE "loop"
                 n == run[g].attempt + 1
                 r == [run[g] EXCEPT !.pc = pc, !.attempt = n, !.cause = NoErr,
                         !.expired = FALSE, !.ret = NoReturn]
      <3>1. pc \in {"backoff", "loop"} /\ n \in Nat
        BY <1>0
      <3>2. n <= Def[run[g].step].retry + 1
        BY <1>0, <2>3, <2>4, RetryType
      <3>3. run' = [run EXCEPT ![g] = r]
        BY <1>0, <2>4
      <3> HIDE DEF pc, n
      <3>4. /\ r \in RunState /\ r.pc = pc /\ r.late = run[g].late
            /\ r.step = run[g].step /\ r.attempt = n
        BY <1>0, <3>1, NoReturnType DEF RunState, RunPcs, Writing
      <3>5. UNCHANGED state
        BY <2>4
      <3> HIDE DEF r
      <3>6. /\ r.pc \in Writing \ {"spawn"} /\ r.pc # "enter" /\ r.step \in Steps
            /\ r.attempt <= Def[r.step].retry + 1
            /\ run[g].pc \in Writing \ {"spawn"}
        BY <2>0, <2>3, <3>1, <3>2, <3>4 DEF Writing
      <3>7. r.late <= 1 /\ (r.late > 0 => g \in canceled)
        BY <1>l, <3>4
      <3> QED  BY <1>0, <2>0, <3>3, <3>4, <3>5, <3>6, <3>7, RunStep
    <2>5. Def[run[g].step].next \in Targets
          /\ (Def[run[g].step].fail # NoBranch => Def[run[g].step].fail \in Targets)
      BY <2>3, DefType
    <2>6. [state EXCEPT !.err = run[g].ret.err] \in StateType
          /\ [state EXCEPT !.err = run[g].ret.err].status = state.status
      BY <1>0, <1>r
    <2> QED  BY <1>0, <1>7, <1>r, <2>1, <2>2, <2>4, <2>5, <2>6 DEF Decide, MayRetry
  <1>8. CASE Backoff(g)
    <2>0. run[g].pc = "backoff" /\ UNCHANGED <<cur, canceled, closed, gauge, caller>>
      BY <1>8 DEF Backoff, At
    <2>1. CASE Finish(g, "canceled", NoErr)
      BY <2>0, <2>1, FinishInv DEF Writing
    <2>2. CASE run' = [run EXCEPT ![g].pc = "loop"] /\ UNCHANGED state
      <3> DEFINE r == [run[g] EXCEPT !.pc = "loop"]
      <3>1. /\ r \in RunState /\ r.pc = "loop" /\ r.late = run[g].late
            /\ r.step = run[g].step /\ r.attempt = run[g].attempt
        BY <1>0 DEF RunState, RunPcs, Writing
      <3>2. run' = [run EXCEPT ![g] = r] /\ UNCHANGED state
        BY <2>2, <1>0
      <3> HIDE DEF r
      <3> QED  BY <1>0, <1>l, <1>v, <2>0, <3>1, <3>2, RunStep DEF Writing, InStep
    <2> QED  BY <1>8, <2>1, <2>2 DEF Backoff
  <1> QED  BY <1>1, <1>2, <1>3, <1>5, <1>6, <1>7, <1>8, TailStep DEF RunNext

\* IInv is inductive.
LEMMA NextInv == IInv /\ [Next]_vars => IInv'
  <1> SUFFICES ASSUME IInv, [Next]_vars PROVE IInv'  OBVIOUS
  <1>1. ASSUME NEW c \in Callers, CallerNext(c) PROVE IInv'
    BY <1>1, CallerInv
  <1>2. ASSUME NEW g \in 1..cur, RunNext(g) PROVE IInv'
    BY <1>2, RunInv
  <1>3. CASE UNCHANGED vars
    BY <1>3 DEF vars, IInv, TypeOK, SingleWriter, SpawnerOwnsRun, ClosedIsGone,
                IdleIsFirst, LoopVariables, LateIsCanceled, GaugeSettlesLow
  <1> QED  BY <1>1, <1>2, <1>3 DEF Next

\* The runner stays within IInv, whatever the mission, the callers and the
\* outcomes of its steps (mission.go, missionRunner).
THEOREM Invariance == Spec => []IInv
  BY InitInv, NextInv, PTL DEF Spec

\* The variables of the runner keep their types.
THEOREM TypeCorrect == Spec => []TypeOK
  <1>1. IInv => TypeOK  BY DEF IInv
  <1> QED  BY <1>1, Invariance, PTL

\* Only the goroutine of the current run writes r.state, and only while the
\* mission runs: a run that outlived its stop never disturbs a later one.
THEOREM OneWriter == Spec => []SingleWriter
  <1>1. IInv => SingleWriter  BY DEF IInv
  <1> QED  BY <1>1, Invariance, PTL

\* Whoever finds the current Done channel closed finds a terminal status.
THEOREM DoneIsTerminal == Spec => []DoneMeansTerminal
  <1>1. IInv => DoneMeansTerminal
    <2> SUFFICES ASSUME IInv, cur \in closed PROVE state.status \in Terminal
      BY DEF DoneMeansTerminal
    <2>1. run[cur].pc \notin Writing /\ cur > 0
      BY DEF IInv, ClosedIsGone, TypeOK, Writing
    <2> QED  BY <2>1 DEF IInv, SingleWriter, IdleIsFirst, TypeOK
  <1> QED  BY <1>1, Invariance, PTL

\* The record of a mission belongs to its current run: StartRun refuses while
\* another run is live, and finish records the end before done is closed.
THEOREM RecordOwned == Spec => []RecordIsOwned
  <1>1. TypeOK /\ SingleWriter /\ DoneMeansTerminal => RecordIsOwned
    BY DEF RecordIsOwned
  <1> QED  BY <1>1, TypeCorrect, OneWriter, DoneIsTerminal, PTL

\* After a cancel at most one more step is entered.
THEOREM LateStepBound == Spec => []AtMostOneLateStep
  <1>1. IInv => AtMostOneLateStep
    BY DEF IInv, LateIsCanceled, AtMostOneLateStep
  <1> QED  BY <1>1, Invariance, PTL

\* No entry of a step gets more than retry + 1 attempts.
THEOREM RetryBound == Spec => []AttemptsBounded
  <1>1. IInv => AttemptsBounded
    BY DEF IInv, LoopVariables, AttemptsBounded, InStep
  <1> QED  BY <1>1, Invariance, PTL

\* A mission that has ended does not keep its running gauge up.
THEOREM GaugeFalls == Spec => []GaugeSettlesLow
  <1>1. IInv => GaugeSettlesLow  BY DEF IInv
  <1> QED  BY <1>1, Invariance, PTL

\* What a step of the runner means to somebody who sees only the status, the
\* number of the run and whether it was asked to stop.
LEMMA StepIsLife ==
  ASSUME IInv, Next
  PROVE  [Life!Next]_(Life!vars)
  <1> USE DEF IInv
  <1> SUFFICES \/ state'.status = state.status /\ cur' = cur
                  /\ (cur \in canceled)' = (cur \in canceled)
               \/ Life!Next
    BY DEF Life!vars
  <1>0. cur \in Nat /\ canceled \subseteq 1..cur
    BY DEF TypeOK
  <1>1. ASSUME NEW c \in Callers, CallerNext(c)
        PROVE  \/ state'.status = state.status /\ cur' = cur
                  /\ (cur \in canceled)' = (cur \in canceled)
               \/ Life!Next
    <2>1. CASE StopCancel(c)
      <3>1. CASE cur = 0
        BY <2>1, <3>1 DEF StopCancel
      <3>2. CASE cur # 0
        BY <1>0, <2>1, <3>2 DEF StopCancel, Life!Next, Life!Ask
      <3> QED  BY <3>1, <3>2
    <2>2. CASE StartRun(c)
      <3>1. CASE state.status = "running"
        BY <2>2, <3>1 DEF StartRun
      <3>2. CASE state.status # "running"
        BY <1>0, <2>2, <3>2 DEF StartRun, Life!Next, Life!Begin
      <3> QED  BY <3>1, <3>2
    <2> QED
      BY <1>1, <2>1, <2>2 DEF CallerNext, Call, StopDone, StopGrace, SpawnRun
  <1>2. ASSUME NEW g \in 1..cur, RunNext(g)
        PROVE  \/ state'.status = state.status /\ cur' = cur
                  /\ (cur \in canceled)' = (cur \in canceled)
               \/ Life!Next
    <2>1. ASSUME NEW s \in Terminal, NEW e, Finish(g, s, e),
                 s = "canceled" => g \in canceled,
                 run[g].pc \in Writing, UNCHANGED <<cur, canceled>>
          PROVE  Life!Next
      <3>1. g = cur /\ state.status = "running"
        BY <2>1 DEF SingleWriter
      <3>2. state'.status = s
        BY <2>1 DEF Finish, TypeOK
      <3> QED  BY <2>1, <3>1, <3>2 DEF Life!Next, Life!End
    <2>2. CASE Loop(g)
      BY <2>1, <2>2 DEF Loop, At, Writing
    <2>3. CASE Decide(g)
      <3>1. [state EXCEPT !.err = run[g].ret.err].status = state.status
        BY DEF TypeOK
      <3> QED  BY <2>1, <2>3, <3>1 DEF Decide, At, Writing
    <2>4. CASE Backoff(g)
      BY <2>1, <2>4 DEF Backoff, At, Writing
    <2>5. CASE Enter(g)
      BY <2>5 DEF Enter, TypeOK
    <2> QED
      BY <1>2, <2>2, <2>3, <2>4, <2>5 DEF RunNext, Expire, ReturnStopped,
         ReturnFreely, HandlerReturns, ClearGauge, CloseDone
  <1> QED  BY <1>1, <1>2 DEF Next

\* The runner implements MissionLife: it never starts a mission that runs,
\* never ends one twice, and never calls one canceled that nobody stopped.
THEOREM Refinement == Spec => ImplementsLife
  <1>1. Init => Life!Init
    BY DEF Init, Life!Init
  <1>2. IInv /\ [Next]_vars => [Life!Next]_(Life!vars)
    BY StepIsLife DEF vars, Life!vars
  <1> QED  BY <1>1, <1>2, Invariance, PTL DEF Spec, ImplementsLife, Life!Spec

\* What Status, Step and Err report of a mission that has ended stands until
\* the mission is started again.
THEOREM EndStands == Spec => TerminalStands
  <1>1. ASSUME IInv, Next, state.status \in Terminal, state' # state
        PROVE  cur' = cur + 1
    <2>1. \A g \in 1..cur : run[g].pc \notin Writing
      BY <1>1 DEF IInv, SingleWriter
    <2>2. ASSUME NEW g \in 1..cur, RunNext(g)
          PROVE  FALSE
      BY <1>1, <2>1, <2>2 DEF RunNext, Loop, Enter, Expire, ReturnStopped, ReturnFreely,
           HandlerReturns, Decide, Backoff, ClearGauge, CloseDone, At, Writing
    <2>3. ASSUME NEW c \in Callers, CallerNext(c)
          PROVE  cur' = cur + 1
      BY <1>1, <2>3 DEF CallerNext, Call, StopCancel, StopDone, StopGrace, StartRun, SpawnRun
    <2> QED  BY <1>1, <2>2, <2>3 DEF Next
  <1>2. IInv /\ [Next]_vars =>
          [state.status \in Terminal /\ state' # state => cur' = cur + 1]_vars
    BY <1>1 DEF vars
  <1> QED  BY <1>2, Invariance, PTL DEF Spec, TerminalStands
=============================================================================
