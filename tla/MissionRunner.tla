--------------------------- MODULE MissionRunner ---------------------------
(***************************************************************************)
(* The mission runner of mission.go: one node's task machine.              *)
(*                                                                         *)
(* Every start_ spawns a run: a goroutine that walks the declared steps    *)
(* under a context of its own and closes a done channel of its own when it *)
(* returns.  Runs are numbered; cur is the run whose cancel function and   *)
(* done channel the runner's fields hold (0: they are nil).  Cancel,       *)
(* Restart and the lifecycle's activation and deactivation arrive on any   *)
(* goroutine, so they are callers that interleave with the run and with    *)
(* one another at every point where mission.go does not hold r.mu.         *)
(*                                                                         *)
(* A step's handler is user code: it may return any outcome at any moment, *)
(* or never.  Errors are kept apart only by what mission.go tells apart.   *)
(***************************************************************************)
EXTENDS Integers, FiniteSets

CONSTANTS
  Steps,      \* the declared step names
  Start,      \* the start tag
  Def,        \* step |-> its tags: next, fail, retry, timeout, backoff
  Callers,    \* goroutines that start, stop and restart the mission
  MaxRuns,    \* bound: no start is requested once this many runs exist
  Unknown     \* a Goto target that names no declared step

StepDone == "done"
StepFailed == "failed"
NoBranch == ""            \* a step without a fail tag

\* What wireMission accepts: the start step and every target are declared.
Targets == Steps \cup {StepDone, StepFailed}

ASSUME StepsAssumption ==
  /\ Start \in Steps
  /\ Unknown \notin Targets
  /\ Def \in [Steps -> [next: Targets, fail: Targets \cup {NoBranch},
                        retry: Nat, timeout: BOOLEAN, backoff: BOOLEAN]]

ASSUME BoundAssumption == MaxRuns \in Nat /\ IsFiniteSet(Callers)

NoErr == "nil"
Errors == {NoErr, "failure", "deadline", "canceled", "nosuchstep"}
Terminal == {"done", "failed", "canceled"}

\* What a handler returned: nil, t.Goto(to), or an error.
Returns == [kind: {"nil", "goto", "err"}, to: Targets \cup {Unknown}, err: Errors]
NoReturn == [kind |-> "nil", to |-> StepDone, err |-> NoErr]

VARIABLES
  state,      \* r.state: status, step, attempt and err, guarded by r.mu
  cur,        \* the run r.cancel and r.done belong to
  run,        \* run g |-> the local variables of its goroutine
  canceled,   \* the runs whose context has been canceled
  closed,     \* the runs whose done channel is closed
  gauge,      \* conductor_mission_running
  caller      \* caller |-> what it is doing to the mission

vars == <<state, cur, run, canceled, closed, gauge, caller>>

\* Where a run is.  "spawn": start_ has not reached its go statement.
\* "loop": the top of the loop.  "enter": past the context check.
\* "handler": inside the step's handler.  "returned": the handler is back.
\* "backoff": sleeping before a retry.  "finish", "close": after finish took
\* effect, before the gauge is cleared and before done is closed.
Writing == {"spawn", "loop", "enter", "handler", "returned", "backoff"}
RunPcs == Writing \cup {"finish", "close", "gone"}

\* expired: the step's timeout canceled its context before anything else did.
\* late is history: the steps entered after the cancel.
RunState == [pc: RunPcs, step: Targets, attempt: Nat, cause: Errors,
             expired: BOOLEAN, ret: Returns, late: Nat]

Ops == {"Cancel", "Restart", "Activate"}
CallerState == [pc: {"idle", "stop", "wait", "start", "gauge"},
                op: Ops, gen: Nat]
Idle == [pc |-> "idle", op |-> "Cancel", gen |-> 0]

TypeOK ==
  /\ state \in [status: {"idle", "running"} \cup Terminal, step: Targets,
                attempt: Nat, err: Errors]
  /\ cur \in Nat
  /\ run \in [1..cur -> RunState]
  /\ canceled \subseteq 1..cur
  /\ closed \subseteq 1..cur
  /\ gauge \in {0, 1}
  /\ caller \in [Callers -> CallerState]

Init ==
  /\ state = [status |-> "idle", step |-> Start, attempt |-> 0, err |-> NoErr]
  /\ cur = 0
  /\ run = [g \in 1..0 |-> 0]
  /\ canceled = {}
  /\ closed = {}
  /\ gauge = 0
  /\ caller = [c \in Callers |-> Idle]

-----------------------------------------------------------------------------
(* Callers: Cancel and the lifecycle's onInactive (stop), Restart (stop,     *)
(* then start_), and the lifecycle's onActive (start_).                      *)

CallerTo(c, pc) ==
  caller' = [caller EXCEPT ![c] = IF pc = "idle" THEN Idle ELSE [@ EXCEPT !.pc = pc]]

Call(c, op) ==
  /\ caller[c].pc = "idle"
  /\ op # "Cancel" => cur < MaxRuns
  /\ caller' = [caller EXCEPT ![c] =
                  [pc |-> IF op = "Activate" THEN "start" ELSE "stop",
                   op |-> op, gen |-> 0]]
  /\ UNCHANGED <<state, cur, run, canceled, closed, gauge>>

\* After stop, Restart goes on to start_ and the others return.
AfterStop(c) == IF caller[c].op = "Restart" THEN "start" ELSE "idle"

\* stop: read cancel and done under the lock, then cancel the context.  The call
\* of cancel is behind the unlock, and one step with the read: until the run has
\* recorded its end no other can start, so the read could as well be made at the
\* call; and to a run that has recorded it, being canceled makes no difference.
StopCancel(c) ==
  /\ caller[c].pc = "stop"
  /\ IF cur = 0 THEN CallerTo(c, AfterStop(c))
     ELSE caller' = [caller EXCEPT ![c].gen = cur, ![c].pc = "wait"]
  /\ canceled' = IF cur = 0 THEN canceled ELSE canceled \cup {cur}
  /\ UNCHANGED <<state, cur, run, closed, gauge>>

\* stop: <-done.
StopDone(c) ==
  /\ caller[c].pc = "wait"
  /\ caller[c].gen \in closed
  /\ CallerTo(c, AfterStop(c))
  /\ UNCHANGED <<state, cur, run, canceled, closed, gauge>>

\* Mutant: a stop that gives up records it in the state.
StopGraceRecords(c) ==
  /\ caller[c].pc = "wait"
  /\ caller[c].gen \notin closed
  /\ CallerTo(c, AfterStop(c))
  /\ state' = [state EXCEPT !.err = "canceled"]
  /\ UNCHANGED <<cur, run, canceled, closed, gauge>>

\* stop: the grace period runs out first.
StopGrace(c) ==
  /\ caller[c].pc = "wait"
  /\ caller[c].gen \notin closed
  /\ CallerTo(c, AfterStop(c))
  /\ UNCHANGED <<state, cur, run, canceled, closed, gauge>>

NewRun == [pc |-> "spawn", step |-> Start, attempt |-> 1, cause |-> NoErr,
           expired |-> FALSE, ret |-> NoReturn, late |-> 0]

\* Mutant: start_ without its look at the status.
StartRunUnchecked(c) ==
  /\ caller[c].pc = "start"
  /\ caller' = [caller EXCEPT ![c].pc = "gauge", ![c].gen = cur + 1]
  /\ cur' = cur + 1
  /\ run' = [g \in 1..(cur + 1) |-> IF g = cur + 1 THEN NewRun ELSE run[g]]
  /\ state' = [status |-> "running", step |-> Start, attempt |-> 1, err |-> NoErr]
  /\ UNCHANGED <<canceled, closed, gauge>>

\* start_, up to its unlock: nothing if the mission is running.
StartRun(c) ==
  /\ caller[c].pc = "start"
  /\ IF state.status = "running"
     THEN /\ CallerTo(c, "idle")
          /\ UNCHANGED <<state, cur, run>>
     ELSE /\ caller' = [caller EXCEPT ![c].pc = "gauge", ![c].gen = cur + 1]
          /\ cur' = cur + 1
          /\ run' = [g \in 1..(cur + 1) |-> IF g = cur + 1 THEN NewRun ELSE run[g]]
          /\ state' = [status |-> "running", step |-> Start, attempt |-> 1,
                       err |-> NoErr]
  /\ UNCHANGED <<canceled, closed, gauge>>

\* start_, after the unlock: set the gauge and spawn the goroutine.
SpawnRun(c) ==
  /\ caller[c].pc = "gauge"
  /\ gauge' = 1
  /\ run' = [run EXCEPT ![caller[c].gen].pc = "loop"]
  /\ CallerTo(c, "idle")
  /\ UNCHANGED <<state, cur, canceled, closed>>

-----------------------------------------------------------------------------
(* The goroutine of run g.  Locals that are dead are reset, so that they do   *)
(* not tell states apart.                                                    *)

At(g, pc) == g \in 1..cur /\ run[g].pc = pc

\* finish, up to its unlock.
Finish(g, status, err) ==
  /\ state' = [state EXCEPT
       !.status = status,
       !.err = IF err # NoErr THEN err ELSE @,
       !.step = CASE status = "done" -> StepDone
                  [] status = "failed" -> StepFailed
                  [] OTHER -> @]
  /\ run' = [run EXCEPT ![g] = [NewRun EXCEPT !.pc = "finish"]]

\* The rest of the loop's body ends by choosing a step and a cause.
Move(g, step, cause) ==
  run' = [run EXCEPT ![g] = [NewRun EXCEPT
            !.pc = "loop", !.step = step, !.cause = cause,
            !.late = run[g].late]]

\* Mutant: the loop does not look at the context.
LoopUnchecked(g) ==
  /\ At(g, "loop")
  /\ \/ run[g].step = StepDone /\ Finish(g, "done", NoErr)
     \/ run[g].step = StepFailed /\ Finish(g, "failed", state.err)
     \/ /\ run[g].step \notin {StepDone, StepFailed}
        /\ run' = [run EXCEPT ![g].pc = "enter"]
        /\ UNCHANGED state
  /\ UNCHANGED <<cur, canceled, closed, gauge, caller>>

\* The top of the loop.  The step is always a target wireMission or Decide
\* has validated, so the lookup of r.steps[step] does not fail.
Loop(g) ==
  /\ At(g, "loop")
  /\ \/ g \in canceled /\ Finish(g, "canceled", NoErr)
     \/ /\ g \notin canceled
        /\ \/ run[g].step = StepDone /\ Finish(g, "done", NoErr)
           \/ run[g].step = StepFailed /\ Finish(g, "failed", state.err)
           \/ /\ run[g].step \notin {StepDone, StepFailed}
              /\ run' = [run EXCEPT ![g].pc = "enter"]
              /\ UNCHANGED state
  /\ UNCHANGED <<cur, canceled, closed, gauge, caller>>

\* enter, and runStep up to the call of the handler.
Enter(g) ==
  /\ At(g, "enter")
  /\ state' = [state EXCEPT !.step = run[g].step, !.attempt = run[g].attempt]
  /\ run' = [run EXCEPT ![g].pc = "handler", ![g].expired = FALSE,
                        ![g].late = IF g \in canceled THEN @ + 1 ELSE @]
  /\ UNCHANGED <<cur, canceled, closed, gauge, caller>>

\* runStep's deadline waiter: the first cancellation of a context decides its
\* cause, so a timeout after the mission was canceled changes nothing.
Expire(g) ==
  /\ At(g, "handler")
  /\ Def[run[g].step].timeout
  /\ ~run[g].expired
  /\ g \notin canceled
  /\ run' = [run EXCEPT ![g].expired = TRUE]
  /\ UNCHANGED <<state, cur, canceled, closed, gauge, caller>>

\* The step's context is over.
StepStopped(g) == run[g].expired \/ g \in canceled

\* What a handler that returns its context's error ends up returning: runStep
\* turns "canceled" into the deadline when that is what canceled it.
ContextErr(g) == IF run[g].expired THEN "deadline" ELSE "canceled"

HandlerReturns(g, ret) ==
  /\ At(g, "handler")
  /\ run' = [run EXCEPT ![g].pc = "returned", ![g].ret = ret]
  /\ UNCHANGED <<state, cur, canceled, closed, gauge, caller>>

\* The handler gives up because its context is over.
ReturnStopped(g) ==
  /\ At(g, "handler")
  /\ StepStopped(g)
  /\ HandlerReturns(g, [NoReturn EXCEPT !.kind = "err", !.err = ContextErr(g)])

\* The handler returns of its own accord, whatever its context says.
ReturnFreely(g) ==
  \/ HandlerReturns(g, NoReturn)
  \/ HandlerReturns(g, [NoReturn EXCEPT !.kind = "err", !.err = "failure"])
  \/ \E to \in Targets \cup {Unknown} :
       HandlerReturns(g, [NoReturn EXCEPT !.kind = "goto", !.to = to])

\* Mutant: one retry too many.
MayRetryOnceMore(g) == run[g].attempt <= Def[run[g].step].retry + 1

\* The attempts so far leave another one.
MayRetry(g) == run[g].attempt <= Def[run[g].step].retry

\* The switch over what the handler returned.
Decide(g) ==
  LET r == run[g]
      d == Def[r.step]
  IN
  /\ At(g, "returned")
  /\ \/ /\ r.ret.kind = "goto" /\ r.ret.to = Unknown
        /\ Finish(g, "failed", "nosuchstep")
     \/ /\ r.ret.kind = "goto" /\ r.ret.to # Unknown
        /\ Move(g, r.ret.to, NoErr)
        /\ UNCHANGED state
     \/ /\ r.ret.kind = "nil"
        /\ Move(g, d.next, NoErr)
        /\ UNCHANGED state
     \/ /\ r.ret.kind = "err" /\ g \in canceled
        /\ Finish(g, "canceled", NoErr)
     \/ /\ r.ret.kind = "err" /\ g \notin canceled /\ MayRetry(g)
        /\ run' = [run EXCEPT ![g].pc = IF d.backoff THEN "backoff" ELSE "loop",
                              ![g].attempt = @ + 1, ![g].cause = NoErr,
                              ![g].expired = FALSE, ![g].ret = NoReturn]
        /\ UNCHANGED state
     \/ /\ r.ret.kind = "err" /\ g \notin canceled /\ ~MayRetry(g)
        /\ d.fail # NoBranch
        /\ state' = [state EXCEPT !.err = r.ret.err]
        /\ Move(g, d.fail, r.ret.err)
     \/ /\ r.ret.kind = "err" /\ g \notin canceled /\ ~MayRetry(g)
        /\ d.fail = NoBranch
        /\ Finish(g, "failed", r.ret.err)
  /\ UNCHANGED <<cur, canceled, closed, gauge, caller>>

\* Mutant: an interrupted sleep is taken for a cancel.
BackoffGivesUp(g) ==
  /\ At(g, "backoff")
  /\ \/ run' = [run EXCEPT ![g].pc = "loop"] /\ UNCHANGED state
     \/ Finish(g, "canceled", NoErr)
  /\ UNCHANGED <<cur, canceled, closed, gauge, caller>>

\* sleepCtx before a retry: when both are ready, select takes either.
Backoff(g) ==
  /\ At(g, "backoff")
  /\ \/ run' = [run EXCEPT ![g].pc = "loop"] /\ UNCHANGED state
     \/ g \in canceled /\ Finish(g, "canceled", NoErr)
  /\ UNCHANGED <<cur, canceled, closed, gauge, caller>>

\* Mutant: the gauge is forgotten.
ClearGaugeNever(g) ==
  /\ At(g, "finish")
  /\ run' = [run EXCEPT ![g].pc = "close"]
  /\ UNCHANGED <<state, cur, canceled, closed, gauge, caller>>

\* finish, after its unlock.
ClearGauge(g) ==
  /\ At(g, "finish")
  /\ gauge' = 0
  /\ run' = [run EXCEPT ![g].pc = "close"]
  /\ UNCHANGED <<state, cur, canceled, closed, caller>>

\* Mutant: close(r.done), whatever run that belongs to by now.
CloseCurrent(g) ==
  /\ At(g, "close")
  /\ closed' = closed \cup {cur}
  /\ run' = [run EXCEPT ![g].pc = "gone"]
  /\ UNCHANGED <<state, cur, canceled, gauge, caller>>

\* defer close(done).
CloseDone(g) ==
  /\ At(g, "close")
  /\ closed' = closed \cup {g}
  /\ run' = [run EXCEPT ![g].pc = "gone"]
  /\ UNCHANGED <<state, cur, canceled, gauge, caller>>

-----------------------------------------------------------------------------
CallerNext(c) ==
  \/ \E op \in Ops : Call(c, op)
  \/ StopCancel(c) \/ StopDone(c) \/ StopGrace(c)
  \/ StartRun(c) \/ SpawnRun(c)

RunNext(g) ==
  \/ Loop(g) \/ Enter(g) \/ Expire(g)
  \/ ReturnStopped(g) \/ ReturnFreely(g)
  \/ Decide(g) \/ Backoff(g) \/ ClearGauge(g) \/ CloseDone(g)

Next == (\E c \in Callers : CallerNext(c)) \/ (\E g \in 1..cur : RunNext(g))

Spec == Init /\ [][Next]_vars

-----------------------------------------------------------------------------
(* Properties.                                                               *)

\* r.state has one writer: the goroutine of the current run, and only while
\* the mission is running.  A run that outlived its stop (its step ignored the
\* context) can therefore never overwrite what a later start_ recorded.
SingleWriter ==
  /\ \A g \in 1..cur :
       run[g].pc \in Writing => g = cur /\ state.status = "running"
  /\ state.status = "running" => cur > 0 /\ run[cur].pc \in Writing

\* Done() returns "a channel closed when the mission reaches a terminal
\* state": while the current channel is closed the status is terminal.
DoneMeansTerminal == cur \in closed => state.status \in Terminal

\* What is recorded of the mission belongs to its current run: one writer while
\* it runs, and an end recorded before anybody waiting for it is let go.
RecordIsOwned == TypeOK /\ SingleWriter /\ DoneMeansTerminal

\* Cancel: "no further step is entered".  The loop checks the context before
\* it enters a step and not while it does, so one step at most slips in.
AtMostOneLateStep == \A g \in 1..cur : run[g].late <= 1

\* retry is the number of re-runs: no entry of a step, retries and backoff
\* included, hands its handler more than retry + 1 attempts.
AttemptsBounded ==
  \A g \in 1..cur :
    run[g].pc \in {"enter", "handler", "returned"} =>
      run[g].attempt <= Def[run[g].step].retry + 1

\* Once the gauge update of every finished run has landed, a mission that is not
\* running does not report that it is.
GaugeSettlesLow ==
  (state.status # "running" /\ \A g \in 1..cur : run[g].pc # "finish")
    => gauge = 0

\* A terminal state stands until the next start_: no late step, retry, timeout
\* or second stop changes what Status, Step and Err report.
TerminalStands ==
  [][state.status \in Terminal /\ state' # state => cur' = cur + 1]_vars

Life == INSTANCE MissionLife WITH
          status <- state.status, gen <- cur, asked <- cur \in canceled

\* The runner implements the life cycle MissionLife promises.
ImplementsLife == Life!Spec

\* The inductive invariant behind them.  At most one caller is between the
\* unlock of start_ and its go statement, and the run it is about to spawn is
\* its own; a closed done channel belongs to a goroutine that is gone; the loop
\* variables name a declared step wherever a step is being entered or run; and
\* a run that has entered a step since it was canceled is not about to enter
\* another.
SpawnerOwnsRun ==
  /\ \A c \in Callers :
       caller[c].pc = "gauge" =>
         caller[c].gen \in 1..cur /\ run[caller[c].gen].pc = "spawn"
  /\ \A c, d \in Callers :
       caller[c].pc = "gauge" /\ caller[d].pc = "gauge" => c = d

ClosedIsGone == \A g \in closed : run[g].pc = "gone"

IdleIsFirst == state.status = "idle" => cur = 0

InStep == {"enter", "handler", "returned", "backoff"}

LoopVariables ==
  \A g \in 1..cur :
    /\ run[g].pc \in InStep => run[g].step \in Steps
    /\ run[g].step \in Steps => run[g].attempt <= Def[run[g].step].retry + 1

LateIsCanceled ==
  \A g \in 1..cur :
    /\ run[g].late <= 1
    /\ run[g].late > 0 => g \in canceled /\ run[g].pc # "enter"

IInv ==
  /\ TypeOK
  /\ SingleWriter
  /\ SpawnerOwnsRun
  /\ ClosedIsGone
  /\ IdleIsFirst
  /\ LoopVariables
  /\ LateIsCanceled
  /\ GaugeSettlesLow

-----------------------------------------------------------------------------
(* What a comment in mission.go says and the code does not do.               *)

\* "Restart cancels the mission if it is running and starts it again from the
\* start step": a Restart that returns has started a run later than the one it
\* canceled.
RestartStarts ==
  [][\A c \in Callers :
       (/\ caller[c].op = "Restart"
        /\ caller[c].pc = "start"
        /\ caller'[c].pc = "idle") => cur' > caller[c].gen]_vars
=============================================================================
