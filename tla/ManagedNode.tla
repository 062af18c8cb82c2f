---------------------------- MODULE ManagedNode ----------------------------
(***************************************************************************)
(* One node of a running application: its lifecycle (lifecycle.go), its    *)
(* executor and mailbox (node.go), and the four sources of work that feed  *)
(* the mailbox: lifecycle hooks, a timer (timer.go), a subscription        *)
(* (sub.go) and a service (svc.go).                                        *)
(*                                                                         *)
(* transition holds l.mu only to move the state; it is called on a fresh   *)
(* goroutine for every change_state request, and by the application's own  *)
(* bringup and shutdown.  The executor runs one job at a time.  Everything *)
(* else is on goroutines of its own: the timer, the transport delivering a *)
(* message, the caller of a service.                                       *)
(***************************************************************************)
EXTENDS LifecycleTable, Integers, Sequences, FiniteSets

CONSTANTS
  Threads,    \* goroutines that drive transitions
  Hooked,     \* the transitions the node implements a hook for
  Cap,        \* capacity of the mailbox (64 in the code)
  Latched,    \* the subscription is transient-local
  MaxMsgs,    \* bound: how many messages are published to it
  HasTimer    \* the node declares a timer

ASSUME NodeAssumption ==
  Cap \in Nat \ {0} /\ MaxMsgs \in Nat /\ Latched \in BOOLEAN /\ HasTimer \in BOOLEAN

Intermediate == {"Configuring", "CleaningUp", "Activating", "Deactivating", "ShuttingDown"}

ASSUME HookAssumption == Hooked \subseteq Transitions
ASSUME OwnerAssumption == Threads \cap {"nobody", "client"} = {}

intermediateState(t) ==
  CASE t = "configure"  -> "Configuring"
    [] t = "cleanup"    -> "CleaningUp"
    [] t = "activate"   -> "Activating"
    [] t = "deactivate" -> "Deactivating"
    [] OTHER            -> "ShuttingDown"

VARIABLES
  state,      \* l.state, guarded by l.mu
  thread,     \* thread |-> its transition: pc, row of the table, hook result, held message
  stateGauge, \* conductor_node_lifecycle_state
  mailbox,    \* the executor's queue of jobs
  exec,       \* the job the executor is running
  execDone,   \* the executor has returned
  quit,       \* nr.quit is closed
  timer,      \* the timer goroutine
  sent,       \* how many messages the topic has carried
  deliver,    \* message |-> the transport's delivery of it, on whichever goroutine
  pending,    \* the latched message held for activation (0: none)
  handled,    \* history: the messages the handler was invoked with
  client      \* a caller of the node's service

vars == <<state, thread, stateGauge, mailbox, exec, execDone, quit, timer, sent,
          deliver, pending, handled, client>>

Msgs == 1..MaxMsgs
Deliveries == {"idle", "hold", "enqueue"}

\* Jobs.  A job whose owner has stopped waiting has owner NoOwner: its result
\* goes to a channel nobody reads.
NoOwner == "nobody"
TimerJob == [kind |-> "timer", owner |-> NoOwner, msg |-> 0]
MsgJob(n) == [kind |-> "msg", owner |-> NoOwner, msg |-> n]
HookJob(th) == [kind |-> "hook", owner |-> th, msg |-> 0]
SvcJob(who) == [kind |-> "svc", owner |-> who, msg |-> 0]
NoJob == [kind |-> "none", owner |-> NoOwner, msg |-> 0]
Jobs == [kind: {"timer", "msg", "hook", "svc"}, owner: Threads \cup {NoOwner, "client"},
         msg: 0..MaxMsgs]

ThreadPcs == {"idle", "hook", "wait", "commit", "onActive", "flush", "onInactive", "report"}
ThreadState == [pc: ThreadPcs, row: transitionTable, res: {"none", "ok", "err"}, held: 0..MaxMsgs]
IdleThread == [pc |-> "idle", held |-> 0, res |-> "none",
               row |-> [from |-> "Unconfigured", t |-> "configure", goal |-> "Inactive"]]

TypeOK ==
  /\ state \in Primary \cup Intermediate
  /\ thread \in [Threads -> ThreadState]
  /\ stateGauge \in Primary
  /\ mailbox \in Seq(Jobs) /\ Len(mailbox) <= Cap
  /\ exec \in Jobs \cup {NoJob}
  /\ execDone \in BOOLEAN /\ quit \in BOOLEAN
  /\ timer \in {"idle", "fire", "stopped"}
  /\ sent \in 0..MaxMsgs
  /\ deliver \in [Msgs -> Deliveries]
  /\ pending \in 0..MaxMsgs
  /\ handled \in Seq(Msgs)
  /\ client \in {"idle", "wait", "answered"}

\* A node is declared unconfigured; the gauge is first stored by a transition.
Init ==
  /\ state = "Unconfigured"
  /\ thread = [th \in Threads |-> IdleThread]
  /\ stateGauge = "Unconfigured"
  /\ mailbox = <<>> /\ exec = NoJob /\ execDone = FALSE /\ quit = FALSE
  /\ timer = IF HasTimer THEN "idle" ELSE "stopped"
  /\ sent = 0 /\ deliver = [m \in Msgs |-> "idle"] /\ pending = 0 /\ handled = <<>>
  /\ client = "idle"

active == state = "Active"

-----------------------------------------------------------------------------
(* enqueue: a select over a closed quit, room in the mailbox, and a default. *)

Accepted(job) == Len(mailbox) < Cap /\ mailbox' = Append(mailbox, job)
Refused == (quit \/ Len(mailbox) = Cap) /\ UNCHANGED mailbox

-----------------------------------------------------------------------------
(* transition, on thread th.                                                 *)

workVars == <<exec, execDone, quit, timer, sent, deliver, handled, client>>

\* Mutant: the state is not moved to an intermediate one.
BeginUnmarked(th, row) ==
  /\ thread[th].pc = "idle"
  /\ row \in transitionTable
  /\ row.from = state
  /\ thread' = [thread EXCEPT ![th] = [IdleThread EXCEPT !.pc = "hook", !.row = row]]
  /\ UNCHANGED <<state, stateGauge, mailbox, pending, workVars>>

\* Take the lock, look the transition up, move to its intermediate state.  A
\* transition that is not in the table is refused and changes nothing.
Begin(th, row) ==
  /\ thread[th].pc = "idle"
  /\ row \in transitionTable
  /\ row.from = state
  /\ state' = intermediateState(row.t)
  /\ thread' = [thread EXCEPT ![th] = [IdleThread EXCEPT !.pc = "hook", !.row = row]]
  /\ UNCHANGED <<stateGauge, mailbox, pending, workVars>>

\* runHook up to its wait: no hook, a job in the mailbox, or no room for one.
RunHook(th) ==
  /\ thread[th].pc = "hook"
  /\ \/ /\ thread[th].row.t \notin Hooked
        /\ thread' = [thread EXCEPT ![th].pc = "commit", ![th].res = "ok"]
        /\ UNCHANGED mailbox
     \/ /\ thread[th].row.t \in Hooked
        /\ Accepted(HookJob(th))
        /\ thread' = [thread EXCEPT ![th].pc = "wait"]
     \/ /\ thread[th].row.t \in Hooked
        /\ Refused
        /\ thread' = [thread EXCEPT ![th].pc = "commit", ![th].res = "err"]
  /\ UNCHANGED <<state, stateGauge, pending, workVars>>

\* Mutant: the result channel has no room, so the job still finds its owner.
AbandonLater(who) == UNCHANGED <<mailbox, exec>>

\* Nobody waits for the jobs of who any longer.
Abandon(who) ==
  /\ mailbox' = [i \in 1..Len(mailbox) |->
                   IF mailbox[i].owner = who THEN [mailbox[i] EXCEPT !.owner = NoOwner]
                                             ELSE mailbox[i]]
  /\ exec' = IF exec.owner = who THEN [exec EXCEPT !.owner = NoOwner] ELSE exec

\* Mutant: runHook does not watch quit.
HookReturnedOnly(th) ==
  /\ thread[th].pc = "wait"
  /\ thread[th].res # "none"
  /\ thread' = [thread EXCEPT ![th].pc = "commit"]
  /\ UNCHANGED <<state, stateGauge, mailbox, pending, workVars>>

\* runHook: the hook's answer, or the node shutting down.
HookReturned(th) ==
  /\ thread[th].pc = "wait"
  /\ \/ /\ thread[th].res # "none"
        /\ thread' = [thread EXCEPT ![th].pc = "commit"]
        /\ UNCHANGED <<mailbox, exec>>
     \/ /\ quit
        /\ thread' = [thread EXCEPT ![th].pc = "commit", ![th].res = "err"]
        /\ Abandon(th)
  /\ UNCHANGED <<state, stateGauge, pending, execDone, quit, timer, sent, deliver,
                 handled, client>>

\* Mutants: a failed transition always falls back to Unconfigured; only
\* deactivate runs onInactive.
CommitFallsBack(th) ==
  LET row == thread[th].row IN
  /\ thread[th].pc = "commit"
  /\ \/ /\ thread[th].res = "err"
        /\ state' = "Unconfigured"
        /\ thread' = [thread EXCEPT ![th] = IdleThread]
     \/ /\ thread[th].res = "ok"
        /\ state' = row.goal
        /\ thread' = [thread EXCEPT ![th].pc =
                        IF row.goal = "Active" THEN "onActive"
                        ELSE IF row.from = "Active" THEN "onInactive" ELSE "report"]
  /\ UNCHANGED <<stateGauge, mailbox, pending, workVars>>

CommitSkipsShutdown(th) ==
  LET row == thread[th].row IN
  /\ thread[th].pc = "commit"
  /\ \/ /\ thread[th].res = "err"
        /\ state' = row.from
        /\ thread' = [thread EXCEPT ![th] = IdleThread]
     \/ /\ thread[th].res = "ok"
        /\ state' = row.goal
        /\ thread' = [thread EXCEPT ![th].pc =
                        IF row.goal = "Active" THEN "onActive"
                        ELSE IF row.t = "deactivate" THEN "onInactive" ELSE "report"]
  /\ UNCHANGED <<stateGauge, mailbox, pending, workVars>>

\* Take the lock again: the goal, or back to where the transition came from.
Commit(th) ==
  LET row == thread[th].row IN
  /\ thread[th].pc = "commit"
  /\ \/ /\ thread[th].res = "err"
        /\ state' = row.from
        /\ thread' = [thread EXCEPT ![th] = IdleThread]
     \/ /\ thread[th].res = "ok"
        /\ state' = row.goal
        /\ thread' = [thread EXCEPT ![th].pc =
                        IF row.goal = "Active" THEN "onActive"
                        ELSE IF row.from = "Active" THEN "onInactive" ELSE "report"]
  /\ UNCHANGED <<stateGauge, mailbox, pending, workVars>>

\* Mutant: the held message stays where it was.
OnActiveKeeps(th) ==
  /\ thread[th].pc = "onActive"
  /\ thread' = [thread EXCEPT ![th].pc = "flush", ![th].held = pending]
  /\ UNCHANGED <<state, stateGauge, mailbox, pending, workVars>>

\* onActive, outside the lock: take the held message, then enqueue it.
OnActive(th) ==
  /\ thread[th].pc = "onActive"
  /\ thread' = [thread EXCEPT ![th].pc = "flush", ![th].held = pending]
  /\ pending' = 0
  /\ UNCHANGED <<state, stateGauge, mailbox, workVars>>

Flush(th) ==
  /\ thread[th].pc = "flush"
  /\ \/ thread[th].held = 0 /\ UNCHANGED mailbox
     \/ thread[th].held # 0 /\ (Accepted(MsgJob(thread[th].held)) \/ Refused)
  /\ thread' = [thread EXCEPT ![th].pc = "report", ![th].held = 0]
  /\ UNCHANGED <<state, stateGauge, pending, workVars>>

\* onInactive, outside the lock: it stops the node's mission, if it has one.
OnInactive(th) ==
  /\ thread[th].pc = "onInactive"
  /\ thread' = [thread EXCEPT ![th].pc = "report"]
  /\ UNCHANGED <<state, stateGauge, mailbox, pending, workVars>>

\* Store the gauge, publish the event and return.
Report(th) ==
  /\ thread[th].pc = "report"
  /\ stateGauge' = thread[th].row.goal
  /\ thread' = [thread EXCEPT ![th] = IdleThread]
  /\ UNCHANGED <<state, mailbox, pending, workVars>>

-----------------------------------------------------------------------------
(* The executor.                                                             *)

lifecycleVars == <<state, stateGauge, pending, timer, sent, deliver>>

\* Mutant: a message's job does not look at the state again.
TakeUnchecked ==
  /\ ~execDone /\ exec = NoJob /\ mailbox # <<>>
  /\ mailbox' = Tail(mailbox)
  /\ exec' = Head(mailbox)
  /\ handled' = IF Head(mailbox).kind = "msg" THEN Append(handled, Head(mailbox).msg)
                                             ELSE handled
  /\ UNCHANGED <<lifecycleVars, thread, client, execDone, quit>>

\* Take a job and start it.  A message's job checks the state before it calls
\* the handler; a timer's does not.
Take ==
  LET job == Head(mailbox)
      runs == job.kind = "msg" => active
  IN
  /\ ~execDone /\ exec = NoJob /\ mailbox # <<>>
  /\ mailbox' = Tail(mailbox)
  /\ exec' = IF runs THEN job ELSE NoJob
  /\ handled' = IF runs /\ job.kind = "msg" THEN Append(handled, job.msg) ELSE handled
  /\ UNCHANGED <<lifecycleVars, thread, client, execDone, quit>>

\* The callback returns; a hook or a service hands its result to its owner.
Finish ==
  /\ exec # NoJob
  /\ exec' = NoJob
  /\ IF exec.owner \in Threads
     THEN \E res \in {"ok", "err"} : thread' = [thread EXCEPT ![exec.owner].res = res]
     ELSE UNCHANGED thread
  /\ client' = IF exec.owner = "client" THEN "answered" ELSE client
  /\ UNCHANGED <<lifecycleVars, mailbox, execDone, quit, handled>>

\* The executor sees quit between two jobs, whatever the mailbox still holds.
ExecQuit ==
  /\ quit /\ ~execDone /\ exec = NoJob
  /\ execDone' = TRUE
  /\ UNCHANGED <<lifecycleVars, thread, client, exec, mailbox, quit, handled>>

-----------------------------------------------------------------------------
(* The sources of work.                                                      *)

nodeVars == <<state, thread, stateGauge, exec, execDone, quit, handled>>

\* A tick: the timer looks at the state, then enqueues the callback.
Tick ==
  /\ timer = "idle"
  /\ active
  /\ timer' = "fire"
  /\ UNCHANGED <<nodeVars, mailbox, pending, sent, deliver, client>>

Fire ==
  /\ timer = "fire"
  /\ Accepted(TimerJob) \/ Refused
  /\ timer' = "idle"
  /\ UNCHANGED <<nodeVars, pending, sent, deliver, client>>

\* A message arrives: the subscription looks at the state.  Publishers and the
\* transport deliver on goroutines of their own, so a second message may arrive
\* before the first is held or enqueued, and overtake it.
Arrive ==
  /\ sent < MaxMsgs
  /\ sent' = sent + 1
  /\ deliver' = [deliver EXCEPT ![sent + 1] =
                   IF active THEN "enqueue" ELSE IF Latched THEN "hold" ELSE "idle"]
  /\ UNCHANGED <<nodeVars, mailbox, pending, timer, client>>

\* Then it is held, in place of the one held before,
Hold(m) ==
  /\ deliver[m] = "hold"
  /\ pending' = m
  /\ deliver' = [deliver EXCEPT ![m] = "idle"]
  /\ UNCHANGED <<nodeVars, mailbox, timer, sent, client>>

\* or its handler is enqueued.
EnqueueMsg(m) ==
  /\ deliver[m] = "enqueue"
  /\ Accepted(MsgJob(m)) \/ Refused
  /\ deliver' = [deliver EXCEPT ![m] = "idle"]
  /\ UNCHANGED <<nodeVars, pending, timer, sent, client>>

\* A request is refused, or accepted and waited for.
Request ==
  /\ client = "idle"
  /\ \/ Accepted(SvcJob("client")) /\ client' = "wait"
     \/ Refused /\ client' = "idle"
  /\ UNCHANGED <<nodeVars, pending, timer, sent, deliver>>

\* The caller gets the answer, or the node shuts down under it.
Respond ==
  /\ \/ client = "answered" /\ UNCHANGED <<mailbox, exec>>
     \/ client = "wait" /\ quit /\ Abandon("client")
  /\ client' = "idle"
  /\ UNCHANGED <<state, thread, stateGauge, execDone, quit, handled,
                 pending, timer, sent, deliver>>

\* app.stop, after its shutdown transitions: the timers, then the executor.  It
\* goes on when those fail or find another thread's transition under way, so it
\* may find the node in any state.
StopTimer ==
  /\ timer = "idle"
  /\ timer' = "stopped"
  /\ UNCHANGED <<nodeVars, mailbox, pending, sent, deliver, client>>

CloseQuit ==
  /\ timer = "stopped" /\ ~quit
  /\ quit' = TRUE
  /\ UNCHANGED <<state, thread, stateGauge, exec, execDone, handled,
                 mailbox, pending, timer, sent, deliver, client>>

-----------------------------------------------------------------------------
ThreadStep(th) ==
  \/ RunHook(th) \/ HookReturned(th) \/ Commit(th) \/ OnActive(th) \/ Flush(th)
  \/ OnInactive(th) \/ Report(th)

Next ==
  \/ \E th \in Threads : (\E row \in transitionTable : Begin(th, row)) \/ ThreadStep(th)
  \/ Take \/ Finish \/ ExecQuit
  \/ Tick \/ Fire \/ Arrive
  \/ \E m \in Msgs : Hold(m) \/ EnqueueMsg(m)
  \/ Request \/ Respond
  \/ StopTimer \/ CloseQuit

Spec == Init /\ [][Next]_vars

-----------------------------------------------------------------------------
(* Properties.                                                               *)

\* The threads between the two critical sections of transition.
Busy == {th \in Threads : thread[th].pc \in {"hook", "wait", "commit"}}

\* Transitions exclude one another although the lock is dropped while the hook
\* runs: while the state is an intermediate one exactly one thread is between
\* its critical sections, and the state is that of its transition (and all of it
\* is of its type, the mailbox within its capacity).
OneTransition ==
  /\ TypeOK
  /\ state \in Primary => Busy = {}
  /\ state \in Intermediate =>
       \E th \in Busy : Busy = {th} /\ state = intermediateState(thread[th].row.t)

\* The primary state as an outsider sees it: a transition under way has not
\* happened yet.
Settled ==
  IF state \in Primary THEN state ELSE thread[CHOOSE th \in Busy : TRUE].row.from

Life == INSTANCE LifecycleLife WITH primary <- Settled

\* Whatever fails, is refused or is cut short by quit, the node moves along the
\* managed-node design's arcs and a failed transition leaves no trace.
ImplementsLife == Life!Spec

\* A hook's or a service's result is handed to the transition or the caller
\* that enqueued it and to no other: each waits as long as its job is in the
\* mailbox or running and has its answer as soon as the job is over, unless it
\* gave up on a node that is shutting down.
JobsOf(who) ==
  Cardinality({i \in 1..Len(mailbox) : mailbox[i].owner = who})
    + (IF exec.owner = who THEN 1 ELSE 0)

JobsAnswerTheirOwner ==
  /\ \A th \in Threads :
       JobsOf(th) = IF thread[th].pc = "wait" /\ thread[th].res = "none" THEN 1 ELSE 0
  /\ JobsOf("client") = IF client = "wait" THEN 1 ELSE 0

\* "Inactive nodes do not process messages": where the node has hooks for
\* leaving Active, the executor orders them behind the messages it accepted, so
\* no message handler is running once such a transition has taken effect.
LeavingHooks == {"deactivate", "activeShutdown"}

QuietWhenInactive ==
  LeavingHooks \subseteq Hooked =>
    (exec.kind = "msg" => state \in {"Active", "Deactivating", "ShuttingDown"})

\* A message is handled once: holding it for activation, enqueuing it and
\* flushing it never make two copies, over any number of activations.
HandledOnce == \A i, j \in 1..Len(handled) : i # j => handled[i] # handled[j]

\* The strengthening under which these hold step by step.

\* The messages whose delivery is under way.
OnTheWay == {m \in Msgs : deliver[m] # "idle"}

\* A message's job is nobody's, a message is delivered once it is sent, and a
\* thread that is about to run its hook has no result yet.
WellFormed ==
  /\ \A i \in 1..Len(mailbox) : mailbox[i].kind = "msg" => mailbox[i].owner = NoOwner
  /\ exec.kind = "msg" => exec.owner = NoOwner
  /\ OnTheWay \subseteq 1..sent
  /\ \A th \in Threads : thread[th].pc = "hook" => thread[th].res = "none"

\* Whoever waits has one job, in the mailbox or running; nobody else has any.
Waiting ==
  {th \in Threads : thread[th].pc = "wait" /\ thread[th].res = "none"}
    \cup (IF client = "wait" THEN {"client"} ELSE {})
QueuedFor == {mailbox[i].owner : i \in 1..Len(mailbox)}

OneJobEach ==
  /\ (QueuedFor \cup {exec.owner}) \ {NoOwner} = Waiting
  /\ exec.owner # NoOwner => exec.owner \notin QueuedFor
  /\ \A i, j \in 1..Len(mailbox) :
       mailbox[i].owner = mailbox[j].owner /\ mailbox[i].owner # NoOwner => i = j

\* A message whose handler runs on a node that is being left holds the hook up.
HeldUp ==
  LeavingHooks \subseteq Hooked /\ exec.kind = "msg" =>
    state = "Active" \/ \E th \in Busy : thread[th].row.from = "Active" /\ thread[th].res # "ok"

\* A message is in one place: on its way, held for activation, taken by a flush,
\* in the mailbox or handled.
Queued == {mailbox[i].msg : i \in {k \in 1..Len(mailbox) : mailbox[k].kind = "msg"}}
Handled == {handled[i] : i \in 1..Len(handled)}

QueuedOnce ==
  \A i, j \in 1..Len(mailbox) :
    mailbox[i].kind = "msg" /\ mailbox[j].kind = "msg" /\ mailbox[i].msg = mailbox[j].msg => i = j

OnePlace ==
  /\ HandledOnce /\ QueuedOnce
  /\ Queued \cap Handled = {} /\ Queued \cup Handled \subseteq 1..sent
  /\ pending <= sent /\ pending \notin Queued \cup Handled
  /\ \A th \in Threads :
       /\ thread[th].held <= sent /\ thread[th].held \notin Queued \cup Handled
       /\ thread[th].held # 0 =>
            /\ thread[th].held # pending
            /\ \A other \in Threads \ {th} : thread[other].held # thread[th].held
  /\ \A m \in OnTheWay :
       /\ m \notin Queued \cup Handled /\ pending # m
       /\ \A th \in Threads : thread[th].held # m

IInv == OneTransition /\ WellFormed /\ OneJobEach /\ HeldUp /\ OnePlace

\* No transition hangs: hook refused, failed, or abandoned by a shutdown.
TransitionReturns == \A th \in Threads : (thread[th].pc # "idle") ~> (thread[th].pc = "idle")

-----------------------------------------------------------------------------
(* What a comment says and the code does not do.                           *)

\* "While a node is not active its timers do not fire": the callback of a timer
\* does not run on a node that has left Active through its hook.
TimersOnlyWhileActive ==
  LeavingHooks \subseteq Hooked =>
    (exec.kind = "timer" => state \in {"Active", "Deactivating", "ShuttingDown"})
=============================================================================
