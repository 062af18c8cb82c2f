----------------------------- MODULE NodeProofs -----------------------------
(***************************************************************************)
(* What holds of a managed node for any number of goroutines driving its   *)
(* transitions, any hooks, any mailbox capacity and any number of messages. *)
(***************************************************************************)
EXTENDS ManagedNode, TLAPS, SequenceTheorems, FiniteSetTheorems

\* What the table says of a row: it leaves one primary state for another, and
\* only the leaving transitions leave Active.
LEMMA RowFacts ==
  ASSUME NEW row \in transitionTable
  PROVE  /\ row.from \in Primary /\ row.goal \in Primary /\ row.t \in Transitions
         /\ intermediateState(row.t) \in Intermediate
         /\ row.from = "Active" => row.t \in LeavingHooks
         /\ <<row.from, row.goal>> \in Life!Arcs
  BY DEF transitionTable, Primary, Transitions, intermediateState, Intermediate, LeavingHooks,
         Life!Arcs

LEMMA StatesDisjoint == Primary \cap Intermediate = {}
  BY DEF Primary, Intermediate

LEMMA ThreadFields ==
  ASSUME TypeOK, NEW th \in Threads
  PROVE  /\ thread[th] \in ThreadState
         /\ thread[th].pc \in ThreadPcs /\ thread[th].row \in transitionTable
         /\ thread[th].res \in {"none", "ok", "err"} /\ thread[th].held \in 0..MaxMsgs
         /\ DOMAIN thread = Threads
  BY DEF TypeOK, ThreadState

LEMMA IdleType ==
  /\ IdleThread \in ThreadState
  /\ IdleThread.pc = "idle" /\ IdleThread.held = 0 /\ IdleThread.res = "none"
  BY NodeAssumption DEF IdleThread, ThreadState, ThreadPcs, transitionTable

LEMMA JobTypes ==
  /\ TimerJob \in Jobs
  /\ \A n \in 0..MaxMsgs : MsgJob(n) \in Jobs
  /\ \A th \in Threads : HookJob(th) \in Jobs
  /\ SvcJob("client") \in Jobs
  /\ \A j \in Jobs : /\ j.kind \in {"timer", "msg", "hook", "svc"} /\ j # NoJob
                     /\ j.owner \in Threads \cup {NoOwner, "client"} /\ j.msg \in 0..MaxMsgs
  BY NodeAssumption DEF Jobs, TimerJob, MsgJob, HookJob, SvcJob, NoJob

\* The owners are told apart.
LEMMA Owners == NoOwner \notin Threads \cup {"client"} /\ "client" \notin Threads
  BY OwnerAssumption DEF NoOwner

-----------------------------------------------------------------------------
(* What happens to a thread.                                                 *)

LEMMA ThreadBecomes ==
  ASSUME TypeOK, NEW th \in Threads, NEW u \in ThreadState, thread' = [thread EXCEPT ![th] = u]
  PROVE  /\ thread' \in [Threads -> ThreadState] /\ thread'[th] = u
         /\ \A o \in Threads \ {th} : thread'[o] = thread[o]
  BY DEF TypeOK

LEMMA PcMoves ==
  ASSUME TypeOK, NEW th \in Threads, NEW p \in ThreadPcs, thread' = [thread EXCEPT ![th].pc = p]
  PROVE  /\ thread' \in [Threads -> ThreadState]
         /\ thread'[th].pc = p /\ thread'[th].row = thread[th].row
         /\ thread'[th].res = thread[th].res /\ thread'[th].held = thread[th].held
         /\ \A o \in Threads \ {th} : thread'[o] = thread[o]
<1> DEFINE u == [thread[th] EXCEPT !.pc = p]
<1>1. /\ u \in ThreadState /\ u.pc = p /\ u.row = thread[th].row
      /\ u.res = thread[th].res /\ u.held = thread[th].held
  BY ThreadFields DEF ThreadState
<1>2. thread' = [thread EXCEPT ![th] = u]
  OBVIOUS
<1> HIDE DEF u
<1> QED
  BY <1>1, <1>2, ThreadBecomes

LEMMA ResMoves ==
  ASSUME TypeOK, NEW th \in Threads, NEW r \in {"none", "ok", "err"},
         thread' = [thread EXCEPT ![th].res = r]
  PROVE  /\ thread' \in [Threads -> ThreadState]
         /\ thread'[th].pc = thread[th].pc /\ thread'[th].row = thread[th].row
         /\ thread'[th].res = r /\ thread'[th].held = thread[th].held
         /\ \A o \in Threads \ {th} : thread'[o] = thread[o]
<1> DEFINE u == [thread[th] EXCEPT !.res = r]
<1>1. /\ u \in ThreadState /\ u.pc = thread[th].pc /\ u.row = thread[th].row
      /\ u.res = r /\ u.held = thread[th].held
  BY ThreadFields DEF ThreadState
<1>2. thread' = [thread EXCEPT ![th] = u]
  OBVIOUS
<1> HIDE DEF u
<1> QED
  BY <1>1, <1>2, ThreadBecomes

LEMMA PcResMove ==
  ASSUME TypeOK, NEW th \in Threads, NEW p \in ThreadPcs, NEW r \in {"none", "ok", "err"},
         thread' = [thread EXCEPT ![th].pc = p, ![th].res = r]
  PROVE  /\ thread' \in [Threads -> ThreadState]
         /\ thread'[th].pc = p /\ thread'[th].row = thread[th].row
         /\ thread'[th].res = r /\ thread'[th].held = thread[th].held
         /\ \A o \in Threads \ {th} : thread'[o] = thread[o]
<1> DEFINE u == [thread[th] EXCEPT !.pc = p, !.res = r]
<1>1. /\ u \in ThreadState /\ u.pc = p /\ u.row = thread[th].row
      /\ u.res = r /\ u.held = thread[th].held
  BY ThreadFields DEF ThreadState
<1>2. thread' = [thread EXCEPT ![th] = u]
  BY DEF TypeOK
<1> HIDE DEF u
<1> QED
  BY <1>1, <1>2, ThreadBecomes

LEMMA PcHeldMove ==
  ASSUME TypeOK, NEW th \in Threads, NEW p \in ThreadPcs, NEW h \in 0..MaxMsgs,
         thread' = [thread EXCEPT ![th].pc = p, ![th].held = h]
  PROVE  /\ thread' \in [Threads -> ThreadState]
         /\ thread'[th].pc = p /\ thread'[th].row = thread[th].row
         /\ thread'[th].res = thread[th].res /\ thread'[th].held = h
         /\ \A o \in Threads \ {th} : thread'[o] = thread[o]
<1> DEFINE u == [thread[th] EXCEPT !.pc = p, !.held = h]
<1>1. /\ u \in ThreadState /\ u.pc = p /\ u.row = thread[th].row
      /\ u.res = thread[th].res /\ u.held = h
  BY ThreadFields DEF ThreadState
<1>2. thread' = [thread EXCEPT ![th] = u]
  BY DEF TypeOK
<1> HIDE DEF u
<1> QED
  BY <1>1, <1>2, ThreadBecomes

-----------------------------------------------------------------------------
(* The three things that happen to the mailbox.                              *)

LEMMA JobAppended ==
  ASSUME TypeOK, NEW job \in Jobs, Accepted(job)
  PROVE  /\ mailbox' \in Seq(Jobs) /\ Len(mailbox') <= Cap
         /\ Len(mailbox) \in Nat /\ Len(mailbox') = Len(mailbox) + 1
         /\ \A i \in 1..Len(mailbox) : mailbox'[i] = mailbox[i]
         /\ mailbox'[Len(mailbox) + 1] = job
<1>1. mailbox \in Seq(Jobs) /\ mailbox' = Append(mailbox, job) /\ Len(mailbox) < Cap
  BY DEF TypeOK, Accepted
<1>2. Len(mailbox) \in Nat /\ Cap \in Nat
  BY <1>1, LenProperties, NodeAssumption
<1> QED
  BY <1>1, <1>2, AppendProperties

LEMMA JobTaken ==
  ASSUME TypeOK, mailbox # <<>>, mailbox' = Tail(mailbox)
  PROVE  /\ mailbox' \in Seq(Jobs) /\ Len(mailbox') <= Cap
         /\ Len(mailbox) \in Nat \ {0} /\ Len(mailbox') = Len(mailbox) - 1
         /\ \A i \in 1..Len(mailbox') : mailbox'[i] = mailbox[i + 1] /\ i + 1 \in 1..Len(mailbox)
         /\ Head(mailbox) = mailbox[1] /\ Head(mailbox) \in Jobs /\ 1 \in 1..Len(mailbox)
<1>1. mailbox \in Seq(Jobs) /\ Len(mailbox) <= Cap
  BY DEF TypeOK
<1>2. Len(mailbox) \in Nat /\ Cap \in Nat /\ Len(mailbox) # 0
  BY <1>1, LenProperties, EmptySeq, NodeAssumption
<1>3. /\ Tail(mailbox) \in Seq(Jobs) /\ Len(Tail(mailbox)) = Len(mailbox) - 1
      /\ \A i \in 1..Len(Tail(mailbox)) : Tail(mailbox)[i] = mailbox[i + 1]
      /\ Head(mailbox) \in Jobs
  BY <1>1, HeadTailProperties
<1>4. Head(mailbox) = mailbox[1]
  BY <1>1, <1>2
<1> QED
  BY <1>1, <1>2, <1>3, <1>4

LEMMA JobAbandoned ==
  ASSUME TypeOK, NEW who \in Threads \cup {"client"}, Abandon(who)
  PROVE  /\ mailbox' \in Seq(Jobs) /\ Len(mailbox') <= Cap
         /\ Len(mailbox) \in Nat /\ Len(mailbox') = Len(mailbox)
         /\ \A i \in 1..Len(mailbox) :
              /\ mailbox'[i].kind = mailbox[i].kind /\ mailbox'[i].msg = mailbox[i].msg
              /\ mailbox'[i].owner = IF mailbox[i].owner = who THEN NoOwner ELSE mailbox[i].owner
         /\ exec' \in Jobs \cup {NoJob}
         /\ exec'.kind = exec.kind /\ exec'.msg = exec.msg
         /\ exec'.owner = IF exec.owner = who THEN NoOwner ELSE exec.owner
<1>1. mailbox \in Seq(Jobs) /\ Len(mailbox) <= Cap /\ exec \in Jobs \cup {NoJob}
  BY DEF TypeOK
<1>2. Len(mailbox) \in Nat /\ \A i \in 1..Len(mailbox) : mailbox[i] \in Jobs
  BY <1>1, LenProperties, ElementOfSeq
<1> DEFINE left(j) == IF j.owner = who THEN [j EXCEPT !.owner = NoOwner] ELSE j
<1>3. ASSUME NEW j \in Jobs
      PROVE  /\ left(j) \in Jobs /\ left(j).kind = j.kind /\ left(j).msg = j.msg
             /\ left(j).owner = IF j.owner = who THEN NoOwner ELSE j.owner
  BY DEF Jobs
<1>4. mailbox' = [i \in 1..Len(mailbox) |-> left(mailbox[i])]
  BY DEF Abandon
<1>5. mailbox' \in Seq(Jobs)
  <2>1. mailbox' \in [1..Len(mailbox) -> Jobs]
    BY <1>2, <1>3, <1>4
  <2> QED
    BY <1>2, <2>1
<1>6. Len(mailbox') = Len(mailbox)
  <2>1. DOMAIN mailbox' = 1..Len(mailbox)
    BY <1>4
  <2> QED
    BY <1>2, <1>5, <2>1, LenProperties
<1>7. exec' = left(exec)
  BY DEF Abandon
<1>8. NoJob.owner = NoOwner /\ NoOwner # who
  BY Owners DEF NoJob
<1> HIDE DEF left
<1>9. left(NoJob) = NoJob
  BY <1>8 DEF left
<1> QED
  BY <1>1, <1>2, <1>3, <1>4, <1>5, <1>6, <1>7, <1>8, <1>9

\* What they do to the jobs owed and to the messages queued.
LEMMA AppendedOwners ==
  ASSUME TypeOK, OneJobEach, NEW job \in Jobs, Accepted(job), job.owner \notin QueuedFor \ {NoOwner}
  PROVE  /\ QueuedFor' = QueuedFor \cup {job.owner}
         /\ \A i, j \in 1..Len(mailbox') :
              mailbox'[i].owner = mailbox'[j].owner /\ mailbox'[i].owner # NoOwner => i = j
<1> USE JobAppended
<1>1. QueuedFor' \subseteq QueuedFor \cup {job.owner}
  BY DEF QueuedFor
<1>2. QueuedFor \subseteq QueuedFor'
  BY DEF QueuedFor
<1>3. job.owner \in QueuedFor'
  BY DEF QueuedFor
<1>4. ASSUME NEW i \in 1..Len(mailbox'), NEW j \in 1..Len(mailbox'),
             mailbox'[i].owner = mailbox'[j].owner, mailbox'[i].owner # NoOwner
      PROVE  i = j
  <2>1. \A k \in 1..Len(mailbox) : mailbox[k].owner \in QueuedFor
    BY DEF QueuedFor
  <2>2. \A k \in 1..Len(mailbox') : k \in 1..Len(mailbox) \/ k = Len(mailbox) + 1
    OBVIOUS
  <2> QED
    BY <1>4, <2>1, <2>2 DEF OneJobEach
<1> QED
  BY <1>1, <1>2, <1>3, <1>4

LEMMA AppendedMessages ==
  ASSUME TypeOK, QueuedOnce, NEW job \in Jobs, Accepted(job),
         job.kind = "msg" => job.msg \notin Queued
  PROVE  /\ Queued' = Queued \cup (IF job.kind = "msg" THEN {job.msg} ELSE {})
         /\ QueuedOnce'
<1> USE JobAppended
<1>1. Queued' \subseteq Queued \cup (IF job.kind = "msg" THEN {job.msg} ELSE {})
  BY DEF Queued
<1>2. Queued \subseteq Queued'
  BY DEF Queued
<1>3. job.kind = "msg" => job.msg \in Queued'
  BY DEF Queued
<1>4. QueuedOnce'
  <2>1. \A k \in 1..Len(mailbox) : mailbox[k].kind = "msg" => mailbox[k].msg \in Queued
    BY DEF Queued
  <2>2. \A k \in 1..Len(mailbox') : k \in 1..Len(mailbox) \/ k = Len(mailbox) + 1
    OBVIOUS
  <2> QED
    BY <2>1, <2>2 DEF QueuedOnce
<1> QED
  BY <1>1, <1>2, <1>3, <1>4

LEMMA TakenOwners ==
  ASSUME TypeOK, OneJobEach, mailbox # <<>>, mailbox' = Tail(mailbox)
  PROVE  /\ QueuedFor' \cup {Head(mailbox).owner} = QueuedFor
         /\ Head(mailbox).owner # NoOwner => Head(mailbox).owner \notin QueuedFor'
         /\ \A i, j \in 1..Len(mailbox') :
              mailbox'[i].owner = mailbox'[j].owner /\ mailbox'[i].owner # NoOwner => i = j
<1> USE JobTaken
<1>1. QueuedFor' \cup {Head(mailbox).owner} \subseteq QueuedFor
  BY DEF QueuedFor
<1>2. QueuedFor \subseteq QueuedFor' \cup {Head(mailbox).owner}
  <2>1. \A k \in 1..Len(mailbox) : k = 1 \/ (k - 1 \in 1..Len(mailbox') /\ (k - 1) + 1 = k)
    OBVIOUS
  <2> QED
    BY <2>1 DEF QueuedFor
<1>3. ASSUME NEW i \in 1..Len(mailbox'), mailbox'[i].owner = Head(mailbox).owner,
             Head(mailbox).owner # NoOwner
      PROVE  FALSE
  <2>1. i + 1 = 1
    BY <1>3 DEF OneJobEach
  <2> QED
    BY <2>1
<1>4. ASSUME NEW i \in 1..Len(mailbox'), NEW j \in 1..Len(mailbox'),
             mailbox'[i].owner = mailbox'[j].owner, mailbox'[i].owner # NoOwner
      PROVE  i = j
  <2>1. i + 1 = j + 1
    BY <1>4 DEF OneJobEach
  <2> QED
    BY <2>1
<1> QED
  BY <1>1, <1>2, <1>3, <1>4 DEF QueuedFor

LEMMA TakenMessages ==
  ASSUME TypeOK, QueuedOnce, mailbox # <<>>, mailbox' = Tail(mailbox)
  PROVE  /\ Queued' \subseteq Queued
         /\ Head(mailbox).kind = "msg" => Head(mailbox).msg \in Queued \ Queued'
         /\ QueuedOnce'
<1> USE JobTaken
<1>1. Queued' \subseteq Queued
  BY DEF Queued
<1>2. Head(mailbox).kind = "msg" => Head(mailbox).msg \in Queued
  BY DEF Queued
<1>3. ASSUME Head(mailbox).kind = "msg", NEW i \in 1..Len(mailbox'),
             mailbox'[i].kind = "msg", mailbox'[i].msg = Head(mailbox).msg
      PROVE  FALSE
  <2>1. i + 1 = 1
    BY <1>3 DEF QueuedOnce
  <2> QED
    BY <2>1
<1>4. ASSUME NEW i \in 1..Len(mailbox'), NEW j \in 1..Len(mailbox'),
             mailbox'[i].kind = "msg", mailbox'[j].kind = "msg", mailbox'[i].msg = mailbox'[j].msg
      PROVE  i = j
  <2>1. i + 1 = j + 1
    BY <1>4 DEF QueuedOnce
  <2> QED
    BY <2>1
<1>5. Head(mailbox).kind = "msg" => Head(mailbox).msg \notin Queued'
  BY <1>3 DEF Queued
<1>6. QueuedOnce'
  BY <1>4 DEF QueuedOnce
<1> QED
  BY <1>1, <1>2, <1>5, <1>6

LEMMA AbandonedOwners ==
  ASSUME TypeOK, OneJobEach, NEW who \in Threads \cup {"client"}, Abandon(who)
  PROVE  /\ (QueuedFor' \cup {exec'.owner}) \ {NoOwner} = ((QueuedFor \cup {exec.owner}) \ {NoOwner}) \ {who}
         /\ exec'.owner # NoOwner => exec'.owner \notin QueuedFor'
         /\ \A i, j \in 1..Len(mailbox') :
              mailbox'[i].owner = mailbox'[j].owner /\ mailbox'[i].owner # NoOwner => i = j
<1> USE JobAbandoned, Owners
<1>1. QueuedFor' \ {NoOwner} = (QueuedFor \ {NoOwner}) \ {who}
  <2>1. QueuedFor' \ {NoOwner} \subseteq (QueuedFor \ {NoOwner}) \ {who}
    BY DEF QueuedFor
  <2>2. (QueuedFor \ {NoOwner}) \ {who} \subseteq QueuedFor'
    BY DEF QueuedFor
  <2> QED
    BY <2>1, <2>2
<1>2. exec'.owner = IF exec.owner = who THEN NoOwner ELSE exec.owner
  OBVIOUS
<1>3. exec'.owner # NoOwner => exec'.owner \notin QueuedFor'
  BY <1>1, <1>2 DEF OneJobEach
<1>4. \A i, j \in 1..Len(mailbox') :
        mailbox'[i].owner = mailbox'[j].owner /\ mailbox'[i].owner # NoOwner => i = j
  BY DEF OneJobEach
<1> QED
  BY <1>1, <1>2, <1>3, <1>4

LEMMA AbandonedMessages ==
  ASSUME TypeOK, QueuedOnce, NEW who \in Threads \cup {"client"}, Abandon(who)
  PROVE  Queued' = Queued /\ QueuedOnce'
<1> USE JobAbandoned
<1>1. Queued' \subseteq Queued
  BY DEF Queued
<1>2. Queued \subseteq Queued'
  BY DEF Queued
<1>3. QueuedOnce'
  BY DEF QueuedOnce
<1> QED
  BY <1>1, <1>2, <1>3

LEMMA MailUnchanged ==
  ASSUME mailbox' = mailbox
  PROVE  QueuedFor' = QueuedFor /\ Queued' = Queued /\ (QueuedOnce => QueuedOnce')
  BY DEF QueuedFor, Queued, QueuedOnce

-----------------------------------------------------------------------------
(* What a step that leaves a part of the state alone keeps.                  *)

Critical == {"hook", "wait", "commit"}

\* A step that moves no thread in or out of its transition.
LEMMA SameTransition ==
  ASSUME OneTransition, TypeOK', state' = state,
         \A th \in Threads : /\ thread'[th].pc \in Critical <=> thread[th].pc \in Critical
                             /\ thread[th].pc \in Critical => thread'[th].row = thread[th].row
  PROVE  OneTransition' /\ Busy' = Busy /\ Settled' = Settled
<1>1. Busy' = Busy
  BY DEF Busy, Critical
<1>2. \A th \in Busy : thread'[th].row = thread[th].row
  BY DEF Busy, Critical
<1>3. state \in Primary \/ (CHOOSE th \in Busy : TRUE) \in Busy
  BY DEF OneTransition, TypeOK
<1> QED
  BY <1>1, <1>2, <1>3 DEF OneTransition, Settled

\* A step that touches no message.
LEMMA MessagesStay ==
  ASSUME OnePlace, Queued' = Queued, QueuedOnce', UNCHANGED <<handled, sent, deliver, pending>>,
         \A th \in Threads : thread'[th].held = thread[th].held
  PROVE  OnePlace'
<1>1. Handled' = Handled /\ HandledOnce' /\ OnTheWay' = OnTheWay
  BY DEF OnePlace, Handled, HandledOnce, OnTheWay
<1> QED
  BY <1>1 DEF OnePlace

\* A step after which the executor runs what it ran, and no thread is told to
\* leave Active that was not told before.
LEMMA HandlerStays ==
  ASSUME HeldUp, exec'.kind = exec.kind, state' = state, Busy' = Busy,
         \A th \in Busy :
           LeavingHooks \subseteq Hooked /\ thread[th].row.from = "Active" /\ thread[th].res # "ok"
             => thread'[th].row.from = "Active" /\ thread'[th].res # "ok"
  PROVE  HeldUp'
  BY DEF HeldUp

\* A step of a source of work: a job that nobody waits for, or none, is added.
LEMMA JobAdded ==
  ASSUME IInv, NEW job \in Jobs, job.owner = NoOwner,
         job.kind = "msg" => job.msg \notin Queued,
         Accepted(job) \/ UNCHANGED mailbox,
         UNCHANGED <<thread, exec, client>>
  PROVE  /\ mailbox' \in Seq(Jobs) /\ Len(mailbox') <= Cap
         /\ \A i \in 1..Len(mailbox') : mailbox'[i].kind = "msg" => mailbox'[i].owner = NoOwner
         /\ OneJobEach'
         /\ QueuedOnce'
         /\ Queued' = Queued \/ (job.kind = "msg" /\ Queued' = Queued \cup {job.msg})
<1>1. TypeOK /\ OneJobEach /\ QueuedOnce /\ WellFormed
  BY DEF IInv, OneTransition, OnePlace
<1>2. Waiting' = Waiting
  BY DEF Waiting
<1>3. CASE Accepted(job)
  <2>1. /\ QueuedFor' = QueuedFor \cup {NoOwner}
        /\ \A i, j \in 1..Len(mailbox') :
              mailbox'[i].owner = mailbox'[j].owner /\ mailbox'[i].owner # NoOwner => i = j
    BY <1>1, <1>3, AppendedOwners
  <2>2. OneJobEach'
    BY <1>1, <1>2, <2>1 DEF OneJobEach
  <2>3. \A i \in 1..Len(mailbox') : mailbox'[i].kind = "msg" => mailbox'[i].owner = NoOwner
    BY <1>1, <1>3, JobAppended DEF WellFormed
  <2> QED
    BY <1>1, <1>3, <2>2, <2>3, JobAppended, AppendedMessages
<1>4. CASE UNCHANGED mailbox
  BY <1>1, <1>2, <1>4, MailUnchanged DEF OneJobEach, TypeOK, WellFormed
<1> QED
  BY <1>3, <1>4

-----------------------------------------------------------------------------
(* The invariant is inductive: one lemma per action.                         *)

LEMMA Start == Init => IInv
<1> SUFFICES ASSUME Init PROVE IInv
  OBVIOUS
<1>1. TypeOK
  <2>1. mailbox \in Seq(Jobs) /\ Len(mailbox) <= Cap /\ handled \in Seq(Msgs)
    BY NodeAssumption, EmptySeq DEF Init
  <2>2. thread \in [Threads -> ThreadState]
    BY IdleType DEF Init
  <2>3. /\ state \in Primary /\ stateGauge \in Primary /\ exec = NoJob
        /\ timer \in {"idle", "fire", "stopped"}
        /\ sent \in 0..MaxMsgs /\ pending \in 0..MaxMsgs
        /\ deliver \in [Msgs -> Deliveries] /\ client = "idle"
    BY NodeAssumption DEF Init, Primary, Deliveries
  <2>4. execDone \in BOOLEAN /\ quit \in BOOLEAN
    BY Zenon DEF Init
  <2> QED
    BY <2>1, <2>2, <2>3, <2>4 DEF TypeOK
<1>2. Len(mailbox) = 0 /\ Len(handled) = 0 /\ 1..0 = {}
  BY DEF Init
<1>3. \A th \in Threads : thread[th].pc = "idle" /\ thread[th].held = 0
  BY IdleType DEF Init
<1>4. OneTransition
  BY <1>1, <1>3, StatesDisjoint DEF Init, OneTransition, Busy, Primary
<1>5. WellFormed /\ OnTheWay = {}
  BY <1>2, <1>3 DEF Init, WellFormed, NoJob, OnTheWay
<1>6. Waiting = {} /\ QueuedFor = {} /\ Queued = {} /\ Handled = {}
  BY <1>2, <1>3 DEF Init, Waiting, QueuedFor, Queued, Handled
<1>7. OneJobEach
  BY <1>2, <1>6 DEF Init, OneJobEach, NoJob
<1>8. HeldUp
  BY DEF Init, HeldUp, NoJob
<1>9. OnePlace
  BY <1>2, <1>3, <1>5, <1>6 DEF Init, OnePlace, HandledOnce, QueuedOnce
<1> QED
  BY <1>4, <1>5, <1>7, <1>8, <1>9 DEF IInv

LEMMA BeginKeepsInv ==
  ASSUME IInv, NEW th \in Threads, NEW row \in transitionTable, Begin(th, row)
  PROVE  IInv' /\ (Settled' = Settled \/ Life!Next)
<1> USE DEF workVars
<1>1. TypeOK /\ OneTransition /\ WellFormed /\ OneJobEach /\ HeldUp /\ OnePlace
  BY DEF IInv, OneTransition
<1>2. /\ row.from = state /\ state \in Primary
      /\ state' = intermediateState(row.t) /\ state' \in Intermediate /\ state' \notin Primary
      /\ Busy = {}
  BY <1>1, RowFacts, StatesDisjoint DEF Begin, OneTransition
<1> DEFINE u == [IdleThread EXCEPT !.pc = "hook", !.row = row]
<1>3. u \in ThreadState /\ u.pc = "hook" /\ u.row = row /\ u.res = "none" /\ u.held = 0
  <2>1. "hook" \in ThreadPcs
    BY DEF ThreadPcs
  <2> QED
    BY <2>1, IdleType DEF ThreadState
<1>4. /\ thread' \in [Threads -> ThreadState] /\ thread'[th] = u
      /\ \A o \in Threads \ {th} : thread'[o] = thread[o]
      /\ thread[th].pc = "idle"
  <2>1. thread' = [thread EXCEPT ![th] = u] /\ thread \in [Threads -> ThreadState]
    BY <1>1 DEF Begin, TypeOK
  <2> HIDE DEF u
  <2> QED
    BY <1>3, <2>1 DEF Begin
<1> HIDE DEF u
<1>5. TypeOK'
  BY <1>1, <1>2, <1>4 DEF Begin, TypeOK
<1>6. Busy' = {th}
  BY <1>2, <1>3, <1>4 DEF Busy
<1>7. OneTransition'
  BY <1>2, <1>3, <1>4, <1>5, <1>6 DEF OneTransition
<1>8. WellFormed'
  BY <1>1, <1>3, <1>4 DEF OnTheWay, WellFormed, Begin
<1>9. OneJobEach'
  <2>1. Waiting' = Waiting
    BY <1>3, <1>4 DEF Waiting, Begin
  <2> QED
    BY <1>1, <2>1, MailUnchanged DEF OneJobEach, Begin
<1>10. HeldUp'
  BY <1>1, <1>2, <1>3, <1>4, <1>6 DEF HeldUp, Begin
<1>11. OnePlace'
  <2>1. Handled' = Handled /\ Queued' = Queued /\ QueuedOnce' /\ HandledOnce'
    BY <1>1, MailUnchanged DEF Begin, OnePlace, Handled, HandledOnce
  <2>2. \A o \in Threads : thread'[o].held = thread[o].held \/ thread'[o].held = 0
    BY <1>3, <1>4
  <2>3. 0 \notin Queued \cup Handled /\ 0 <= sent
    BY <1>1 DEF OnePlace, TypeOK
  <2>4. OnTheWay' = OnTheWay /\ 0 \notin OnTheWay
    BY DEF OnTheWay, Begin, Msgs
  <2> QED
    BY <1>1, <2>1, <2>2, <2>3, <2>4 DEF OnePlace, Begin
<1>12. Settled' = Settled
  <2>1. (CHOOSE o \in Busy' : TRUE) = th
    BY <1>6
  <2>2. Settled' = thread'[CHOOSE o \in Busy' : TRUE].row.from
    BY <1>2 DEF Settled
  <2>3. thread'[th].row = row
    BY <1>3, <1>4
  <2>4. Settled = row.from
    BY <1>2 DEF Settled
  <2> QED
    BY <2>1, <2>2, <2>3, <2>4
<1> QED
  BY <1>7, <1>8, <1>9, <1>10, <1>11, <1>12 DEF IInv

LEMMA RunHookKeepsInv ==
  ASSUME IInv, NEW th \in Threads, RunHook(th)
  PROVE  IInv' /\ (Settled' = Settled \/ Life!Next)
<1> USE DEF workVars
<1>1. TypeOK /\ OneTransition /\ WellFormed /\ OneJobEach /\ HeldUp /\ OnePlace /\ QueuedOnce
  BY DEF IInv, OneTransition, OnePlace
<1>2. thread[th].pc = "hook" /\ thread[th].res = "none"
  BY <1>1 DEF RunHook, WellFormed
<1>3. /\ thread' \in [Threads -> ThreadState]
      /\ \A o \in Threads \ {th} : thread'[o] = thread[o]
      /\ thread'[th].row = thread[th].row /\ thread'[th].held = thread[th].held
      /\ \/ /\ thread'[th].pc = "commit" /\ thread'[th].res = "ok"
            /\ thread[th].row.t \notin Hooked /\ UNCHANGED mailbox
         \/ thread'[th].pc = "wait" /\ thread'[th].res = "none" /\ Accepted(HookJob(th))
         \/ thread'[th].pc = "commit" /\ thread'[th].res = "err" /\ UNCHANGED mailbox
  <2>1. "wait" \in ThreadPcs /\ "commit" \in ThreadPcs
    BY DEF ThreadPcs
  <2>2. CASE /\ thread' = [thread EXCEPT ![th].pc = "commit", ![th].res = "ok"]
             /\ thread[th].row.t \notin Hooked /\ UNCHANGED mailbox
    BY <1>1, <2>1, <2>2, PcResMove
  <2>3. CASE thread' = [thread EXCEPT ![th].pc = "wait"] /\ Accepted(HookJob(th))
    BY <1>1, <1>2, <2>1, <2>3, PcMoves
  <2>4. CASE thread' = [thread EXCEPT ![th].pc = "commit", ![th].res = "err"] /\ UNCHANGED mailbox
    BY <1>1, <2>1, <2>4, PcResMove
  <2> QED
    BY <2>2, <2>3, <2>4 DEF RunHook, Refused
<1>4. th \notin QueuedFor \cup {exec.owner} /\ th # NoOwner
  BY <1>1, <1>2, Owners DEF OneJobEach, Waiting
<1>5. HookJob(th).kind = "hook" /\ HookJob(th).owner = th /\ HookJob(th) \in Jobs
  BY JobTypes DEF HookJob
<1>6. thread[th].row.from = "Active" => thread[th].row.t \in LeavingHooks
  BY <1>1, ThreadFields, RowFacts
<1>7. mailbox' = mailbox \/ Accepted(HookJob(th))
  BY <1>3
<1>8. mailbox' \in Seq(Jobs) /\ Len(mailbox') <= Cap
  BY <1>1, <1>5, <1>7, JobAppended DEF TypeOK
<1>9. TypeOK'
  BY <1>1, <1>3, <1>8 DEF RunHook, TypeOK
<1>10. OneTransition' /\ Busy' = Busy /\ th \in Busy /\ Settled' = Settled
  <2>1. th \in Busy /\ state' = state
    BY <1>2 DEF Busy, RunHook
  <2>2. \A o \in Threads : /\ thread'[o].pc \in Critical <=> thread[o].pc \in Critical
                           /\ thread'[o].row = thread[o].row
    BY <1>2, <1>3 DEF Critical
  <2> QED
    BY <1>1, <1>9, <2>1, <2>2, SameTransition
<1>11. WellFormed'
  <2>1. \A i \in 1..Len(mailbox') : mailbox'[i].kind = "msg" => mailbox'[i].owner = NoOwner
    BY <1>1, <1>5, <1>7, JobAppended DEF WellFormed
  <2>2. \A o \in Threads : thread'[o].pc = "hook" => thread'[o].res = "none"
    BY <1>1, <1>3 DEF WellFormed
  <2> QED
    BY <1>1, <2>1, <2>2 DEF OnTheWay, WellFormed, RunHook
<1>12. OneJobEach'
  <2>1. CASE thread'[th].pc = "wait" /\ thread'[th].res = "none" /\ Accepted(HookJob(th))
    <3>1. Waiting' = Waiting \cup {th}
      BY <1>3, <2>1 DEF Waiting, RunHook
    <3>2. /\ QueuedFor' = QueuedFor \cup {th}
          /\ \A i, j \in 1..Len(mailbox') :
               mailbox'[i].owner = mailbox'[j].owner /\ mailbox'[i].owner # NoOwner => i = j
      BY <1>1, <1>4, <1>5, <2>1, AppendedOwners
    <3>3. exec' = exec
      BY DEF RunHook
    <3> QED
      BY <1>1, <1>4, <3>1, <3>2, <3>3 DEF OneJobEach
  <2>2. CASE thread'[th].pc = "commit" /\ UNCHANGED mailbox
    <3>1. Waiting' = Waiting
      BY <1>2, <1>3, <2>2 DEF Waiting, RunHook
    <3> QED
      BY <1>1, <2>2, <3>1, MailUnchanged DEF OneJobEach, RunHook
  <2> QED
    BY <1>3, <2>1, <2>2
<1>13. HeldUp'
  <2>1. LeavingHooks \subseteq Hooked /\ thread[th].row.from = "Active" => thread'[th].res # "ok"
    BY <1>3, <1>6
  <2>2. exec' = exec /\ state' = state
    BY DEF RunHook
  <2>3. Busy \subseteq Threads
    BY DEF Busy
  <2> QED
    BY <1>1, <1>3, <1>10, <2>1, <2>2, <2>3, HandlerStays
<1>14. OnePlace'
  <2>1. Queued' = Queued /\ QueuedOnce'
    BY <1>1, <1>5, <1>7, AppendedMessages, MailUnchanged
  <2>2. \A o \in Threads : thread'[o].held = thread[o].held
    BY <1>3
  <2> QED
    BY <1>1, <2>1, <2>2, MessagesStay DEF RunHook
<1> QED
  BY <1>10, <1>11, <1>12, <1>13, <1>14 DEF IInv

LEMMA HookReturnedKeepsInv ==
  ASSUME IInv, NEW th \in Threads, HookReturned(th)
  PROVE  IInv' /\ (Settled' = Settled \/ Life!Next)
<1>1. TypeOK /\ OneTransition /\ WellFormed /\ OneJobEach /\ HeldUp /\ OnePlace /\ QueuedOnce
  BY DEF IInv, OneTransition, OnePlace
<1>2. /\ thread' \in [Threads -> ThreadState]
      /\ \A o \in Threads \ {th} : thread'[o] = thread[o]
      /\ thread'[th].row = thread[th].row /\ thread'[th].held = thread[th].held
      /\ thread[th].pc = "wait" /\ thread'[th].pc = "commit"
      /\ \/ thread'[th].res = thread[th].res /\ thread[th].res # "none" /\ UNCHANGED <<mailbox, exec>>
         \/ thread'[th].res = "err" /\ Abandon(th)
  <2>1. "commit" \in ThreadPcs
    BY DEF ThreadPcs
  <2>2. CASE /\ thread' = [thread EXCEPT ![th].pc = "commit"] /\ thread[th].res # "none"
             /\ UNCHANGED <<mailbox, exec>>
    BY <1>1, <2>1, <2>2, PcMoves DEF HookReturned
  <2>3. CASE thread' = [thread EXCEPT ![th].pc = "commit", ![th].res = "err"] /\ Abandon(th)
    BY <1>1, <2>1, <2>3, PcResMove DEF HookReturned
  <2> QED
    BY <2>2, <2>3 DEF HookReturned
<1>3. CASE UNCHANGED <<mailbox, exec>> /\ thread'[th].res = thread[th].res /\ thread[th].res # "none"
  <2>1. TypeOK'
    BY <1>1, <1>2, <1>3 DEF HookReturned, TypeOK
  <2>2. OneTransition' /\ Busy' = Busy /\ Settled' = Settled
    <3>1. \A o \in Threads : /\ thread'[o].pc \in Critical <=> thread[o].pc \in Critical
                             /\ thread'[o].row = thread[o].row
      BY <1>2 DEF Critical
    <3> QED
      BY <1>1, <2>1, <3>1, SameTransition DEF HookReturned
  <2>3. WellFormed'
    BY <1>1, <1>2, <1>3 DEF OnTheWay, WellFormed, HookReturned
  <2>4. OneJobEach'
    <3>1. Waiting' = Waiting
      BY <1>2, <1>3 DEF Waiting, HookReturned
    <3> QED
      BY <1>1, <1>3, <3>1, MailUnchanged DEF OneJobEach
  <2>5. HeldUp'
    <3>1. \A o \in Busy : thread'[o].row = thread[o].row /\ thread'[o].res = thread[o].res
      BY <1>2, <1>3 DEF Busy
    <3> QED
      BY <1>1, <1>3, <2>2, <3>1, HandlerStays DEF HookReturned
  <2>6. OnePlace'
    BY <1>1, <1>2, <1>3, MailUnchanged, MessagesStay DEF HookReturned
  <2> QED
    BY <2>2, <2>3, <2>4, <2>5, <2>6 DEF IInv
<1>4. CASE Abandon(th) /\ thread'[th].res = "err"
  <2>1. TypeOK'
    BY <1>1, <1>2, <1>4, JobAbandoned DEF HookReturned, TypeOK
  <2>2. OneTransition' /\ Busy' = Busy /\ Settled' = Settled
    <3>1. \A o \in Threads : /\ thread'[o].pc \in Critical <=> thread[o].pc \in Critical
                             /\ thread'[o].row = thread[o].row
      BY <1>2 DEF Critical
    <3> QED
      BY <1>1, <2>1, <3>1, SameTransition DEF HookReturned
  <2>3. WellFormed'
    <3>1. exec'.kind = "msg" => exec'.owner = NoOwner
      BY <1>1, <1>4, JobAbandoned, Owners DEF WellFormed
    <3>2. \A i \in 1..Len(mailbox') : mailbox'[i].kind = "msg" => mailbox'[i].owner = NoOwner
      BY <1>1, <1>4, JobAbandoned, Owners DEF WellFormed
    <3>3. \A o \in Threads : thread'[o].pc = "hook" => thread'[o].res = "none"
      BY <1>1, <1>2 DEF WellFormed
    <3> QED
      BY <1>1, <3>1, <3>2, <3>3 DEF OnTheWay, WellFormed, HookReturned
  <2>4. OneJobEach'
    <3>1. Waiting' = Waiting \ {th}
      BY <1>2, <1>4, Owners DEF Waiting, HookReturned
    <3> QED
      BY <1>1, <1>4, <3>1, AbandonedOwners DEF OneJobEach
  <2>5. HeldUp'
    <3>1. exec'.kind = exec.kind /\ state' = state
      BY <1>1, <1>4, JobAbandoned DEF HookReturned
    <3>2. Busy \subseteq Threads
      BY DEF Busy
    <3> QED
      BY <1>1, <1>2, <1>4, <2>2, <3>1, <3>2, HandlerStays
  <2>6. OnePlace'
    BY <1>1, <1>2, <1>4, AbandonedMessages, MessagesStay DEF HookReturned
  <2> QED
    BY <2>2, <2>3, <2>4, <2>5, <2>6 DEF IInv
<1> QED
  BY <1>2, <1>3, <1>4

LEMMA CommitKeepsInv ==
  ASSUME IInv, NEW th \in Threads, Commit(th)
  PROVE  IInv' /\ (Settled' = Settled \/ Life!Next)
<1> USE DEF workVars
<1> DEFINE row == thread[th].row
<1>1. TypeOK /\ OneTransition /\ WellFormed /\ OneJobEach /\ HeldUp /\ OnePlace /\ QueuedOnce
  BY DEF IInv, OneTransition, OnePlace
<1>2. row \in transitionTable /\ row.from \in Primary /\ row.goal \in Primary
  BY <1>1, ThreadFields, RowFacts
<1>3. Busy = {th} /\ state \in Intermediate
  <2>1. th \in Busy
    BY DEF Commit, Busy
  <2> QED
    BY <1>1, <2>1 DEF OneTransition, TypeOK
<1>4. /\ thread' \in [Threads -> ThreadState]
      /\ \A o \in Threads \ {th} : thread'[o] = thread[o]
      /\ thread[th].pc = "commit"
      /\ thread'[th].held = thread[th].held \/ thread'[th].held = 0
      /\ \/ thread[th].res = "err" /\ state' = row.from /\ thread'[th].pc = "idle"
         \/ /\ thread[th].res = "ok" /\ state' = row.goal
            /\ thread'[th].pc \in {"onActive", "onInactive", "report"}
  <2>1. CASE thread[th].res = "err" /\ state' = row.from /\ thread' = [thread EXCEPT ![th] = IdleThread]
    <3>1. thread' \in [Threads -> ThreadState] /\ thread'[th] = IdleThread
          /\ \A o \in Threads \ {th} : thread'[o] = thread[o]
      BY <1>1, <2>1, IdleType, ThreadBecomes
    <3> QED
      BY <2>1, <3>1, IdleType DEF Commit
  <2>2. CASE thread[th].res = "ok"
    <3> DEFINE p == IF row.goal = "Active" THEN "onActive"
                    ELSE IF row.from = "Active" THEN "onInactive" ELSE "report"
    <3>1. p \in ThreadPcs /\ p \in {"onActive", "onInactive", "report"}
      BY DEF ThreadPcs
    <3>2. thread' = [thread EXCEPT ![th].pc = p] /\ state' = row.goal
      BY <2>2 DEF Commit
    <3> HIDE DEF p, row
    <3>3. /\ thread' \in [Threads -> ThreadState] /\ thread'[th].pc = p
          /\ thread'[th].held = thread[th].held
          /\ \A o \in Threads \ {th} : thread'[o] = thread[o]
      BY <1>1, <3>1, <3>2, PcMoves
    <3> QED
      BY <2>2, <3>1, <3>2, <3>3 DEF Commit, row
  <2> QED
    BY <2>1, <2>2 DEF Commit
<1> HIDE DEF row
<1>5. state' \in Primary /\ state' \notin Intermediate /\ UNCHANGED <<mailbox, exec, handled, sent, deliver, pending, client>>
  BY <1>2, <1>4, StatesDisjoint DEF Commit
<1>6. TypeOK'
  BY <1>1, <1>4, <1>5 DEF Commit, TypeOK
<1>7. Busy' = {}
  BY <1>3, <1>4 DEF Busy
<1>8. OneTransition'
  BY <1>5, <1>6, <1>7 DEF OneTransition
<1>9. WellFormed'
  BY <1>1, <1>4, <1>5 DEF OnTheWay, WellFormed
<1>10. OneJobEach'
  <2>1. Waiting' = Waiting
    BY <1>4, <1>5 DEF Waiting
  <2> QED
    BY <1>1, <1>5, <2>1, MailUnchanged DEF OneJobEach
<1>11. HeldUp'
  <2>1. ASSUME LeavingHooks \subseteq Hooked, exec.kind = "msg"
        PROVE  state' = "Active"
    <3>1. state # "Active"
      BY <1>3, StatesDisjoint DEF Primary
    <3>2. row.from = "Active" /\ thread[th].res # "ok"
      BY <1>1, <1>3, <2>1, <3>1 DEF HeldUp, row
    <3> QED
      BY <1>4, <3>2
  <2> QED
    BY <1>5, <2>1 DEF HeldUp
<1>12. OnePlace'
  <2>1. Handled' = Handled /\ Queued' = Queued /\ QueuedOnce' /\ HandledOnce'
    BY <1>1, <1>5, MailUnchanged DEF OnePlace, Handled, HandledOnce
  <2>2. \A o \in Threads : thread'[o].held = thread[o].held \/ thread'[o].held = 0
    BY <1>4
  <2>3. 0 \notin Queued \cup Handled /\ 0 <= sent
    BY <1>1 DEF OnePlace, TypeOK
  <2>4. OnTheWay' = OnTheWay /\ 0 \notin OnTheWay
    BY <1>5 DEF OnTheWay, Msgs
  <2> QED
    BY <1>1, <1>5, <2>1, <2>2, <2>3, <2>4 DEF OnePlace
<1>13. Settled' = Settled \/ Life!Next
  <2>1. Settled = row.from /\ Settled' = state'
    <3>1. (CHOOSE o \in Busy : TRUE) = th
      BY <1>3
    <3> QED
      BY <1>3, <1>5, <3>1, StatesDisjoint DEF Settled, row
  <2>2. <<row.from, row.goal>> \in Life!Arcs
    BY <1>2, RowFacts
  <2> QED
    BY <1>4, <2>1, <2>2 DEF Life!Next
<1> QED
  BY <1>8, <1>9, <1>10, <1>11, <1>12, <1>13 DEF IInv

LEMMA OnActiveKeepsInv ==
  ASSUME IInv, NEW th \in Threads, OnActive(th)
  PROVE  IInv' /\ (Settled' = Settled \/ Life!Next)
<1> USE DEF workVars
<1>1. TypeOK /\ OneTransition /\ WellFormed /\ OneJobEach /\ HeldUp /\ OnePlace /\ QueuedOnce
  BY DEF IInv, OneTransition, OnePlace
<1>2. /\ thread' \in [Threads -> ThreadState]
      /\ \A o \in Threads \ {th} : thread'[o] = thread[o]
      /\ thread[th].pc = "onActive" /\ thread'[th].pc = "flush" /\ thread'[th].held = pending
  <2>1. "flush" \in ThreadPcs /\ pending \in 0..MaxMsgs
    BY <1>1 DEF ThreadPcs, TypeOK
  <2> QED
    BY <1>1, <2>1, PcHeldMove DEF OnActive
<1>3. pending' = 0 /\ UNCHANGED <<state, mailbox, exec, handled, sent, deliver, client>>
  BY DEF OnActive
<1>4. TypeOK'
  BY <1>1, <1>2, <1>3, NodeAssumption DEF OnActive, TypeOK
<1>5. OneTransition' /\ Busy' = Busy /\ Settled' = Settled
  <2>1. \A o \in Threads : /\ thread'[o].pc \in Critical <=> thread[o].pc \in Critical
                           /\ thread[o].pc \in Critical => thread'[o].row = thread[o].row
    BY <1>2 DEF Critical
  <2> QED
    BY <1>1, <1>3, <1>4, <2>1, SameTransition
<1>6. WellFormed'
  BY <1>1, <1>2, <1>3 DEF OnTheWay, WellFormed
<1>7. OneJobEach'
  <2>1. Waiting' = Waiting
    BY <1>2, <1>3 DEF Waiting
  <2> QED
    BY <1>1, <1>3, <2>1, MailUnchanged DEF OneJobEach
<1>8. HeldUp'
  <2>1. \A o \in Busy : thread'[o] = thread[o]
    BY <1>2 DEF Busy
  <2> QED
    BY <1>1, <1>3, <1>5, <2>1, HandlerStays
<1>9. OnePlace'
  <2>1. Handled' = Handled /\ Queued' = Queued /\ QueuedOnce' /\ HandledOnce'
    BY <1>1, <1>3, MailUnchanged DEF OnePlace, Handled, HandledOnce
  <2>2. 0 \notin Queued \cup Handled /\ 0 <= sent
    BY <1>1 DEF OnePlace, TypeOK
  <2>3. OnTheWay' = OnTheWay /\ 0 \notin OnTheWay
    BY <1>3 DEF OnTheWay, Msgs
  <2>4. ASSUME NEW o \in Threads
        PROVE  /\ thread'[o].held <= sent /\ thread'[o].held \notin Queued \cup Handled
               /\ thread'[o].held # 0 =>
                    \A other \in Threads \ {o} : thread'[other].held # thread'[o].held
               /\ \A m \in OnTheWay : thread'[o].held # m
    BY <1>1, <1>2 DEF OnePlace
  <2> QED
    BY <1>1, <1>3, <2>1, <2>2, <2>3, <2>4 DEF OnePlace
<1> QED
  BY <1>5, <1>6, <1>7, <1>8, <1>9 DEF IInv

LEMMA FlushKeepsInv ==
  ASSUME IInv, NEW th \in Threads, Flush(th)
  PROVE  IInv' /\ (Settled' = Settled \/ Life!Next)
<1> USE DEF workVars
<1> DEFINE h == thread[th].held
<1>1. TypeOK /\ OneTransition /\ WellFormed /\ OneJobEach /\ HeldUp /\ OnePlace /\ QueuedOnce
  BY DEF IInv, OneTransition, OnePlace
<1>2. h \in 0..MaxMsgs /\ h <= sent /\ h \notin Queued \cup Handled
  BY <1>1, ThreadFields DEF OnePlace
<1>3. /\ thread' \in [Threads -> ThreadState]
      /\ \A o \in Threads \ {th} : thread'[o] = thread[o]
      /\ thread[th].pc = "flush" /\ thread'[th].pc = "report" /\ thread'[th].held = 0
  <2>1. "report" \in ThreadPcs /\ 0 \in 0..MaxMsgs
    BY NodeAssumption DEF ThreadPcs
  <2> QED
    BY <1>1, <2>1, PcHeldMove DEF Flush
<1>4. UNCHANGED <<state, exec, handled, sent, deliver, pending, client>>
  BY DEF Flush
<1>5. UNCHANGED mailbox \/ (h # 0 /\ Accepted(MsgJob(h)))
  BY DEF Flush, Refused
<1>6. MsgJob(h).kind = "msg" /\ MsgJob(h).owner = NoOwner /\ MsgJob(h).msg = h /\ MsgJob(h) \in Jobs
  BY <1>2, JobTypes DEF MsgJob
<1> HIDE DEF h
<1>7. mailbox' \in Seq(Jobs) /\ Len(mailbox') <= Cap
  BY <1>1, <1>5, <1>6, JobAppended DEF TypeOK
<1>8. TypeOK'
  BY <1>1, <1>3, <1>7 DEF Flush, TypeOK
<1>9. OneTransition' /\ Busy' = Busy /\ Settled' = Settled
  <2>1. \A o \in Threads : /\ thread'[o].pc \in Critical <=> thread[o].pc \in Critical
                           /\ thread[o].pc \in Critical => thread'[o].row = thread[o].row
    BY <1>3 DEF Critical
  <2> QED
    BY <1>1, <1>4, <1>8, <2>1, SameTransition
<1>10. WellFormed'
  <2>1. \A i \in 1..Len(mailbox') : mailbox'[i].kind = "msg" => mailbox'[i].owner = NoOwner
    BY <1>1, <1>5, <1>6, JobAppended DEF WellFormed
  <2> QED
    BY <1>1, <1>3, <1>4, <2>1 DEF OnTheWay, WellFormed
<1>11. OneJobEach'
  <2>1. Waiting' = Waiting
    BY <1>3, <1>4 DEF Waiting
  <2>2. /\ QueuedFor' = QueuedFor \/ QueuedFor' = QueuedFor \cup {NoOwner}
        /\ \A i, j \in 1..Len(mailbox') :
              mailbox'[i].owner = mailbox'[j].owner /\ mailbox'[i].owner # NoOwner => i = j
    <3>1. CASE UNCHANGED mailbox
      BY <1>1, <3>1, MailUnchanged DEF OneJobEach
    <3>2. CASE Accepted(MsgJob(h))
      BY <1>1, <1>6, <3>2, AppendedOwners
    <3> QED
      BY <1>5, <3>1, <3>2
  <2> QED
    BY <1>1, <1>4, <2>1, <2>2 DEF OneJobEach
<1>12. HeldUp'
  <2>1. \A o \in Busy : thread'[o] = thread[o]
    BY <1>3 DEF Busy
  <2> QED
    BY <1>1, <1>4, <1>9, <2>1, HandlerStays
<1>13. OnePlace'
  <2>1. /\ Handled' = Handled /\ HandledOnce' /\ QueuedOnce'
        /\ Queued' = Queued \/ (h # 0 /\ Queued' = Queued \cup {h})
    <3>1. Handled' = Handled /\ HandledOnce'
      BY <1>1, <1>4 DEF OnePlace, Handled, HandledOnce
    <3>2. CASE UNCHANGED mailbox
      BY <1>1, <3>1, <3>2, MailUnchanged
    <3>3. CASE h # 0 /\ Accepted(MsgJob(h))
      BY <1>1, <1>2, <1>6, <3>1, <3>3, AppendedMessages
    <3> QED
      BY <1>5, <3>2, <3>3
  <2>2. h # 0 => /\ h # pending /\ h \notin OnTheWay
                 /\ \A o \in Threads \ {th} : thread[o].held # h
    BY <1>1 DEF OnePlace, h
  <2>3. 0 \notin Queued \cup Handled /\ 0 <= sent /\ sent \in Nat /\ h \in Nat
    BY <1>1, <1>2, NodeAssumption DEF OnePlace, TypeOK
  <2>4. OnTheWay' = OnTheWay /\ 0 \notin OnTheWay
    BY <1>4 DEF OnTheWay, Msgs
  <2>5. /\ Queued' \cap Handled' = {} /\ Queued' \cup Handled' \subseteq 1..sent
        /\ pending \notin Queued' \cup Handled'
        /\ \A m \in OnTheWay : m \notin Queued' \cup Handled'
    BY <1>1, <1>2, <2>1, <2>2, <2>3 DEF OnePlace
  <2>6. ASSUME NEW o \in Threads
        PROVE  /\ thread'[o].held <= sent /\ thread'[o].held \notin Queued' \cup Handled'
               /\ thread'[o].held # 0 =>
                    /\ thread'[o].held # pending
                    /\ \A other \in Threads \ {o} : thread'[other].held # thread'[o].held
               /\ \A m \in OnTheWay : thread'[o].held # m
    <3>1. CASE o = th
      BY <1>2, <1>3, <2>1, <2>3, <2>4, <3>1
    <3>2. CASE o # th
      BY <1>1, <1>3, <2>1, <2>2, <3>2 DEF OnePlace
    <3> QED
      BY <3>1, <3>2
  <2> QED
    BY <1>1, <1>4, <2>1, <2>5, <2>6 DEF OnTheWay, OnePlace
<1> QED
  BY <1>9, <1>10, <1>11, <1>12, <1>13 DEF IInv

\* The two steps that only end a transition.
LEMMA EndKeepsInv ==
  ASSUME IInv, NEW th \in Threads, OnInactive(th) \/ Report(th)
  PROVE  IInv' /\ (Settled' = Settled \/ Life!Next)
<1> USE DEF workVars
<1>1. TypeOK /\ OneTransition /\ WellFormed /\ OneJobEach /\ HeldUp /\ OnePlace /\ QueuedOnce
  BY DEF IInv, OneTransition, OnePlace
<1>2. /\ thread' \in [Threads -> ThreadState]
      /\ \A o \in Threads \ {th} : thread'[o] = thread[o]
      /\ thread[th].pc \in {"onInactive", "report"} /\ thread'[th].pc \in {"report", "idle"}
      /\ thread'[th].held = thread[th].held \/ thread'[th].held = 0
      /\ stateGauge' \in Primary
  <2>1. CASE OnInactive(th)
    <3>1. "report" \in ThreadPcs
      BY DEF ThreadPcs
    <3> QED
      BY <1>1, <2>1, <3>1, PcMoves DEF OnInactive, TypeOK
  <2>2. CASE Report(th)
    BY <1>1, <2>2, IdleType, ThreadBecomes, ThreadFields, RowFacts DEF Report
  <2> QED
    BY <2>1, <2>2
<1>3. UNCHANGED <<state, mailbox, exec, execDone, quit, timer, handled, sent, deliver, pending, client>>
  BY DEF OnInactive, Report
<1>4. TypeOK'
  BY <1>1, <1>2, <1>3 DEF TypeOK
<1>5. OneTransition' /\ Busy' = Busy /\ Settled' = Settled
  <2>1. \A o \in Threads : /\ thread'[o].pc \in Critical <=> thread[o].pc \in Critical
                           /\ thread[o].pc \in Critical => thread'[o].row = thread[o].row
    BY <1>2 DEF Critical
  <2> QED
    BY <1>1, <1>3, <1>4, <2>1, SameTransition
<1>6. WellFormed'
  BY <1>1, <1>2, <1>3 DEF OnTheWay, WellFormed
<1>7. OneJobEach'
  <2>1. Waiting' = Waiting
    BY <1>2, <1>3 DEF Waiting
  <2> QED
    BY <1>1, <1>3, <2>1, MailUnchanged DEF OneJobEach
<1>8. HeldUp'
  <2>1. \A o \in Busy : thread'[o] = thread[o]
    BY <1>2 DEF Busy
  <2> QED
    BY <1>1, <1>3, <1>5, <2>1, HandlerStays
<1>9. OnePlace'
  <2>1. Handled' = Handled /\ Queued' = Queued /\ QueuedOnce' /\ HandledOnce'
    BY <1>1, <1>3, MailUnchanged DEF OnePlace, Handled, HandledOnce
  <2>2. \A o \in Threads : thread'[o].held = thread[o].held \/ thread'[o].held = 0
    BY <1>2
  <2>3. 0 \notin Queued \cup Handled /\ 0 <= sent
    BY <1>1 DEF OnePlace, TypeOK
  <2>4. OnTheWay' = OnTheWay /\ 0 \notin OnTheWay
    BY <1>3 DEF OnTheWay, Msgs
  <2> QED
    BY <1>1, <1>3, <2>1, <2>2, <2>3, <2>4 DEF OnePlace
<1> QED
  BY <1>5, <1>6, <1>7, <1>8, <1>9 DEF IInv

\* The handler is called with a message that was not handled before.
LEMMA MessageHandled ==
  ASSUME TypeOK, HandledOnce, NEW n \in Msgs, n \notin Handled, handled' = Append(handled, n)
  PROVE  handled' \in Seq(Msgs) /\ Handled' = Handled \cup {n} /\ HandledOnce'
<1>1. /\ handled' \in Seq(Msgs) /\ Len(handled) \in Nat /\ Len(handled') = Len(handled) + 1
      /\ \A i \in 1..Len(handled) : handled'[i] = handled[i]
      /\ handled'[Len(handled) + 1] = n
  BY AppendProperties, LenProperties DEF TypeOK
<1>2. \A k \in 1..Len(handled') : k \in 1..Len(handled) \/ k = Len(handled) + 1
  BY <1>1
<1>3. \A k \in 1..Len(handled) : handled[k] \in Handled
  BY DEF Handled
<1>4. Handled' \subseteq Handled \cup {n} /\ Handled \subseteq Handled' /\ n \in Handled'
  BY <1>1, <1>2 DEF Handled
<1>5. HandledOnce'
  BY <1>1, <1>2, <1>3 DEF HandledOnce
<1> QED
  BY <1>1, <1>4, <1>5

LEMMA TakeKeepsInv ==
  ASSUME IInv, Take
  PROVE  IInv' /\ (Settled' = Settled \/ Life!Next)
<1> DEFINE job == Head(mailbox)
<1> DEFINE runs == job.kind = "msg" => active
<1>1. TypeOK /\ OneTransition /\ WellFormed /\ OneJobEach /\ HeldUp /\ OnePlace /\ QueuedOnce /\ HandledOnce
  BY DEF IInv, OneTransition, OnePlace
<1>2. /\ exec = NoJob /\ mailbox # <<>> /\ mailbox' = Tail(mailbox)
      /\ exec' = IF runs THEN job ELSE NoJob
      /\ handled' = IF runs /\ job.kind = "msg" THEN Append(handled, job.msg) ELSE handled
      /\ UNCHANGED <<state, stateGauge, pending, timer, sent, deliver, thread, client, execDone, quit>>
  BY DEF Take, lifecycleVars
<1>3. /\ mailbox' \in Seq(Jobs) /\ Len(mailbox') <= Cap /\ job \in Jobs
      /\ job.kind = "msg" => job.owner = NoOwner
      /\ \A i \in 1..Len(mailbox') : mailbox'[i].kind = "msg" => mailbox'[i].owner = NoOwner
  BY <1>1, <1>2, JobTaken DEF WellFormed
<1>4. job.kind = "msg" => job.msg \in Msgs /\ job.msg \in Queued /\ job.msg \notin Handled /\ job.msg \in 1..sent
  BY <1>1, <1>2, TakenMessages, NodeAssumption DEF OnePlace, TypeOK, Msgs
<1>5. NoJob.owner = NoOwner /\ NoJob.kind # "msg" /\ NoJob \in Jobs \cup {NoJob}
  BY DEF NoJob
<1>6. \/ handled' = handled /\ Handled' = Handled /\ HandledOnce' /\ handled' \in Seq(Msgs)
      \/ /\ job.kind = "msg" /\ Handled' = Handled \cup {job.msg} /\ HandledOnce'
         /\ handled' \in Seq(Msgs)
  <2>1. CASE runs /\ job.kind = "msg"
    BY <1>1, <1>2, <1>4, <2>1, MessageHandled
  <2>2. CASE ~(runs /\ job.kind = "msg")
    BY <1>1, <1>2, <2>2 DEF Handled, HandledOnce, TypeOK
  <2> QED
    BY <2>1, <2>2
<1>7. exec' \in Jobs \cup {NoJob} /\ (exec'.kind = "msg" => exec'.owner = NoOwner)
  BY <1>2, <1>3, <1>5
<1>8. TypeOK'
  BY <1>1, <1>2, <1>3, <1>6, <1>7 DEF TypeOK
<1>9. OneTransition' /\ Busy' = Busy /\ Settled' = Settled
  BY <1>1, <1>2, <1>8, SameTransition
<1>10. WellFormed'
  BY <1>1, <1>2, <1>3, <1>7 DEF OnTheWay, WellFormed
<1>11. OneJobEach'
  <2>1. Waiting' = Waiting
    BY <1>2 DEF Waiting
  <2>2. /\ QueuedFor' \cup {job.owner} = QueuedFor
        /\ job.owner # NoOwner => job.owner \notin QueuedFor'
        /\ \A i, j \in 1..Len(mailbox') :
              mailbox'[i].owner = mailbox'[j].owner /\ mailbox'[i].owner # NoOwner => i = j
    BY <1>1, <1>2, TakenOwners
  <2>3. exec.owner = NoOwner /\ exec'.owner = job.owner
    BY <1>2, <1>3, <1>5
  <2> QED
    BY <1>1, <2>1, <2>2, <2>3 DEF OneJobEach
<1>12. HeldUp'
  BY <1>2, <1>5 DEF HeldUp, active
<1>13. OnePlace'
  <2>1. /\ Queued' \subseteq Queued /\ QueuedOnce'
        /\ job.kind = "msg" => job.msg \in Queued \ Queued'
    BY <1>1, <1>2, TakenMessages
  <2>2. Handled' \subseteq Handled \cup Queued /\ Queued' \cap Handled' = {}
    BY <1>1, <1>4, <1>6, <2>1 DEF OnePlace
  <2>3. Queued' \cup Handled' \subseteq Queued \cup Handled
    BY <2>1, <2>2
  <2> HIDE DEF job, runs
  <2> QED
    BY <1>1, <1>2, <1>6, <2>1, <2>2, <2>3 DEF OnTheWay, OnePlace
<1> QED
  BY <1>9, <1>10, <1>11, <1>12, <1>13 DEF IInv

LEMMA FinishKeepsInv ==
  ASSUME IInv, Finish
  PROVE  IInv' /\ (Settled' = Settled \/ Life!Next)
<1>1. TypeOK /\ OneTransition /\ WellFormed /\ OneJobEach /\ HeldUp /\ OnePlace /\ QueuedOnce
  BY DEF IInv, OneTransition, OnePlace
<1>2. /\ exec' = NoJob /\ exec # NoJob /\ exec \in Jobs
      /\ client' = IF exec.owner = "client" THEN "answered" ELSE client
      /\ UNCHANGED <<state, stateGauge, pending, timer, sent, deliver, mailbox, execDone, quit, handled>>
  BY <1>1 DEF Finish, lifecycleVars, TypeOK
<1>3. NoJob.owner = NoOwner /\ NoJob.kind # "msg"
  BY DEF NoJob
<1>4. /\ thread' \in [Threads -> ThreadState]
      /\ \A o \in Threads : /\ thread'[o].pc = thread[o].pc /\ thread'[o].row = thread[o].row
                            /\ thread'[o].held = thread[o].held
                            /\ o # exec.owner => thread'[o].res = thread[o].res
                            /\ o = exec.owner => thread'[o].res # "none"
  <2>1. CASE exec.owner \in Threads
    <3>1. PICK res \in {"ok", "err"} : thread' = [thread EXCEPT ![exec.owner].res = res]
      BY <2>1 DEF Finish
    <3> QED
      BY <1>1, <2>1, <3>1, ResMoves
  <2>2. CASE exec.owner \notin Threads
    BY <1>1, <2>2 DEF Finish, TypeOK
  <2> QED
    BY <2>1, <2>2
<1>5. exec.owner \in Threads => thread[exec.owner].pc = "wait"
  BY <1>1, Owners DEF OneJobEach, Waiting
<1>6. TypeOK'
  BY <1>1, <1>2, <1>4 DEF TypeOK
<1>7. OneTransition' /\ Busy' = Busy /\ Settled' = Settled
  BY <1>1, <1>2, <1>4, <1>6, SameTransition
<1>8. WellFormed'
  BY <1>1, <1>2, <1>3, <1>4, <1>5 DEF OnTheWay, WellFormed
<1>9. OneJobEach'
  <2>1. Waiting' = Waiting \ {exec.owner}
    BY <1>2, <1>4, Owners DEF Waiting
  <2> QED
    BY <1>1, <1>2, <1>3, <2>1, MailUnchanged DEF OneJobEach
<1>10. HeldUp'
  BY <1>2, <1>3 DEF HeldUp
<1>11. OnePlace'
  BY <1>1, <1>2, <1>4, MailUnchanged, MessagesStay
<1> QED
  BY <1>7, <1>8, <1>9, <1>10, <1>11 DEF IInv

\* The sources of work: none moves the state, a thread or the executor's job.
LEMMA SourceKeepsInv ==
  ASSUME IInv, NEW job \in Jobs, job.owner = NoOwner,
         job.kind = "msg" => job.msg \notin Queued,
         Accepted(job) \/ UNCHANGED mailbox,
         UNCHANGED <<state, thread, stateGauge, exec, handled, client>>,
         execDone' \in BOOLEAN, quit' \in BOOLEAN, timer' \in {"idle", "fire", "stopped"},
         sent' \in 0..MaxMsgs, deliver' \in [Msgs -> Deliveries], pending' \in 0..MaxMsgs,
         OnTheWay' \subseteq 1..sent',
         OnePlace'
  PROVE  IInv' /\ (Settled' = Settled \/ Life!Next)
<1>1. TypeOK /\ OneTransition /\ WellFormed /\ HeldUp
  BY DEF IInv, OneTransition
<1>2. /\ mailbox' \in Seq(Jobs) /\ Len(mailbox') <= Cap
      /\ \A i \in 1..Len(mailbox') : mailbox'[i].kind = "msg" => mailbox'[i].owner = NoOwner
      /\ OneJobEach'
  BY JobAdded
<1>3. TypeOK'
  BY <1>1, <1>2 DEF TypeOK
<1>4. OneTransition' /\ Busy' = Busy /\ Settled' = Settled
  BY <1>1, <1>3, SameTransition
<1>5. WellFormed'
  BY <1>1, <1>2 DEF WellFormed
<1>6. HeldUp'
  BY <1>1, <1>4, HandlerStays
<1> QED
  BY <1>2, <1>4, <1>5, <1>6 DEF IInv

\* Those that carry no message.
LEMMA QuietSourceKeepsInv ==
  ASSUME IInv, ExecQuit \/ Tick \/ Fire \/ StopTimer \/ CloseQuit
  PROVE  IInv' /\ (Settled' = Settled \/ Life!Next)
<1> USE DEF nodeVars, lifecycleVars
<1>1. TypeOK /\ WellFormed /\ OnePlace
  BY DEF IInv, OneTransition
<1>2. TimerJob \in Jobs /\ TimerJob.owner = NoOwner /\ TimerJob.kind # "msg"
  BY JobTypes DEF TimerJob
<1>3. /\ Accepted(TimerJob) \/ UNCHANGED mailbox
      /\ UNCHANGED <<state, thread, stateGauge, exec, handled, client, sent, deliver, pending>>
      /\ timer' \in {"idle", "fire", "stopped"}
  BY <1>1 DEF ExecQuit, Tick, Fire, StopTimer, CloseQuit, Refused, TypeOK
<1>4. execDone' \in BOOLEAN /\ quit' \in BOOLEAN
  <2>1. /\ execDone' = execDone \/ execDone' = TRUE
        /\ quit' = quit \/ quit' = TRUE
    BY DEF ExecQuit, Tick, Fire, StopTimer, CloseQuit
  <2> QED
    BY <1>1, <2>1, Zenon DEF TypeOK
<1>5. Queued' = Queued /\ QueuedOnce'
  BY <1>2, <1>3, JobAdded
<1>6. OnePlace'
  BY <1>1, <1>3, <1>5, MessagesStay
<1>7. /\ sent' \in 0..MaxMsgs /\ deliver' \in [Msgs -> Deliveries] /\ pending' \in 0..MaxMsgs
      /\ OnTheWay' \subseteq 1..sent'
  BY <1>1, <1>3 DEF TypeOK, WellFormed, OnTheWay
<1> QED
  BY <1>2, <1>3, <1>4, <1>6, <1>7, SourceKeepsInv

\* The deliveries under way once that of m is moved to d.
LEMMA OneDelivery ==
  ASSUME TypeOK, NEW m \in Msgs, NEW d \in Deliveries, deliver' = [deliver EXCEPT ![m] = d]
  PROVE  /\ deliver' \in [Msgs -> Deliveries]
         /\ OnTheWay' = IF d = "idle" THEN OnTheWay \ {m} ELSE OnTheWay \cup {m}
<1>1. /\ deliver' \in [Msgs -> Deliveries] /\ deliver'[m] = d
      /\ \A o \in Msgs \ {m} : deliver'[o] = deliver[o]
  BY DEF TypeOK
<1> QED
  BY <1>1 DEF OnTheWay

LEMMA DeliveryKeepsInv ==
  ASSUME IInv, Arrive \/ \E m \in Msgs : Hold(m) \/ EnqueueMsg(m)
  PROVE  IInv' /\ (Settled' = Settled \/ Life!Next)
<1> USE DEF nodeVars
<1>1. TypeOK /\ WellFormed /\ OnePlace
  BY DEF IInv, OneTransition
<1>2. /\ UNCHANGED <<state, thread, stateGauge, exec, handled, client, execDone, quit, timer>>
      /\ execDone' \in BOOLEAN /\ quit' \in BOOLEAN
  <2>1. UNCHANGED <<state, thread, stateGauge, exec, handled, client, execDone, quit, timer>>
    BY DEF Arrive, Hold, EnqueueMsg
  <2> QED
    BY <1>1, <2>1 DEF TypeOK
<1>3. /\ MaxMsgs \in Nat /\ sent \in 0..MaxMsgs /\ pending \in 0..MaxMsgs
      /\ timer' \in {"idle", "fire", "stopped"} /\ OnTheWay \subseteq 1..sent
  BY <1>1, <1>2, NodeAssumption DEF TypeOK, WellFormed
<1>4. Handled' = Handled /\ HandledOnce'
  BY <1>1, <1>2 DEF OnePlace, Handled, HandledOnce
<1>5. CASE Arrive
  <2> DEFINE d == IF active THEN "enqueue" ELSE IF Latched THEN "hold" ELSE "idle"
  <2>1. /\ TimerJob \in Jobs /\ TimerJob.owner = NoOwner /\ TimerJob.kind # "msg"
        /\ mailbox' = mailbox /\ sent' = sent + 1 /\ sent < MaxMsgs /\ pending' = pending
        /\ deliver' = [deliver EXCEPT ![sent + 1] = d] /\ d \in Deliveries
    BY <1>5, JobTypes DEF TimerJob, Arrive, Deliveries
  <2> HIDE DEF d
  <2>2. Queued' = Queued /\ QueuedOnce'
    BY <1>1, <2>1, MailUnchanged DEF OnePlace
  <2>3. sent + 1 \in Msgs
    BY <1>3, <2>1 DEF Msgs
  <2>4. deliver' \in [Msgs -> Deliveries] /\ OnTheWay' \subseteq OnTheWay \cup {sent + 1}
    BY <1>1, <2>1, <2>3, OneDelivery
  <2>5. /\ sent + 1 \notin Queued \cup Handled /\ pending # sent + 1
        /\ \A o \in Threads : thread[o].held # sent + 1
    BY <1>1, <1>3, ThreadFields DEF OnePlace
  <2>6. OnePlace'
    BY <1>1, <1>2, <1>3, <1>4, <2>1, <2>2, <2>4, <2>5, ThreadFields DEF OnePlace
  <2> QED
    BY <1>2, <1>3, <2>1, <2>4, <2>6, SourceKeepsInv
<1>6. ASSUME NEW m \in Msgs, Hold(m)
      PROVE  IInv' /\ (Settled' = Settled \/ Life!Next)
  <2>1. /\ TimerJob \in Jobs /\ TimerJob.owner = NoOwner /\ TimerJob.kind # "msg"
        /\ mailbox' = mailbox /\ sent' = sent /\ pending' = m
        /\ m \in OnTheWay /\ deliver' = [deliver EXCEPT ![m] = "idle"] /\ "idle" \in Deliveries
    BY <1>6, JobTypes DEF TimerJob, Hold, OnTheWay, Deliveries
  <2>2. Queued' = Queued /\ QueuedOnce'
    BY <1>1, <2>1, MailUnchanged DEF OnePlace
  <2>3. deliver' \in [Msgs -> Deliveries] /\ OnTheWay' = OnTheWay \ {m}
    BY <1>1, <2>1, OneDelivery
  <2>4. OnePlace'
    BY <1>1, <1>2, <1>3, <1>4, <2>1, <2>2, <2>3 DEF OnePlace
  <2> QED
    BY <1>2, <1>3, <2>1, <2>3, <2>4, SourceKeepsInv
<1>7. ASSUME NEW m \in Msgs, EnqueueMsg(m)
      PROVE  IInv' /\ (Settled' = Settled \/ Life!Next)
  <2>1. /\ MsgJob(m) \in Jobs /\ MsgJob(m).owner = NoOwner
        /\ MsgJob(m).kind = "msg" /\ MsgJob(m).msg = m
        /\ Accepted(MsgJob(m)) \/ UNCHANGED mailbox
        /\ sent' = sent /\ pending' = pending
        /\ m \in OnTheWay /\ deliver' = [deliver EXCEPT ![m] = "idle"] /\ "idle" \in Deliveries
    BY <1>3, <1>7, JobTypes DEF MsgJob, EnqueueMsg, Refused, OnTheWay, Deliveries, Msgs
  <2>2. m \notin Queued /\ m # 0
    BY <1>1, <2>1 DEF OnePlace, Msgs
  <2>3. QueuedOnce' /\ (Queued' = Queued \/ Queued' = Queued \cup {m})
    BY <1>2, <2>1, <2>2, JobAdded
  <2>4. deliver' \in [Msgs -> Deliveries] /\ OnTheWay' = OnTheWay \ {m}
    BY <1>1, <2>1, OneDelivery
  <2>5. OnePlace'
    BY <1>1, <1>2, <1>3, <1>4, <2>1, <2>2, <2>3, <2>4 DEF OnePlace
  <2> QED
    BY <1>2, <1>3, <2>1, <2>2, <2>4, <2>5, SourceKeepsInv
<1> QED
  BY <1>5, <1>6, <1>7

LEMMA RequestKeepsInv ==
  ASSUME IInv, Request
  PROVE  IInv' /\ (Settled' = Settled \/ Life!Next)
<1> USE DEF nodeVars
<1> DEFINE job == SvcJob("client")
<1>1. TypeOK /\ OneTransition /\ WellFormed /\ OneJobEach /\ HeldUp /\ OnePlace /\ QueuedOnce
  BY DEF IInv, OneTransition, OnePlace
<1>2. job.kind = "svc" /\ job.owner = "client" /\ job \in Jobs
  BY JobTypes DEF SvcJob
<1>3. /\ UNCHANGED <<state, thread, stateGauge, exec, handled, execDone, quit, timer, sent, deliver, pending>>
      /\ client = "idle"
      /\ (Accepted(job) /\ client' = "wait") \/ (UNCHANGED mailbox /\ client' = "idle")
  BY DEF Request, Refused
<1> HIDE DEF job
<1>4. "client" \notin QueuedFor \cup {exec.owner} /\ "client" # NoOwner
  BY <1>1, <1>3, Owners DEF OneJobEach, Waiting
<1>5. mailbox' \in Seq(Jobs) /\ Len(mailbox') <= Cap
      /\ \A i \in 1..Len(mailbox') : mailbox'[i].kind = "msg" => mailbox'[i].owner = NoOwner
  <2>1. CASE Accepted(job)
    BY <1>1, <1>2, <2>1, JobAppended DEF WellFormed
  <2>2. CASE UNCHANGED mailbox
    BY <1>1, <2>2 DEF TypeOK, WellFormed
  <2> QED
    BY <1>3, <2>1, <2>2
<1>6. TypeOK'
  BY <1>1, <1>3, <1>5 DEF TypeOK
<1>7. OneTransition' /\ Busy' = Busy /\ Settled' = Settled
  BY <1>1, <1>3, <1>6, SameTransition
<1>8. WellFormed'
  BY <1>1, <1>3, <1>5 DEF OnTheWay, WellFormed
<1>9. OneJobEach'
  <2>1. CASE Accepted(job) /\ client' = "wait"
    <3>1. Waiting' = Waiting \cup {"client"}
      BY <1>3, <2>1 DEF Waiting
    <3>2. /\ QueuedFor' = QueuedFor \cup {"client"}
          /\ \A i, j \in 1..Len(mailbox') :
               mailbox'[i].owner = mailbox'[j].owner /\ mailbox'[i].owner # NoOwner => i = j
      BY <1>1, <1>2, <1>4, <2>1, AppendedOwners
    <3> QED
      BY <1>1, <1>3, <1>4, <3>1, <3>2 DEF OneJobEach
  <2>2. CASE UNCHANGED mailbox /\ client' = "idle"
    <3>1. Waiting' = Waiting
      BY <1>3, <2>2 DEF Waiting
    <3> QED
      BY <1>1, <1>3, <2>2, <3>1, MailUnchanged DEF OneJobEach
  <2> QED
    BY <1>3, <2>1, <2>2
<1>10. HeldUp'
  BY <1>1, <1>3, <1>7, HandlerStays
<1>11. OnePlace'
  <2>1. Queued' = Queued /\ QueuedOnce'
    BY <1>1, <1>2, <1>3, AppendedMessages, MailUnchanged
  <2> QED
    BY <1>1, <1>3, <2>1, MessagesStay
<1> QED
  BY <1>7, <1>8, <1>9, <1>10, <1>11 DEF IInv

LEMMA RespondKeepsInv ==
  ASSUME IInv, Respond
  PROVE  IInv' /\ (Settled' = Settled \/ Life!Next)
<1>1. TypeOK /\ OneTransition /\ WellFormed /\ OneJobEach /\ HeldUp /\ OnePlace /\ QueuedOnce
  BY DEF IInv, OneTransition, OnePlace
<1>2. /\ UNCHANGED <<state, thread, stateGauge, execDone, quit, handled, pending, timer, sent, deliver>>
      /\ client' = "idle"
      /\ (client = "answered" /\ UNCHANGED <<mailbox, exec>>) \/ (client = "wait" /\ Abandon("client"))
  BY DEF Respond
<1>3. CASE client = "answered" /\ UNCHANGED <<mailbox, exec>>
  <2>1. TypeOK'
    BY <1>1, <1>2, <1>3 DEF TypeOK
  <2>2. OneTransition' /\ Busy' = Busy /\ Settled' = Settled
    BY <1>1, <1>2, <2>1, SameTransition
  <2>3. Waiting' = Waiting
    BY <1>2, <1>3 DEF Waiting
  <2>4. WellFormed' /\ OneJobEach'
    BY <1>1, <1>2, <1>3, <2>3, MailUnchanged DEF OnTheWay, WellFormed, OneJobEach
  <2>5. HeldUp'
    BY <1>1, <1>2, <1>3, <2>2, HandlerStays
  <2>6. OnePlace'
    BY <1>1, <1>2, <1>3, MailUnchanged, MessagesStay
  <2> QED
    BY <2>2, <2>4, <2>5, <2>6 DEF IInv
<1>4. CASE client = "wait" /\ Abandon("client")
  <2>1. TypeOK'
    BY <1>1, <1>2, <1>4, JobAbandoned DEF TypeOK
  <2>2. OneTransition' /\ Busy' = Busy /\ Settled' = Settled
    BY <1>1, <1>2, <2>1, SameTransition
  <2>3. WellFormed'
    <3>1. exec'.kind = "msg" => exec'.owner = NoOwner
      BY <1>1, <1>4, JobAbandoned, Owners DEF WellFormed
    <3>2. \A i \in 1..Len(mailbox') : mailbox'[i].kind = "msg" => mailbox'[i].owner = NoOwner
      BY <1>1, <1>4, JobAbandoned, Owners DEF WellFormed
    <3> QED
      BY <1>1, <1>2, <3>1, <3>2 DEF OnTheWay, WellFormed
  <2>4. OneJobEach'
    <3>1. Waiting' = Waiting \ {"client"}
      BY <1>2, <1>4, Owners DEF Waiting
    <3> QED
      BY <1>1, <1>4, <3>1, AbandonedOwners DEF OneJobEach
  <2>5. HeldUp'
    <3>1. exec'.kind = exec.kind
      BY <1>1, <1>4, JobAbandoned
    <3> QED
      BY <1>1, <1>2, <2>2, <3>1, HandlerStays
  <2>6. OnePlace'
    BY <1>1, <1>2, <1>4, AbandonedMessages, MessagesStay
  <2> QED
    BY <2>2, <2>3, <2>4, <2>5, <2>6 DEF IInv
<1> QED
  BY <1>2, <1>3, <1>4

\* Every step of the node keeps the invariant, and an observer of primary states
\* sees an arc of the design or nothing.
LEMMA StepKeepsInv ==
  ASSUME IInv, [Next]_vars
  PROVE  IInv' /\ (Settled' = Settled \/ Life!Next)
<1>1. ASSUME NEW th \in Threads, NEW row \in transitionTable, Begin(th, row)
      PROVE  IInv' /\ (Settled' = Settled \/ Life!Next)
  BY <1>1, BeginKeepsInv
<1>2. ASSUME NEW th \in Threads, ThreadStep(th)
      PROVE  IInv' /\ (Settled' = Settled \/ Life!Next)
  BY <1>2, RunHookKeepsInv, HookReturnedKeepsInv, CommitKeepsInv, OnActiveKeepsInv, FlushKeepsInv,
     EndKeepsInv DEF ThreadStep
<1>3. CASE Take
  BY <1>3, TakeKeepsInv
<1>4. CASE Finish
  BY <1>4, FinishKeepsInv
<1>5. CASE ExecQuit \/ Tick \/ Fire \/ StopTimer \/ CloseQuit
  BY <1>5, QuietSourceKeepsInv
<1>6. CASE Arrive \/ \E m \in Msgs : Hold(m) \/ EnqueueMsg(m)
  BY <1>6, DeliveryKeepsInv
<1>7. CASE Request
  BY <1>7, RequestKeepsInv
<1>8. CASE Respond
  BY <1>8, RespondKeepsInv
<1>9. CASE UNCHANGED vars
  <2>1. UNCHANGED <<state, thread, stateGauge, mailbox, exec, execDone, quit, timer, sent, deliver,
                    pending, handled, client>>
    BY <1>9 DEF vars
  <2>2. TypeOK /\ OneTransition /\ WellFormed /\ OneJobEach /\ HeldUp /\ OnePlace /\ QueuedOnce
    BY DEF IInv, OneTransition, OnePlace
  <2>3. TypeOK'
    BY <2>1, <2>2 DEF TypeOK
  <2>4. OneTransition' /\ Busy' = Busy /\ Settled' = Settled
    BY <2>1, <2>2, <2>3, SameTransition
  <2>5. Waiting' = Waiting
    BY <2>1 DEF Waiting
  <2>6. WellFormed' /\ OneJobEach'
    BY <2>1, <2>2, <2>5, MailUnchanged DEF OnTheWay, WellFormed, OneJobEach
  <2>7. HeldUp'
    BY <2>1, <2>2, <2>4, HandlerStays
  <2>8. OnePlace'
    BY <2>1, <2>2, MailUnchanged, MessagesStay
  <2> QED
    BY <2>4, <2>6, <2>7, <2>8 DEF IInv
<1> QED
  BY <1>1, <1>2, <1>3, <1>4, <1>5, <1>6, <1>7, <1>8, <1>9 DEF Next

-----------------------------------------------------------------------------
(* What follows.                                                             *)

\* In every reachable state the inductive invariant holds: what the other
\* theorems rest on.
THEOREM Invariance == Spec => []IInv
<1>1. IInv /\ [Next]_vars => IInv'
  BY StepKeepsInv
<1> QED
  BY Start, <1>1, PTL DEF Spec

\* Transitions exclude one another although transition drops l.mu while its hook
\* runs: one thread at a time is between its two critical sections.
THEOREM TransitionsExclude == Spec => []OneTransition
<1>1. IInv => OneTransition
  BY DEF IInv
<1> QED
  BY Invariance, <1>1, PTL

\* A hook's and a service's result go to whoever waits for them in runHook or in
\* the service's caller, one job for each and none for anyone else.
THEOREM JobsAnswered == Spec => []JobsAnswerTheirOwner
<1>1. ASSUME IInv, NEW who \in Threads \cup {"client"}
      PROVE  JobsOf(who) = IF who \in Waiting THEN 1 ELSE 0
  <2> DEFINE Mine == {i \in 1..Len(mailbox) : mailbox[i].owner = who}
  <2>1. OneJobEach /\ who # NoOwner
    BY <1>1, Owners DEF IInv
  <2>2. Mine # {} <=> who \in QueuedFor
    BY DEF QueuedFor
  <2>3. \A i, j \in Mine : i = j
    BY <2>1 DEF OneJobEach
  <2>4. CASE who \notin Waiting
    <3>1. Mine = {} /\ exec.owner # who
      BY <2>1, <2>2, <2>4 DEF OneJobEach
    <3> QED
      BY <2>4, <3>1, FS_EmptySet DEF JobsOf
  <2>5. CASE who \in Waiting /\ exec.owner = who
    <3>1. Mine = {}
      BY <2>1, <2>2, <2>5 DEF OneJobEach
    <3> QED
      BY <2>5, <3>1, FS_EmptySet DEF JobsOf
  <2>6. CASE who \in Waiting /\ exec.owner # who
    <3>1. Mine # {}
      BY <2>1, <2>2, <2>6 DEF OneJobEach
    <3>2. PICK i \in Mine : Mine = {i}
      BY <2>3, <3>1
    <3>3. Cardinality(Mine) = 1
      BY <3>2, FS_Singleton
    <3>4. JobsOf(who) = Cardinality(Mine) + (IF exec.owner = who THEN 1 ELSE 0)
      BY DEF JobsOf
    <3> QED
      BY <2>6, <3>3, <3>4
  <2> QED
    BY <2>4, <2>5, <2>6
<1>2. ASSUME NEW th \in Threads
      PROVE  th \in Waiting <=> thread[th].pc = "wait" /\ thread[th].res = "none"
  BY Owners DEF Waiting
<1>3. "client" \in Waiting <=> client = "wait"
  BY Owners DEF Waiting
<1>4. IInv => JobsAnswerTheirOwner
  BY <1>1, <1>2, <1>3 DEF JobsAnswerTheirOwner
<1> QED
  BY Invariance, <1>4, PTL

\* With hooks for leaving Active no message handler runs on a node that has left
\* it: the executor works the handler off before the hook, the transition waits.
THEOREM Quiet == Spec => []QuietWhenInactive
<1>1. ASSUME IInv, LeavingHooks \subseteq Hooked, exec.kind = "msg"
      PROVE  state \in {"Active", "Deactivating", "ShuttingDown"}
  <2>1. TypeOK /\ OneTransition /\ HeldUp
    BY <1>1 DEF IInv, OneTransition
  <2>2. CASE state = "Active"
    BY <2>2
  <2>3. CASE \E th \in Busy : thread[th].row.from = "Active"
    <3>1. PICK th \in Busy : thread[th].row.from = "Active"
      BY <2>3
    <3>2. state = intermediateState(thread[th].row.t)
      BY <2>1, <3>1 DEF OneTransition, TypeOK
    <3>3. th \in Threads /\ thread[th].row.t \in LeavingHooks
      BY <2>1, <3>1, ThreadFields, RowFacts DEF Busy
    <3> QED
      BY <3>2, <3>3 DEF LeavingHooks, intermediateState
  <2> QED
    BY <1>1, <2>1, <2>2, <2>3 DEF HeldUp
<1>2. IInv => QuietWhenInactive
  BY <1>1 DEF QuietWhenInactive
<1> QED
  BY Invariance, <1>2, PTL

\* The handler sees a message once, however the delivery, the latch's flush and
\* any number of activations interleave.
THEOREM Once == Spec => []HandledOnce
<1>1. IInv => HandledOnce
  BY DEF IInv, OnePlace
<1> QED
  BY Invariance, <1>1, PTL

\* The node refines the managed-node design: an observer of its primary states
\* sees the design's arcs, and a failed transition leaves no trace.
THEOREM Refinement == Spec => ImplementsLife
<1>1. Init => Life!Init
  BY DEF Init, Life!Init, Settled, Primary
<1>2. IInv /\ [Next]_vars => [Life!Next]_Settled
  BY StepKeepsInv
<1> QED
  BY Invariance, <1>1, <1>2, PTL DEF Spec, ImplementsLife, Life!Spec
=============================================================================
