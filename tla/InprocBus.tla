----------------------------- MODULE InprocBus -----------------------------
(***************************************************************************)
(* One transient-local topic of the in-process transport (bus.go).         *)
(* Publishing and subscribing take b.mu only to update the tables; the     *)
(* messages are handed to the subscribers after the unlock, on the         *)
(* publisher's or the subscriber's own goroutine.  Messages are numbered   *)
(* in the order in which publishers take the lock.                         *)
(***************************************************************************)
EXTENDS Integers, Sequences, SequencesExt

CONSTANTS
  Pubs,      \* goroutines that publish on the topic
  Subs,      \* subscriptions declared on it
  Keep,      \* the publishers' history depth
  MaxMsgs    \* bound: messages published

ASSUME BusAssumption == Keep \in Nat \ {0} /\ MaxMsgs \in Nat

VARIABLES
  count,       \* messages published so far
  registered,  \* b.subs: the subscriptions, in order of registration
  latched,     \* b.latched: the retained messages
  pub,         \* publisher |-> the message it is delivering and to whom still
  replay,      \* subscription |-> the history its Subscribe has yet to deliver
  base,        \* history: subscription |-> messages published before it
  seen         \* subscription |-> the messages delivered to it, in order

busVars == <<count, registered, latched, pub, replay, base, seen>>

NoDelivery == [msg |-> 0, to |-> <<>>]

BusTypeOK ==
  /\ count \in 0..MaxMsgs
  /\ registered \in Seq(Subs)
  /\ latched \in Seq(1..count) /\ Len(latched) <= Keep
  /\ pub \in [Pubs -> [msg: 0..count, to: Seq(Subs)]]
  /\ replay \in [Subs -> Seq(1..count)]
  /\ base \in [Subs -> 0..count]
  /\ seen \in [Subs -> Seq(1..count)]

BusInit ==
  /\ count = 0 /\ registered = <<>> /\ latched = <<>>
  /\ pub = [p \in Pubs |-> NoDelivery]
  /\ replay = [s \in Subs |-> <<>>]
  /\ base = [s \in Subs |-> 0]
  /\ seen = [s \in Subs |-> <<>>]

\* The last n elements of a sequence.
Newest(q, n) == SubSeq(q, IF Len(q) > n THEN Len(q) - n + 1 ELSE 1, Len(q))

\* The function Publisher returns, up to its unlock: latch and look who is there.
Publish(p) ==
  /\ pub[p].to = <<>>
  /\ count < MaxMsgs
  /\ count' = count + 1
  /\ latched' = Newest(Append(latched, count + 1), Keep)
  /\ pub' = [pub EXCEPT ![p] = [msg |-> count + 1, to |-> registered]]
  /\ UNCHANGED <<registered, replay, base, seen>>

\* ... and its loop over the subscribers it found.
DeliverLive(p) ==
  /\ pub[p].to # <<>>
  /\ seen' = [seen EXCEPT ![Head(pub[p].to)] = Append(@, pub[p].msg)]
  /\ pub' = [pub EXCEPT ![p].to = Tail(@)]
  /\ UNCHANGED <<count, registered, latched, replay, base>>

\* Mutant: only the last retained message is replayed.
SubscribeLast(s) ==
  /\ ~Contains(registered, s)
  /\ registered' = Append(registered, s)
  /\ replay' = [replay EXCEPT ![s] = Newest(latched, 1)]
  /\ base' = [base EXCEPT ![s] = count]
  /\ UNCHANGED <<count, latched, pub, seen>>

\* Subscribe, up to its unlock: register and copy the history.
Subscribe(s) ==
  /\ ~Contains(registered, s)
  /\ registered' = Append(registered, s)
  /\ replay' = [replay EXCEPT ![s] = latched]
  /\ base' = [base EXCEPT ![s] = count]
  /\ UNCHANGED <<count, latched, pub, seen>>

\* ... and its loop over that history.
DeliverHistory(s) ==
  /\ replay[s] # <<>>
  /\ seen' = [seen EXCEPT ![s] = Append(@, Head(replay[s]))]
  /\ replay' = [replay EXCEPT ![s] = Tail(@)]
  /\ UNCHANGED <<count, registered, latched, pub, base>>

BusNext ==
  \/ \E p \in Pubs : Publish(p) \/ DeliverLive(p)
  \/ \E s \in Subs : Subscribe(s) \/ DeliverHistory(s)

BusSpec == BusInit /\ [][BusNext]_busVars

-----------------------------------------------------------------------------
(* Properties.                                                               *)

\* Messages still on their way to s.
OnTheWay(s) ==
  Range(replay[s])
    \cup {pub[p].msg : p \in {q \in Pubs : Contains(pub[q].to, s)}}

\* What a subscription is owed: the retained messages from before it and every
\* message since.
Owed(s) == {m \in 1..count : m > base[s] - Keep}

\* Registering and reading the history are one critical section, and so are
\* latching and reading the subscribers: no message falls between history and
\* live traffic, whichever way the two race.
NothingMissed ==
  \A s \in Range(registered) : Range(seen[s]) \cup OnTheWay(s) = Owed(s)

\* ... and none is delivered twice.
NothingTwice ==
  \A s \in Subs :
    /\ IsInjective(seen[s])
    /\ Range(seen[s]) \cap OnTheWay(s) = {}

\* What is retained is the newest messages, in order of publication.
NewestRetained ==
  latched = [i \in 1..Len(latched) |-> count - Len(latched) + i]

\* All of it together: a late subscriber of a latched topic is owed the newest
\* messages and everything since, and each of them once.
DeliveredOnce == BusTypeOK /\ NothingMissed /\ NothingTwice /\ NewestRetained

-----------------------------------------------------------------------------
(* What a comment says and the code does not do.                             *)

\* "the ordering a subscriber sees is history first and then live messages".
HistoryFirst ==
  \A s \in Subs : \A i, j \in 1..Len(seen[s]) :
    seen[s][i] <= base[s] /\ seen[s][j] > base[s] => i < j
=============================================================================
