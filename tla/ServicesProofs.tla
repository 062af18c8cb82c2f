--------------------------- MODULE ServicesProofs ---------------------------
(***************************************************************************)
(* What holds of a transient-local topic for any publishing goroutines,    *)
(* any subscriptions, any history depth and any number of messages; of the *)
(* parameters of a node for any declarations, files, clients and requests; *)
(* and of the simulated clock.                                             *)
(***************************************************************************)
EXTENDS InprocBus, ParamServices, SimClock, TLAPS, SequenceTheorems

-----------------------------------------------------------------------------
(* Sequences as the sets of what is in them.                                 *)

LEMMA RangeOfEmpty == Range(<<>>) = {} /\ IsInjective(<<>>)
  BY DEF Range, IsInjective

LEMMA ContainsIsRange ==
  ASSUME NEW S, NEW q \in Seq(S), NEW e
  PROVE  Contains(q, e) <=> e \in Range(q)
  BY LenProperties DEF Contains, Range

LEMMA RangeIn ==
  ASSUME NEW S, NEW q \in Seq(S)
  PROVE  Range(q) \subseteq S
  BY LenProperties DEF Range

LEMMA RangeOfAppend ==
  ASSUME NEW S, NEW q \in Seq(S), NEW e \in S
  PROVE  /\ Append(q, e) \in Seq(S) /\ Range(Append(q, e)) = Range(q) \cup {e}
         /\ IsInjective(q) /\ e \notin Range(q) => IsInjective(Append(q, e))
<1> DEFINE a == Append(q, e)
<1>1. /\ a \in Seq(S) /\ Len(q) \in Nat /\ Len(a) = Len(q) + 1
      /\ DOMAIN q = 1..Len(q) /\ DOMAIN a = 1..Len(a)
      /\ \A i \in 1..Len(q) : a[i] = q[i]
      /\ a[Len(q) + 1] = e
  BY AppendProperties, LenProperties
<1> HIDE DEF a
<1>2. \A k \in 1..Len(a) : k \in 1..Len(q) \/ k = Len(q) + 1
  BY <1>1
<1>3. Range(a) \subseteq Range(q) \cup {e} /\ Range(q) \subseteq Range(a) /\ e \in Range(a)
  BY <1>1, <1>2 DEF Range
<1>4. \A k \in 1..Len(q) : q[k] \in Range(q)
  BY <1>1 DEF Range
<1>5. IsInjective(q) /\ e \notin Range(q) => IsInjective(a)
  BY <1>1, <1>2, <1>4 DEF IsInjective
<1> QED
  BY <1>1, <1>3, <1>5 DEF a

LEMMA RangeOfTail ==
  ASSUME NEW S, NEW q \in Seq(S), q # <<>>
  PROVE  /\ Head(q) \in S /\ Tail(q) \in Seq(S) /\ Range(q) = Range(Tail(q)) \cup {Head(q)}
         /\ IsInjective(q) => IsInjective(Tail(q)) /\ Head(q) \notin Range(Tail(q))
<1> DEFINE t == Tail(q)
<1>1. /\ Head(q) \in S /\ t \in Seq(S) /\ Len(t) = Len(q) - 1 /\ Len(q) \in Nat \ {0}
      /\ DOMAIN q = 1..Len(q) /\ DOMAIN t = 1..Len(t)
      /\ \A i \in 1..Len(t) : t[i] = q[i + 1]
      /\ Head(q) = q[1]
  BY HeadTailProperties, LenProperties, EmptySeq
<1> HIDE DEF t
<1>2. \A k \in 1..Len(q) : k = 1 \/ (k - 1 \in 1..Len(t) /\ t[k - 1] = q[k])
  <2>1. \A k \in 1..Len(q) : k = 1 \/ (k - 1 \in 1..Len(t) /\ (k - 1) + 1 = k)
    BY <1>1
  <2> QED
    BY <1>1, <2>1
<1>3. \A k \in 1..Len(t) : k + 1 \in 1..Len(q) /\ k + 1 # 1
  BY <1>1
<1>4. Range(t) \cup {Head(q)} \subseteq Range(q)
  BY <1>1, <1>3 DEF Range
<1>5. Range(q) \subseteq Range(t) \cup {Head(q)}
  BY <1>1, <1>2 DEF Range
<1>6. ASSUME IsInjective(q)
      PROVE  IsInjective(t) /\ Head(q) \notin Range(t)
  <2>1. \A j, k \in 1..Len(t) : t[j] = t[k] => j + 1 = k + 1
    BY <1>1, <1>3, <1>6 DEF IsInjective
  <2>2. IsInjective(t)
    BY <1>1, <2>1 DEF IsInjective
  <2>3. \A k \in 1..Len(t) : t[k] # q[1]
    BY <1>1, <1>3, <1>6 DEF IsInjective
  <2> QED
    BY <1>1, <2>2, <2>3 DEF Range
<1> QED
  BY <1>1, <1>4, <1>5, <1>6 DEF t

-----------------------------------------------------------------------------
(* What Publisher and Subscribe rely on without saying it.                   *)

\* A subscription registers once, and is sent nothing before.
Registers ==
  /\ IsInjective(registered)
  /\ \A s \in Subs : s \notin Range(registered) => seen[s] = <<>> /\ replay[s] = <<>>

\* A publisher is on its way to subscriptions older than its message, to each
\* once, and no two carry the same message.
LiveIsLater ==
  \A p \in Pubs :
    /\ IsInjective(pub[p].to)
    /\ \A s \in Range(pub[p].to) : s \in Range(registered) /\ pub[p].msg > base[s]
    /\ \A q \in Pubs \ {p} : pub[p].to # <<>> /\ pub[q].to # <<>> => pub[p].msg # pub[q].msg

\* A subscription's history is older than it, each message once.
HistoryIsEarlier ==
  \A s \in Subs : IsInjective(replay[s]) /\ \A m \in Range(replay[s]) : m <= base[s]

\* All that may be retained is.
RetainedFull == Len(latched) = IF count < Keep THEN count ELSE Keep

\* The messages that publishers are taking to s.
Live(s) == {pub[p].msg : p \in {q \in Pubs : s \in Range(pub[q].to)}}

\* NothingMissed and NothingTwice, with what is on the way told apart.
Reached ==
  \A s \in Range(registered) :
    Range(seen[s]) \cup Range(replay[s]) \cup Live(s) = Owed(s)

ReachedOnce ==
  \A s \in Subs :
    /\ IsInjective(seen[s])
    /\ Range(seen[s]) \cap (Range(replay[s]) \cup Live(s)) = {}

BusInv ==
  /\ BusTypeOK
  /\ Registers
  /\ LiveIsLater
  /\ HistoryIsEarlier
  /\ NewestRetained
  /\ RetainedFull
  /\ Reached
  /\ ReachedOnce

\* The types as the steps below use them.
LEMMA Types ==
  ASSUME BusTypeOK
  PROVE  /\ count \in Nat /\ Keep \in Nat \ {0} /\ MaxMsgs \in Nat
         /\ registered \in Seq(Subs) /\ latched \in Seq(1..count)
         /\ \A p \in Pubs : pub[p].to \in Seq(Subs) /\ pub[p].msg \in 0..count
         /\ \A s \in Subs : /\ replay[s] \in Seq(1..count) /\ seen[s] \in Seq(1..count)
                            /\ base[s] \in 0..count
                            /\ Range(seen[s]) \subseteq 1..count /\ Range(replay[s]) \subseteq 1..count
                            /\ OnTheWay(s) = Range(replay[s]) \cup Live(s)
<1>1. /\ count \in Nat /\ Keep \in Nat \ {0} /\ MaxMsgs \in Nat
      /\ registered \in Seq(Subs) /\ latched \in Seq(1..count)
      /\ \A p \in Pubs : pub[p].to \in Seq(Subs) /\ pub[p].msg \in 0..count
      /\ \A s \in Subs : replay[s] \in Seq(1..count) /\ seen[s] \in Seq(1..count) /\ base[s] \in 0..count
  BY BusAssumption DEF BusTypeOK
<1>2. \A s \in Subs : Range(seen[s]) \subseteq 1..count /\ Range(replay[s]) \subseteq 1..count
  BY <1>1, RangeIn
<1>3. \A p \in Pubs, s \in Subs : Contains(pub[p].to, s) <=> s \in Range(pub[p].to)
  BY <1>1, ContainsIsRange
<1>4. \A s \in Subs : OnTheWay(s) = Range(replay[s]) \cup Live(s)
  BY <1>3 DEF OnTheWay, Live
<1> QED
  BY <1>1, <1>2, <1>4

\* Sequences of messages as the count goes up.
LEMMA MoreMessages ==
  ASSUME NEW n \in Nat, NEW q \in Seq(1..n)
  PROVE  q \in Seq(1..(n + 1))
<1>1. 1..n \subseteq 1..(n + 1)
  OBVIOUS
<1> QED
  BY <1>1, SeqMonotonic

\* The end of a sequence, from its m-th element on.
LEMMA EndOf ==
  ASSUME NEW S, NEW q \in Seq(S), NEW m \in Int, NEW n \in Int, n = Len(q), 1 <= m, m <= n
  PROVE  /\ SubSeq(q, m, n) \in Seq(S)
         /\ Len(SubSeq(q, m, n)) = n - m + 1
         /\ \A i \in 1..(n - m + 1) : SubSeq(q, m, n)[i] = q[m + i - 1]
<1>1. \A i \in 1..n : q[i] \in S
  BY ElementOfSeq
<1>2. ASSUME NEW i \in m..n
      PROVE  q[i] \in S
  <2>1. i \in 1..n
    BY <1>2
  <2> QED
    BY <1>1, <2>1
<1>3. \A i \in m..n : q[i] \in S
  BY <1>2
<1>4. /\ SubSeq(q, m, n) \in Seq(S)
      /\ Len(SubSeq(q, m, n)) = IF m <= n THEN n - m + 1 ELSE 0
      /\ \A i \in 1..(n - m + 1) : SubSeq(q, m, n)[i] = q[m + i - 1]
  BY <1>3, SubSeqProperties
<1> QED
  BY <1>4

\* The newest of what is retained and one message more.
LEMMA Retains ==
  ASSUME BusTypeOK, NewestRetained, RetainedFull,
         count' = count + 1, latched' = Newest(Append(latched, count + 1), Keep)
  PROVE  /\ latched' \in Seq(1..count') /\ Len(latched') <= Keep
         /\ NewestRetained' /\ RetainedFull'
<1> DEFINE a == Append(latched, count + 1)
<1> DEFINE first == IF Len(a) > Keep THEN Len(a) - Keep + 1 ELSE 1
<1>1. count \in Nat /\ Keep \in Nat \ {0} /\ latched \in Seq(1..count) /\ Len(latched) \in Nat
  BY Types, LenProperties
<1>2. latched \in Seq(1..(count + 1)) /\ count + 1 \in 1..(count + 1)
  BY <1>1, MoreMessages
<1>3. /\ a \in Seq(1..(count + 1)) /\ Len(a) = Len(latched) + 1
      /\ \A i \in 1..Len(latched) : a[i] = latched[i]
      /\ a[Len(latched) + 1] = count + 1
  BY <1>2, AppendProperties
<1>4. \A i \in 1..Len(latched) : latched[i] = count - Len(latched) + i
  BY <1>1 DEF NewestRetained
<1>5. \A i \in 1..Len(a) : a[i] = count - Len(latched) + i
  <2>1. \A i \in 1..Len(a) : i \in 1..Len(latched) \/ i = Len(latched) + 1
    BY <1>1, <1>3
  <2>2. count - Len(latched) + (Len(latched) + 1) = count + 1
    BY <1>1
  <2> QED
    BY <1>3, <1>4, <2>1, <2>2
<1>6. latched' = SubSeq(a, first, Len(a))
  BY DEF Newest
<1> HIDE DEF a
<1>7. first \in Int /\ Len(a) \in Int /\ 1 <= first /\ first <= Len(a)
  BY <1>1, <1>3
<1>9. Len(latched) = IF count < Keep THEN count ELSE Keep
  BY DEF RetainedFull
<1>10. first = IF count < Keep THEN 1 ELSE 2
  BY <1>1, <1>3, <1>9
<1> HIDE DEF first
<1>11. /\ latched' \in Seq(1..(count + 1))
       /\ Len(latched') = Len(a) - first + 1
       /\ \A i \in 1..(Len(a) - first + 1) : latched'[i] = a[first + i - 1]
  <2> DEFINE M == 1..(count + 1)
  <2> DEFINE n == Len(a)
  <2>1. a \in Seq(M) /\ first \in Int /\ n \in Int /\ n = Len(a) /\ 1 <= first /\ first <= n
    BY <1>3, <1>7
  <2> HIDE DEF M, n
  <2>2. /\ SubSeq(a, first, n) \in Seq(M)
        /\ Len(SubSeq(a, first, n)) = n - first + 1
        /\ \A i \in 1..(n - first + 1) : SubSeq(a, first, n)[i] = a[first + i - 1]
    BY <2>1, EndOf
  <2>3. latched' = SubSeq(a, first, n)
    BY <1>6 DEF n
  <2>4. /\ latched' \in Seq(M)
        /\ Len(latched') = n - first + 1
        /\ \A i \in 1..(n - first + 1) : latched'[i] = a[first + i - 1]
    BY <2>2, <2>3
  <2> QED
    BY <2>4 DEF M, n
<1>12. Len(latched') = IF count + 1 < Keep THEN count + 1 ELSE Keep
  BY <1>1, <1>3, <1>9, <1>10, <1>11
<1>13. \A i \in 1..Len(latched') : latched'[i] = (count + 1) - Len(latched') + i
  <2>1. ASSUME NEW i \in 1..Len(latched')
        PROVE  latched'[i] = (count + 1) - Len(latched') + i
    <3>1. first + i - 1 \in 1..Len(a) /\ i \in 1..(Len(a) - first + 1) /\ i \in Int
      BY <1>1, <1>3, <1>7, <1>11, <2>1
    <3> DEFINE k == first + i - 1
    <3>2. latched'[i] = count - Len(latched) + k
      <4>1. latched'[i] = a[k]
        BY <1>11, <3>1
      <4>2. k \in 1..Len(a)
        BY <3>1
      <4> HIDE DEF k
      <4> QED
        BY <1>5, <4>1, <4>2
    <3>3. Len(latched') = Len(a) - first + 1 /\ Len(a) = Len(latched) + 1
      BY <1>3, <1>11
    <3>4. count - Len(latched) + k = (count + 1) - (Len(a) - first + 1) + i
      BY <1>1, <1>7, <3>1, <3>3
    <3> HIDE DEF k
    <3> QED
      BY <3>2, <3>3, <3>4
  <2> QED
    BY <2>1
<1>14. latched' = [i \in 1..Len(latched') |-> count' - Len(latched') + i]
  <2>1. DOMAIN latched' = 1..Len(latched') /\ latched' = [i \in DOMAIN latched' |-> latched'[i]]
    BY <1>11, LenProperties
  <2> QED
    BY <1>13, <2>1
<1> QED
  BY <1>1, <1>11, <1>12, <1>14 DEF NewestRetained, RetainedFull

\* What is retained, as a set.
LEMMA RetainedIs ==
  ASSUME BusTypeOK, NewestRetained, RetainedFull
  PROVE  /\ Range(latched) = {m \in 1..count : m > count - Keep}
         /\ IsInjective(latched)
<1>1. count \in Nat /\ Keep \in Nat \ {0} /\ Len(latched) \in Nat /\ DOMAIN latched = 1..Len(latched)
  BY Types, LenProperties
<1>2. Len(latched) = IF count < Keep THEN count ELSE Keep
  BY DEF RetainedFull
<1>3. \A i \in 1..Len(latched) : latched[i] = count - Len(latched) + i
  BY <1>1 DEF NewestRetained
<1>4. Range(latched) \subseteq {m \in 1..count : m > count - Keep}
  BY <1>1, <1>2, <1>3 DEF Range
<1>5. {m \in 1..count : m > count - Keep} \subseteq Range(latched)
  <2>1. ASSUME NEW m \in 1..count, m > count - Keep
        PROVE  \E i \in 1..Len(latched) : latched[i] = m
    <3> DEFINE i == m - (count - Len(latched))
    <3>1. i \in 1..Len(latched) /\ count - Len(latched) + i = m
      BY <1>1, <1>2, <2>1
    <3> HIDE DEF i
    <3> QED
      BY <1>3, <3>1
  <2> QED
    BY <1>1, <2>1 DEF Range
<1>6. IsInjective(latched)
  BY <1>1, <1>3 DEF IsInjective
<1> QED
  BY <1>4, <1>5, <1>6

-----------------------------------------------------------------------------
(* Every step keeps the invariant.                                           *)

LEMMA BusStarts == BusInit => BusInv
<1> SUFFICES ASSUME BusInit PROVE BusInv
  OBVIOUS
<1>1. /\ count = 0 /\ registered = <<>> /\ latched = <<>>
      /\ pub = [p \in Pubs |-> [msg |-> 0, to |-> <<>>]]
      /\ replay = [s \in Subs |-> <<>>] /\ base = [s \in Subs |-> 0] /\ seen = [s \in Subs |-> <<>>]
      /\ Keep \in Nat \ {0} /\ MaxMsgs \in Nat
  BY BusAssumption DEF BusInit, NoDelivery
<1>2. /\ <<>> \in Seq(Subs) /\ <<>> \in Seq(1..count) /\ Len(<<>>) = 0
      /\ \A p \in Pubs : pub[p].to = <<>>
  BY <1>1, EmptySeq
<1>3. BusTypeOK
  BY <1>1, <1>2 DEF BusTypeOK
<1>4. Registers /\ LiveIsLater /\ HistoryIsEarlier
  BY <1>1, <1>2, RangeOfEmpty DEF Registers, LiveIsLater, HistoryIsEarlier
<1>5. NewestRetained /\ RetainedFull
  <2>1. Len(latched) = 0 /\ 1..Len(latched) = {}
    BY <1>1, <1>2
  <2>2. latched = [i \in 1..Len(latched) |-> count - Len(latched) + i]
    BY <1>1, <2>1
  <2> QED
    BY <1>1, <2>1, <2>2 DEF NewestRetained, RetainedFull
<1>6. \A s : Live(s) = {}
  BY <1>2, RangeOfEmpty DEF Live
<1>7. Reached /\ ReachedOnce
  BY <1>1, <1>6, RangeOfEmpty DEF Reached, ReachedOnce
<1> QED
  BY <1>3, <1>4, <1>5, <1>7 DEF BusInv

\* A published message is newer than all that anybody has or is getting, and
\* goes to every subscription registered when it takes its number.
LEMMA PublishKeepsInv ==
  ASSUME BusInv, NEW p \in Pubs, Publish(p)
  PROVE  BusInv'
<1> DEFINE n == count + 1
<1>1. /\ count' = n /\ registered' = registered /\ replay' = replay
      /\ base' = base /\ seen' = seen /\ pub[p].to = <<>> /\ count < MaxMsgs
      /\ latched' = Newest(Append(latched, n), Keep)
      /\ pub' = [pub EXCEPT ![p] = [msg |-> n, to |-> registered]]
  BY DEF Publish
<1>2. BusTypeOK /\ Registers /\ LiveIsLater /\ HistoryIsEarlier /\ NewestRetained
      /\ RetainedFull /\ Reached /\ ReachedOnce
  BY DEF BusInv
<1>3. /\ count \in Nat /\ MaxMsgs \in Nat /\ registered \in Seq(Subs)
      /\ \A q \in Pubs : pub[q].to \in Seq(Subs) /\ pub[q].msg \in 0..count
      /\ \A s \in Subs : /\ replay[s] \in Seq(1..count) /\ seen[s] \in Seq(1..count)
                         /\ base[s] \in 0..count
                         /\ Range(seen[s]) \subseteq 1..count /\ Range(replay[s]) \subseteq 1..count
  BY <1>2, Types
<1>4. /\ pub \in [Pubs -> [msg: 0..count, to: Seq(Subs)]]
      /\ replay \in [Subs -> Seq(1..count)] /\ seen \in [Subs -> Seq(1..count)]
      /\ base \in [Subs -> 0..count]
  BY <1>2 DEF BusTypeOK
<1>5. /\ pub'[p].msg = n /\ pub'[p].to = registered
      /\ \A q \in Pubs \ {p} : pub'[q] = pub[q]
  BY <1>1, <1>4
<1>6. latched' \in Seq(1..count') /\ Len(latched') <= Keep /\ NewestRetained' /\ RetainedFull'
  BY <1>1, <1>2, Retains
<1>7. BusTypeOK'
  <2>1. count' \in 0..MaxMsgs
    BY <1>1, <1>3
  <2>2. \A s \in Subs : replay[s] \in Seq(1..n) /\ seen[s] \in Seq(1..n) /\ base[s] \in 0..n
    BY <1>3, MoreMessages
  <2>3. replay' \in [Subs -> Seq(1..n)] /\ seen' \in [Subs -> Seq(1..n)] /\ base' \in [Subs -> 0..n]
    BY <1>1, <1>4, <2>2
  <2>4. 0..count \subseteq 0..n /\ n \in 0..n
    BY <1>3
  <2> HIDE DEF n
  <2>5. pub' \in [Pubs -> [msg: 0..n, to: Seq(Subs)]]
    BY <1>1, <1>3, <1>4, <2>4
  <2> QED
    BY <1>1, <1>3, <1>6, <2>1, <2>3, <2>5 DEF BusTypeOK
<1>8. Registers' /\ HistoryIsEarlier'
  BY <1>1, <1>2 DEF Registers, HistoryIsEarlier
<1>9. \A s \in Range(registered) : s \in Subs
  BY <1>3, RangeIn
<1>10. /\ \A q \in Pubs : pub[q].msg # n /\ pub[q].msg < n
       /\ \A s \in Subs : n > base[s] /\ n \notin Range(seen[s])
  <2>1. \A k \in 0..count : k # n /\ k < n /\ n > k
    BY <1>3
  <2>2. n \notin 1..count
    BY <1>3
  <2> HIDE DEF n
  <2>3. \A s \in Subs : n \notin Range(seen[s])
    BY <1>3, <2>2
  <2> QED
    BY <1>3, <2>1, <2>3
<1>11. LiveIsLater'
  <2>1. ASSUME NEW q \in Pubs
        PROVE  /\ IsInjective(pub'[q].to)
               /\ \A s \in Range(pub'[q].to) : s \in Range(registered) /\ pub'[q].msg > base[s]
    <3>1. CASE q = p
      BY <1>2, <1>5, <1>9, <1>10, <3>1 DEF Registers
    <3>2. CASE q # p
      BY <1>2, <1>5, <3>2 DEF LiveIsLater
    <3> QED
      BY <3>1, <3>2
  <2>2. ASSUME NEW q \in Pubs, NEW r \in Pubs \ {q}, pub'[q].to # <<>>, pub'[r].to # <<>>
        PROVE  pub'[q].msg # pub'[r].msg
    <3>1. CASE q # p /\ r # p
      BY <1>2, <1>5, <2>2, <3>1 DEF LiveIsLater
    <3>2. CASE q = p \/ r = p
      BY <1>5, <1>10, <3>2
    <3> QED
      BY <3>1, <3>2
  <2> QED
    BY <1>1, <2>1, <2>2 DEF LiveIsLater
<1>12. \A s : Live(s)' = IF s \in Range(registered) THEN Live(s) \cup {n} ELSE Live(s)
  <2>1. \A s : s \notin Range(pub[p].to)
    BY <1>1, RangeOfEmpty
  <2> HIDE DEF n
  <2>2. ASSUME NEW s
        PROVE  Live(s)' = {pub'[q].msg : q \in {r \in Pubs : s \in Range(pub'[r].to)}}
    BY DEF Live
  <2>3. ASSUME NEW s, s \in Range(registered)
        PROVE  Live(s)' = Live(s) \cup {n}
    <3>1. {r \in Pubs : s \in Range(pub'[r].to)} = {r \in Pubs : s \in Range(pub[r].to)} \cup {p}
      BY <1>5, <2>3
    <3> QED
      BY <1>5, <2>1, <2>2, <3>1 DEF Live
  <2>4. ASSUME NEW s, s \notin Range(registered)
        PROVE  Live(s)' = Live(s)
    <3>1. {r \in Pubs : s \in Range(pub'[r].to)} = {r \in Pubs : s \in Range(pub[r].to)}
      BY <1>5, <2>1, <2>4
    <3> QED
      BY <1>5, <2>1, <2>2, <3>1 DEF Live
  <2> QED
    BY <2>3, <2>4
<1>13. \A s \in Subs : Owed(s)' = Owed(s) \cup {n}
  <2>1. ASSUME NEW s \in Subs
        PROVE  {m \in 1..n : m > base[s] - Keep} = {m \in 1..count : m > base[s] - Keep} \cup {n}
    BY <1>3, BusAssumption
  <2> QED
    BY <1>1, <2>1 DEF Owed
<1> HIDE DEF n
<1>14. Reached'
  BY <1>1, <1>2, <1>9, <1>12, <1>13 DEF Reached
<1>15. ReachedOnce'
  BY <1>1, <1>2, <1>10, <1>12 DEF ReachedOnce
<1> QED
  BY <1>6, <1>7, <1>8, <1>11, <1>14, <1>15 DEF BusInv

\* Delivering a live message takes it from what is on the way to what was seen,
\* and nobody else is taking it there.
LEMMA DeliverLiveKeepsInv ==
  ASSUME BusInv, NEW p \in Pubs, DeliverLive(p)
  PROVE  BusInv'
<1>0. PICK h, m : h = Head(pub[p].to) /\ m = pub[p].msg
  OBVIOUS
<1>1. /\ count' = count /\ registered' = registered /\ replay' = replay
      /\ base' = base /\ latched' = latched /\ pub[p].to # <<>>
      /\ seen' = [seen EXCEPT ![h] = Append(seen[h], m)]
      /\ pub' = [pub EXCEPT ![p] = [pub[p] EXCEPT !.to = Tail(pub[p].to)]]
  BY <1>0 DEF DeliverLive
<1>2. BusTypeOK /\ Registers /\ LiveIsLater /\ HistoryIsEarlier /\ NewestRetained
      /\ RetainedFull /\ Reached /\ ReachedOnce
  BY DEF BusInv
<1>3. /\ count \in Nat
      /\ \A q \in Pubs : pub[q].to \in Seq(Subs) /\ pub[q].msg \in 0..count
      /\ \A s \in Subs : /\ replay[s] \in Seq(1..count) /\ seen[s] \in Seq(1..count)
                         /\ base[s] \in 0..count
  BY <1>2, Types
<1>4. /\ pub \in [Pubs -> [msg: 0..count, to: Seq(Subs)]] /\ seen \in [Subs -> Seq(1..count)]
  BY <1>2 DEF BusTypeOK
<1>5. /\ h \in Subs /\ Tail(pub[p].to) \in Seq(Subs)
      /\ Range(pub[p].to) = Range(Tail(pub[p].to)) \cup {h}
      /\ IsInjective(Tail(pub[p].to)) /\ h \notin Range(Tail(pub[p].to))
  BY <1>0, <1>1, <1>2, <1>3, RangeOfTail DEF LiveIsLater
<1>6. h \in Range(registered) /\ m > base[h] /\ m \in 1..count
  <2>1. h \in Range(registered) /\ m > base[h]
    BY <1>0, <1>2, <1>5 DEF LiveIsLater
  <2> QED
    BY <1>0, <1>3, <1>5, <2>1
<1>7. /\ pub'[p].msg = m /\ pub'[p].to = Tail(pub[p].to)
      /\ \A q \in Pubs \ {p} : pub'[q] = pub[q]
      /\ pub' \in [Pubs -> [msg: 0..count, to: Seq(Subs)]]
  BY <1>0, <1>1, <1>4, <1>5
<1>8. /\ \A q \in Pubs \ {p} : h \in Range(pub[q].to) => pub[q].msg # m
      /\ m \in Live(h)
  BY <1>0, <1>1, <1>2, <1>5, RangeOfEmpty DEF LiveIsLater, Live
<1>9. m \notin Range(seen[h]) /\ m \notin Range(replay[h])
  <2>1. m \notin Range(seen[h])
    BY <1>2, <1>5, <1>8 DEF ReachedOnce
  <2>2. \A k \in Range(replay[h]) : k <= base[h]
    BY <1>2, <1>5 DEF HistoryIsEarlier
  <2> QED
    BY <1>3, <1>5, <1>6, <2>1, <2>2
<1>10. /\ seen'[h] \in Seq(1..count) /\ Range(seen'[h]) = Range(seen[h]) \cup {m}
       /\ IsInjective(seen'[h])
  <2>1. seen'[h] = Append(seen[h], m) /\ IsInjective(seen[h])
    BY <1>1, <1>2, <1>4, <1>5 DEF ReachedOnce
  <2>2. seen[h] \in Seq(1..count)
    BY <1>3, <1>5
  <2> DEFINE M == 1..count
             q == seen[h]
  <2>3. q \in Seq(M) /\ m \in M /\ m \notin Range(q) /\ IsInjective(q)
    BY <1>6, <1>9, <2>1, <2>2
  <2> HIDE DEF M, q
  <2>4. /\ Append(q, m) \in Seq(M)
        /\ Range(Append(q, m)) = Range(q) \cup {m}
        /\ IsInjective(Append(q, m))
    BY <2>3, RangeOfAppend
  <2> QED
    BY <2>1, <2>4 DEF M, q
<1>11. \A s \in Subs \ {h} : seen'[s] = seen[s]
  BY <1>1, <1>4
<1>12. seen' \in [Subs -> Seq(1..count)]
  BY <1>1, <1>4, <1>10, <1>11
<1>13. BusTypeOK'
  BY <1>1, <1>2, <1>7, <1>12 DEF BusTypeOK
<1>14. Registers'
  BY <1>1, <1>2, <1>6, <1>11 DEF Registers
<1>15. LiveIsLater'
  <2>1. pub'[p].to # <<>> => pub[p].to # <<>>
    BY <1>1
  <2>2. ASSUME NEW q \in Pubs
        PROVE  /\ IsInjective(pub'[q].to)
               /\ \A s \in Range(pub'[q].to) : s \in Range(registered) /\ pub'[q].msg > base[s]
    <3>1. CASE q = p
      BY <1>0, <1>2, <1>5, <1>7, <3>1 DEF LiveIsLater
    <3>2. CASE q # p
      BY <1>2, <1>7, <3>2 DEF LiveIsLater
    <3> QED
      BY <3>1, <3>2
  <2>3. \A q \in Pubs : pub'[q].msg = pub[q].msg /\ (pub'[q].to # <<>> => pub[q].to # <<>>)
    BY <1>0, <1>7, <2>1
  <2> QED
    BY <1>1, <1>2, <2>2, <2>3 DEF LiveIsLater
<1>16. HistoryIsEarlier' /\ NewestRetained' /\ RetainedFull'
  BY <1>1, <1>2 DEF HistoryIsEarlier, NewestRetained, RetainedFull
<1>17. Live(h)' = Live(h) \ {m}
  <2>1. \A q \in Pubs : h \in Range(pub'[q].to) <=> q # p /\ h \in Range(pub[q].to)
    BY <1>5, <1>7
  <2>2. \A q \in Pubs : pub'[q].msg = pub[q].msg
    BY <1>0, <1>7
  <2>3. \A q \in Pubs : h \in Range(pub[q].to) => (pub[q].msg = m <=> q = p)
    BY <1>0, <1>8
  <2>4. Live(h)' = {pub'[q].msg : q \in {r \in Pubs : h \in Range(pub'[r].to)}}
    BY DEF Live
  <2>5. {r \in Pubs : h \in Range(pub'[r].to)} = {r \in Pubs : h \in Range(pub[r].to)} \ {p}
    BY <2>1
  <2> QED
    BY <2>2, <2>3, <2>4, <2>5 DEF Live
<1>18. \A s : s # h => Live(s)' = Live(s)
  <2>1. \A s : s # h => \A q \in Pubs : s \in Range(pub'[q].to) <=> s \in Range(pub[q].to)
    BY <1>5, <1>7
  <2>2. \A q \in Pubs : pub'[q].msg = pub[q].msg
    BY <1>0, <1>7
  <2> QED
    BY <2>1, <2>2 DEF Live
<1>19. \A s \in Range(registered) : s \in Subs
  BY <1>2, Types, RangeIn
<1>20. Reached'
  <2>1. \A s : Owed(s)' = Owed(s)
    BY <1>1 DEF Owed
  <2>2. ASSUME NEW s \in Range(registered)
        PROVE  Range(seen'[s]) \cup Range(replay[s]) \cup Live(s)' = Owed(s)
    <3>1. Range(seen[s]) \cup Range(replay[s]) \cup Live(s) = Owed(s)
      BY <1>2 DEF Reached
    <3>2. CASE s = h
      BY <1>8, <1>10, <1>17, <3>1, <3>2
    <3>3. CASE s # h
      BY <1>11, <1>18, <1>19, <3>1, <3>3
    <3> QED
      BY <3>2, <3>3
  <2> QED
    BY <1>1, <2>1, <2>2 DEF Reached
<1>21. ReachedOnce'
  <2>1. ASSUME NEW s \in Subs
        PROVE  /\ IsInjective(seen'[s])
               /\ Range(seen'[s]) \cap (Range(replay[s]) \cup Live(s)') = {}
    <3>1. IsInjective(seen[s]) /\ Range(seen[s]) \cap (Range(replay[s]) \cup Live(s)) = {}
      BY <1>2 DEF ReachedOnce
    <3>2. CASE s = h
      BY <1>9, <1>10, <1>17, <3>1, <3>2
    <3>3. CASE s # h
      BY <1>11, <1>18, <3>1, <3>3
    <3> QED
      BY <3>2, <3>3
  <2> QED
    BY <1>1, <2>1 DEF ReachedOnce
<1> QED
  BY <1>13, <1>14, <1>15, <1>16, <1>20, <1>21 DEF BusInv

\* A subscription registers and copies what is retained at once: that and what
\* follows is all it is owed.
LEMMA SubscribeKeepsInv ==
  ASSUME BusInv, NEW s \in Subs, Subscribe(s)
  PROVE  BusInv'
<1>1. /\ count' = count /\ latched' = latched /\ pub' = pub /\ seen' = seen
      /\ registered' = Append(registered, s)
      /\ replay' = [replay EXCEPT ![s] = latched]
      /\ base' = [base EXCEPT ![s] = count]
      /\ ~Contains(registered, s)
  BY DEF Subscribe
<1>2. BusTypeOK /\ Registers /\ LiveIsLater /\ HistoryIsEarlier /\ NewestRetained
      /\ RetainedFull /\ Reached /\ ReachedOnce
  BY DEF BusInv
<1>3. /\ count \in Nat /\ Keep \in Nat /\ registered \in Seq(Subs) /\ latched \in Seq(1..count)
      /\ replay \in [Subs -> Seq(1..count)] /\ base \in [Subs -> 0..count]
  BY <1>2, Types DEF BusTypeOK
<1>4. s \notin Range(registered) /\ seen[s] = <<>>
  BY <1>1, <1>2, <1>3, ContainsIsRange DEF Registers
<1>5. /\ registered' \in Seq(Subs) /\ Range(registered') = Range(registered) \cup {s}
      /\ IsInjective(registered')
  BY <1>1, <1>2, <1>3, <1>4, RangeOfAppend DEF Registers
<1>6. /\ replay'[s] = latched /\ base'[s] = count
      /\ \A r \in Subs \ {s} : replay'[r] = replay[r] /\ base'[r] = base[r]
      /\ replay' \in [Subs -> Seq(1..count)] /\ base' \in [Subs -> 0..count]
  BY <1>1, <1>3
<1>7. BusTypeOK'
  BY <1>1, <1>2, <1>5, <1>6 DEF BusTypeOK
<1>8. Registers'
  BY <1>1, <1>2, <1>5, <1>6 DEF Registers
<1>9. \A p \in Pubs : s \notin Range(pub[p].to)
  BY <1>2, <1>4 DEF LiveIsLater
<1>10. \A r \in Range(registered) : r \in Subs \ {s}
  BY <1>3, <1>4, RangeIn
<1>11. LiveIsLater'
  <2>1. ASSUME NEW p \in Pubs
        PROVE  /\ IsInjective(pub[p].to)
               /\ \A r \in Range(pub[p].to) : r \in Range(registered') /\ pub[p].msg > base'[r]
    <3>1. \A r \in Range(pub[p].to) : r \in Range(registered) /\ pub[p].msg > base[r]
      BY <1>2 DEF LiveIsLater
    <3> QED
      BY <1>2, <1>5, <1>6, <1>10, <3>1 DEF LiveIsLater
  <2> QED
    BY <1>1, <1>2, <2>1 DEF LiveIsLater
<1>12. /\ Range(latched) = {m \in 1..count : m > count - Keep}
       /\ IsInjective(latched)
  BY <1>2, RetainedIs
<1>13. HistoryIsEarlier'
  <2>1. \A m \in Range(latched) : m <= count
    BY <1>3, <1>12
  <2> QED
    BY <1>2, <1>6, <1>12, <2>1 DEF HistoryIsEarlier
<1>14. NewestRetained' /\ RetainedFull'
  BY <1>1, <1>2 DEF NewestRetained, RetainedFull
<1>15. /\ \A r : Live(r)' = Live(r)
       /\ Live(s) = {}
  BY <1>1, <1>9 DEF Live
<1>16. /\ Owed(s)' = Range(latched)
       /\ \A r \in Subs \ {s} : Owed(r)' = Owed(r)
  BY <1>1, <1>6, <1>12 DEF Owed
<1>17. Reached'
  <2>1. ASSUME NEW r \in Range(registered')
        PROVE  Range(seen[r]) \cup Range(replay'[r]) \cup Live(r) = Owed(r)'
    <3>1. CASE r = s
      BY <1>4, <1>6, <1>15, <1>16, <3>1, RangeOfEmpty
    <3>2. CASE r # s
      BY <1>2, <1>5, <1>6, <1>10, <1>16, <3>2 DEF Reached
    <3> QED
      BY <3>1, <3>2
  <2> QED
    BY <1>1, <1>15, <2>1 DEF Reached
<1>18. ReachedOnce'
  <2>1. ASSUME NEW r \in Subs
        PROVE  /\ IsInjective(seen[r])
               /\ Range(seen[r]) \cap (Range(replay'[r]) \cup Live(r)) = {}
    <3>1. CASE r = s
      BY <1>4, <3>1, RangeOfEmpty
    <3>2. CASE r # s
      BY <1>2, <1>6, <3>2 DEF ReachedOnce
    <3> QED
      BY <3>1, <3>2
  <2> QED
    BY <1>1, <1>15, <2>1 DEF ReachedOnce
<1> QED
  BY <1>7, <1>8, <1>11, <1>13, <1>14, <1>17, <1>18 DEF BusInv

\* Delivering from the history takes the message from what is on the way to what
\* was seen, and no publisher is bringing it.
LEMMA DeliverHistoryKeepsInv ==
  ASSUME BusInv, NEW s \in Subs, DeliverHistory(s)
  PROVE  BusInv'
<1>0. PICK m : m = Head(replay[s])
  OBVIOUS
<1>1. /\ count' = count /\ latched' = latched /\ pub' = pub /\ registered' = registered
      /\ base' = base /\ replay[s] # <<>>
      /\ seen' = [seen EXCEPT ![s] = Append(seen[s], m)]
      /\ replay' = [replay EXCEPT ![s] = Tail(replay[s])]
  BY <1>0 DEF DeliverHistory
<1>2. BusTypeOK /\ Registers /\ LiveIsLater /\ HistoryIsEarlier /\ NewestRetained
      /\ RetainedFull /\ Reached /\ ReachedOnce
  BY DEF BusInv
<1>3. /\ count \in Nat /\ registered \in Seq(Subs)
      /\ replay \in [Subs -> Seq(1..count)] /\ seen \in [Subs -> Seq(1..count)]
      /\ base \in [Subs -> 0..count]
      /\ \A p \in Pubs : pub[p].msg \in 0..count
  BY <1>2, Types DEF BusTypeOK
<1>4. /\ m \in 1..count /\ Tail(replay[s]) \in Seq(1..count)
      /\ Range(replay[s]) = Range(Tail(replay[s])) \cup {m}
      /\ IsInjective(Tail(replay[s])) /\ m \notin Range(Tail(replay[s]))
  <2> DEFINE M == 1..count
             q == replay[s]
  <2>1. q \in Seq(M) /\ q # <<>> /\ IsInjective(q) /\ m = Head(q)
    BY <1>0, <1>1, <1>2, <1>3 DEF HistoryIsEarlier
  <2> HIDE DEF M, q
  <2>2. /\ m \in M /\ Tail(q) \in Seq(M) /\ Range(q) = Range(Tail(q)) \cup {m}
        /\ IsInjective(Tail(q)) /\ m \notin Range(Tail(q))
    BY <2>1, RangeOfTail
  <2> QED
    BY <2>2 DEF M, q
<1>5. m \notin Range(seen[s]) /\ m \notin Live(s)
  <2>1. m \notin Range(seen[s])
    BY <1>2, <1>4 DEF ReachedOnce
  <2>2. m <= base[s]
    BY <1>2, <1>4 DEF HistoryIsEarlier
  <2>3. ASSUME NEW p \in Pubs, s \in Range(pub[p].to)
        PROVE  pub[p].msg # m
    <3>1. pub[p].msg > base[s]
      BY <1>2, <2>3 DEF LiveIsLater
    <3>2. base[s] \in Int /\ pub[p].msg \in Int /\ m \in Int
      BY <1>3, <1>4
    <3> QED
      BY <2>2, <3>1, <3>2
  <2> QED
    BY <2>1, <2>3 DEF Live
<1>6. /\ Append(seen[s], m) \in Seq(1..count)
      /\ Range(Append(seen[s], m)) = Range(seen[s]) \cup {m}
      /\ IsInjective(Append(seen[s], m))
  <2> DEFINE M == 1..count
             q == seen[s]
  <2>1. q \in Seq(M) /\ m \in M /\ m \notin Range(q) /\ IsInjective(q)
    BY <1>2, <1>3, <1>4, <1>5 DEF ReachedOnce
  <2> HIDE DEF M, q
  <2>2. /\ Append(q, m) \in Seq(M)
        /\ Range(Append(q, m)) = Range(q) \cup {m}
        /\ IsInjective(Append(q, m))
    BY <2>1, RangeOfAppend
  <2> QED
    BY <2>2 DEF M, q
<1>7. /\ seen'[s] = Append(seen[s], m) /\ replay'[s] = Tail(replay[s])
      /\ \A r \in Subs \ {s} : seen'[r] = seen[r] /\ replay'[r] = replay[r]
      /\ seen' \in [Subs -> Seq(1..count)] /\ replay' \in [Subs -> Seq(1..count)]
  BY <1>1, <1>3, <1>4, <1>6
<1>8. BusTypeOK'
  BY <1>1, <1>2, <1>7 DEF BusTypeOK
<1>9. Registers'
  BY <1>1, <1>2, <1>7 DEF Registers
<1>10. LiveIsLater' /\ NewestRetained' /\ RetainedFull'
  BY <1>1, <1>2 DEF LiveIsLater, NewestRetained, RetainedFull
<1>11. HistoryIsEarlier'
  BY <1>1, <1>2, <1>4, <1>7 DEF HistoryIsEarlier
<1>12. \A r : Live(r)' = Live(r) /\ Owed(r)' = Owed(r)
  BY <1>1 DEF Live, Owed
<1>13. \A r \in Range(registered) : r \in Subs
  BY <1>3, RangeIn
<1>14. Reached'
  <2>1. ASSUME NEW r \in Range(registered)
        PROVE  Range(seen'[r]) \cup Range(replay'[r]) \cup Live(r) = Owed(r)
    <3>1. Range(seen[r]) \cup Range(replay[r]) \cup Live(r) = Owed(r)
      BY <1>2 DEF Reached
    <3>2. CASE r = s
      BY <1>4, <1>6, <1>7, <3>1, <3>2
    <3>3. CASE r # s
      BY <1>7, <1>13, <3>1, <3>3
    <3> QED
      BY <3>2, <3>3
  <2> QED
    BY <1>1, <1>12, <2>1 DEF Reached
<1>15. ReachedOnce'
  <2>1. ASSUME NEW r \in Subs
        PROVE  /\ IsInjective(seen'[r])
               /\ Range(seen'[r]) \cap (Range(replay'[r]) \cup Live(r)) = {}
    <3>1. IsInjective(seen[r]) /\ Range(seen[r]) \cap (Range(replay[r]) \cup Live(r)) = {}
      BY <1>2 DEF ReachedOnce
    <3>2. CASE r = s
      BY <1>4, <1>5, <1>6, <1>7, <3>1, <3>2
    <3>3. CASE r # s
      BY <1>7, <3>1, <3>3
    <3> QED
      BY <3>2, <3>3
  <2> QED
    BY <1>1, <1>12, <2>1 DEF ReachedOnce
<1> QED
  BY <1>8, <1>9, <1>10, <1>11, <1>14, <1>15 DEF BusInv

LEMMA BusStep == BusInv /\ [BusNext]_busVars => BusInv'
<1> SUFFICES ASSUME BusInv, [BusNext]_busVars
             PROVE  BusInv'
  OBVIOUS
<1>1. ASSUME NEW p \in Pubs, Publish(p)
      PROVE  BusInv'
  BY <1>1, PublishKeepsInv
<1>2. ASSUME NEW p \in Pubs, DeliverLive(p)
      PROVE  BusInv'
  BY <1>2, DeliverLiveKeepsInv
<1>3. ASSUME NEW s \in Subs, Subscribe(s)
      PROVE  BusInv'
  BY <1>3, SubscribeKeepsInv
<1>4. ASSUME NEW s \in Subs, DeliverHistory(s)
      PROVE  BusInv'
  BY <1>4, DeliverHistoryKeepsInv
<1>5. CASE UNCHANGED busVars
  <2>1. \A s : Live(s)' = Live(s) /\ Owed(s)' = Owed(s)
    BY <1>5 DEF busVars, Live, Owed
  <2> QED
    BY <1>5, <2>1 DEF busVars, BusInv, BusTypeOK, Registers, LiveIsLater, HistoryIsEarlier,
                      NewestRetained, RetainedFull, Reached, ReachedOnce
<1> QED
  BY <1>1, <1>2, <1>3, <1>4, <1>5 DEF BusNext

LEMMA BusIsEnough == BusInv => DeliveredOnce
<1> SUFFICES ASSUME BusInv PROVE DeliveredOnce
  OBVIOUS
<1>1. BusTypeOK /\ Reached /\ ReachedOnce /\ NewestRetained
  BY DEF BusInv
<1>2. registered \in Seq(Subs) /\ \A s \in Subs : OnTheWay(s) = Range(replay[s]) \cup Live(s)
  BY <1>1, Types
<1>3. \A s \in Range(registered) : s \in Subs
  BY <1>2, RangeIn
<1>4. NothingMissed
  BY <1>1, <1>2, <1>3 DEF NothingMissed, Reached
<1>5. NothingTwice
  BY <1>1, <1>2 DEF NothingTwice, ReachedOnce
<1> QED
  BY <1>1, <1>4, <1>5 DEF DeliveredOnce

-----------------------------------------------------------------------------
(* The theorems.                                                             *)

\* The inductive invariant: in particular every delivery under way is of a
\* message newer than its subscriptions, and every replay of older ones, which
\* is what Publisher and Subscribe get from doing each of their two updates
\* under one lock.
THEOREM BusInvariance == BusSpec => []BusInv
<1>1. BusInit => BusInv
  BY BusStarts
<1>2. BusInv /\ [BusNext]_busVars => BusInv'
  BY BusStep
<1> QED
  BY <1>1, <1>2, PTL DEF BusSpec

\* However publishers and late subscriptions race, a subscription gets the
\* newest Keep messages from before it and every one since, each of them once.
THEOREM Delivered == BusSpec => []DeliveredOnce
<1>1. BusInv => DeliveredOnce
  BY BusIsEnough
<1> QED
  BY <1>1, BusInvariance, PTL

-----------------------------------------------------------------------------
(* Parameters: the invariant.                                                *)

\* What a parameter can hold: what startup or a message put there.
Loadable == UNION {bind(kindOf[n], defaultOf[n], LoadParamFiles(f).out, Node, n) :
                   f \in Files, n \in Names}
Settable == UNION {setFromValue(p) : p \in ParamMsgs}
Texts == {simulated, "unset"} \cup Loadable \cup Settable
Changes == [name : Handles, value : Texts]
Puts == [by : Callers, nr : Nat, name : Handles, value : Texts]
Handlers == [pc : {"idle", "apply", "read"}, req : Requests \cup {<<>>}, at : Nat \ {0},
             results : Seq(BOOLEAN), changed : Seq(Changes), nr : Nat]

ParamTyped ==
  /\ params \in [Handles -> Texts]
  /\ handler \in [Callers -> Handlers]
  /\ events \in Seq(Seq(Changes))
  /\ put \in SUBSET Puts
  /\ bound \in BOOLEAN

\* A handler is at one of its request's parameters, or past the last.
AtWork(h) ==
  /\ h.nr > 0 => h.req \in Requests
  /\ h.pc # "idle" => h.nr > 0 /\ h.at \in 1..(Len(h.req.params) + 1)
  /\ h.pc = "read" => h.at <= Len(h.req.params) /\ h.req.params[h.at].name \in Handles

\* The names the k-th request of a client has assigned.
Assigned(q, c, k) == {e.name : e \in {f \in q : f.by = c /\ f.nr = k}}

Succeeded(h) == {h.req.params[i].name : i \in {j \in DOMAIN h.results : h.results[j]}}
InHand(h) == IF h.pc = "read" THEN {h.req.params[h.at].name} ELSE {}

\* So far a handler has one result for each parameter it is done with, and has
\* assigned those it reports as set and the one it has yet to read back.
TellsTrue(h, names) ==
  h.nr > 0 =>
    IF h.req.atomic THEN h.pc = "idle" /\ h.results = <<FALSE>> => names = {}
    ELSE /\ Len(h.results) = IF h.pc = "idle" THEN Len(h.req.params) ELSE h.at - 1
         /\ Succeeded(h) \cup InHand(h) = names

Holds(s, m) == \E j \in DOMAIN s : s[j] = m

\* The value of n is in a message, in one that is being put together, or about
\* to be read back for one.
Announced(ps, hs, ev, n) ==
  \/ \E i \in DOMAIN ev : Holds(ev[i], [name |-> n, value |-> ps[n]])
  \/ \E c \in Callers : hs[c].pc # "idle" /\ Holds(hs[c].changed, [name |-> n, value |-> ps[n]])
  \/ \E c \in Callers : hs[c].pc = "read" /\ hs[c].req.params[hs[c].at].name = n

ParamInv ==
  /\ ParamTyped
  /\ \A c \in Callers : /\ AtWork(handler[c])
                        /\ TellsTrue(handler[c], Assigned(put, c, handler[c].nr))
  /\ \A e \in put : e.nr <= handler[e.by].nr
  /\ \A e \in put : Announced(params, handler, events, e.name)
  /\ TypesKept

-----------------------------------------------------------------------------
(* Parameters: the text of a value.                                          *)

\* What a text is read as is read back as itself.
LEMMA ReadsBack ==
  ASSUME NEW kind, NEW s, NEW v \in parseInto(kind, s)
  PROVE  v \in parseInto(kind, v)
BY DEF parseInto

LEMMA ScalarReadsBack ==
  ASSUME NEW kind, NEW s, NEW v \in parseYAMLScalar(kind, s)
  PROVE  v \in parseInto(kind, v)
BY ReadsBack DEF parseYAMLScalar

LEMMA BoundReadsBack ==
  ASSUME NEW kind, NEW default, NEW loaded, NEW n, NEW v \in bind(kind, default, loaded, Node, n)
  PROVE  v \in parseInto(kind, v)
BY ReadsBack, ScalarReadsBack DEF bind

\* What a message can set a parameter to.
LEMMA SetReadsBack ==
  ASSUME NEW p \in ParamMsgs, p.name \in Handles, NEW v \in setFromValue(p)
  PROVE  /\ p.name = useSimTimeParam => v = simulated
         /\ p.name \in Names => v \in parseInto(kindOf[p.name], v)
<1>1. CASE p.name = useSimTimeParam
  <2>1. v = simulated
    BY <1>1 DEF setFromValue
  <2> QED
    BY <1>1, <2>1, ParamAssumption
<1>2. CASE p.name # useSimTimeParam
  <2>1. Kind(p.name) = kindOf[p.name]
    BY <1>2 DEF Kind
  <2>2. v \in parseYAMLScalar(kindOf[p.name], p.value)
    BY <1>2, <2>1 DEF setFromValue
  <2> QED
    BY <1>2, <2>2, ScalarReadsBack
<1> QED
  BY <1>1, <1>2

-----------------------------------------------------------------------------
(* Parameters: the actions.                                                  *)

LEMMA ParamStarts == ParamInit => ParamInv
<1> SUFFICES ASSUME ParamInit PROVE ParamInv
  OBVIOUS
<1> DEFINE value(n) == bind(kindOf[n], defaultOf[n], LoadParamFiles(given).out, Node, n)
<1>1. /\ given \in Files
      /\ bound \in BOOLEAN /\ (bound => \A n \in Names : value(n) # {})
      /\ params = [n \in Handles |-> IF n = useSimTimeParam THEN simulated
                                     ELSE IF bound THEN CHOOSE v \in value(n) : TRUE ELSE "unset"]
      /\ handler = [c \in Callers |-> Idle] /\ events = <<>> /\ put = {}
  BY DEF ParamInit
<1>2. \A n \in Names : value(n) \in SUBSET Texts
  BY <1>1 DEF Texts, Loadable
<1> HIDE DEF value
<1>3. ASSUME NEW n \in Handles PROVE params[n] \in Texts /\ (bound /\ n \in Names => params[n] \in value(n))
  <2>1. simulated \in Texts /\ "unset" \in Texts
    BY DEF Texts
  <2>2. n = useSimTimeParam => params[n] = simulated /\ n \notin Names
    BY <1>1, ParamAssumption
  <2>3. n # useSimTimeParam => n \in Names
    BY DEF Handles
  <2>4. n # useSimTimeParam /\ bound => params[n] \in value(n)
    BY <1>1, <2>3
  <2>5. n # useSimTimeParam /\ ~bound => params[n] = "unset"
    BY <1>1
  <2> QED
    BY <1>2, <2>1, <2>2, <2>3, <2>4, <2>5
<1>4. Idle \in Handlers /\ Idle.pc = "idle" /\ Idle.nr = 0
  BY DEF Idle, Handlers
<1>5. ParamTyped
  BY <1>1, <1>3, <1>4 DEF ParamTyped
<1>6. \A c \in Callers : handler[c] = Idle
  BY <1>1
<1>7. \A c \in Callers : AtWork(handler[c]) /\ TellsTrue(handler[c], Assigned(put, c, handler[c].nr))
  <2>1. AtWork(Idle)
    BY <1>4 DEF AtWork
  <2>2. \A names : TellsTrue(Idle, names)
    BY <1>4 DEF TellsTrue
  <2> QED
    BY <1>6, <2>1, <2>2
<1>8. TypesKept
  <2>1. ASSUME bound, NEW n \in Names PROVE params[n] \in parseInto(kindOf[n], params[n])
    <3>1. params[n] \in value(n)
      BY <1>3, <2>1 DEF Handles
    <3> QED
      BY <3>1, BoundReadsBack DEF value
  <2>2. params[useSimTimeParam] = simulated
    BY <1>1 DEF Handles
  <2>3. \A n \in Handles : get_parameters(<<n>>)[1].type = rosType(n)
    BY DEF get_parameters
  <2> QED
    BY <2>1, <2>2, <2>3 DEF TypesKept
<1> QED
  BY <1>1, <1>5, <1>7, <1>8 DEF ParamInv

\* What is left to show of a step of c's handler: k is what it becomes.
LEMMA HandlerSteps ==
  ASSUME ParamInv, NEW c \in Callers, NEW k \in Handlers,
         handler' = [handler EXCEPT ![c] = k], k.nr >= handler[c].nr, AtWork(k),
         params' \in [Handles -> Texts], events' \in Seq(Seq(Changes)), bound' = bound,
         put' \in SUBSET Puts, put \subseteq put', \A e \in put' : e \notin put => e.by = c /\ e.nr = k.nr,
         TellsTrue(k, Assigned(put', c, k.nr)),
         \A e \in put' : Announced(params', handler', events', e.name),
         TypesKept'
  PROVE  ParamInv'
<1>1. handler \in [Callers -> Handlers] /\ bound \in BOOLEAN /\ put \in SUBSET Puts
  BY DEF ParamInv, ParamTyped
<1>2. ParamTyped'
  BY <1>1 DEF ParamTyped
<1>3. \A d \in Callers : handler'[d] = IF d = c THEN k ELSE handler[d]
  BY <1>1
<1>4. ASSUME NEW d \in Callers
      PROVE  AtWork(handler'[d]) /\ TellsTrue(handler'[d], Assigned(put', d, handler'[d].nr))
  <2>1. CASE d = c
    BY <1>3, <2>1
  <2>2. CASE d # c
    <3>1. \A e \in put' : e.by = d <=> e \in put /\ e.by = d
      BY <2>2
    <3>2. {f \in put' : f.by = d /\ f.nr = handler[d].nr} = {f \in put : f.by = d /\ f.nr = handler[d].nr}
      BY <3>1
    <3>3. Assigned(put', d, handler[d].nr) = Assigned(put, d, handler[d].nr)
      BY <3>2 DEF Assigned
    <3> QED
      BY <1>3, <2>2, <3>3 DEF ParamInv
  <2> QED
    BY <2>1, <2>2
<1>5. ASSUME NEW e \in put' PROVE e.nr <= handler'[e.by].nr
  <2>1. e.by \in Callers /\ e.nr \in Nat /\ k.nr \in Nat /\ handler[e.by].nr \in Nat
    BY <1>1 DEF Puts, Handlers
  <2>2. e \in put => e.nr <= handler[e.by].nr
    BY DEF ParamInv
  <2> QED
    BY <1>3, <2>1, <2>2
<1>6. /\ (\A d \in Callers : AtWork(handler[d]) /\ TellsTrue(handler[d], Assigned(put, d, handler[d].nr)))'
      /\ (\A e \in put : e.nr <= handler[e.by].nr)'
      /\ (\A e \in put : Announced(params, handler, events, e.name))'
  <2>1. (\A d \in Callers : AtWork(handler[d]) /\ TellsTrue(handler[d], Assigned(put, d, handler[d].nr)))'
    BY <1>4 DEF AtWork, TellsTrue, Assigned, Succeeded, InHand
  <2>2. (\A e \in put : Announced(params, handler, events, e.name))'
    BY DEF Announced, Holds
  <2> QED
    BY <1>5, <2>1, <2>2
<1> QED
  BY <1>2, <1>6 DEF ParamInv

\* What a request at one of its parameters has before it.
LEMMA AtParameter ==
  ASSUME ParamInv, NEW c \in Callers, handler[c].pc # "idle"
  PROVE  /\ handler[c] \in Handlers /\ handler[c].nr \in Nat /\ handler[c].nr > 0
         /\ handler[c].req \in Requests /\ handler[c].req.params \in Seq(ParamMsgs)
         /\ handler[c].at \in 1..(Len(handler[c].req.params) + 1)
         /\ handler[c].results \in Seq(BOOLEAN) /\ handler[c].changed \in Seq(Changes)
         /\ handler[c].pc = "read" =>
              /\ handler[c].at <= Len(handler[c].req.params)
              /\ handler[c].req.params[handler[c].at].name \in Handles
<1>1. handler[c] \in Handlers /\ AtWork(handler[c])
  BY DEF ParamInv, ParamTyped
<1>2. handler[c].nr \in Nat /\ handler[c].results \in Seq(BOOLEAN) /\ handler[c].changed \in Seq(Changes)
  BY <1>1 DEF Handlers
<1>3. handler[c].nr > 0 /\ handler[c].req \in Requests
  BY <1>1 DEF AtWork
<1>4. handler[c].req.params \in Seq(ParamMsgs)
  BY <1>3, ParamAssumption
<1> QED
  BY <1>1, <1>2, <1>3, <1>4 DEF AtWork

LEMMA CalledKeeps ==
  ASSUME ParamInv, NEW c \in Callers, Called(c)
  PROVE  ParamInv'
<1> DEFINE h == handler[c]
<1>1. PICK r \in Requests :
        handler' = [handler EXCEPT ![c] =
          [req |-> r, at |-> 1, changed |-> <<>>, nr |-> @.nr + 1,
           results |-> IF r.atomic /\ Refused(r.params) THEN <<FALSE>> ELSE <<>>,
           pc |-> IF r.atomic /\ Refused(r.params) THEN "idle" ELSE "apply"]]
  BY DEF Called
<1> DEFINE refused == r.atomic /\ Refused(r.params)
           k == [req |-> r, at |-> 1, changed |-> <<>>, nr |-> h.nr + 1,
                 results |-> IF refused THEN <<FALSE>> ELSE <<>>,
                 pc |-> IF refused THEN "idle" ELSE "apply"]
<1>2. h.pc = "idle" /\ UNCHANGED <<params, events, put, given, bound>>
  BY DEF Called, atStart
<1>3. h \in Handlers /\ h.nr \in Nat /\ handler \in [Callers -> Handlers]
  BY DEF ParamInv, ParamTyped, Handlers
<1>4. r.atomic \in BOOLEAN /\ r.params \in Seq(ParamMsgs) /\ Len(r.params) \in Nat
  BY ParamAssumption
<1>5. handler' = [handler EXCEPT ![c] = k]
  BY <1>1, <1>3
<1>6. PICK m : m = k
  OBVIOUS
<1>7. /\ m.req = r /\ m.at = 1 /\ m.changed = <<>> /\ m.nr = h.nr + 1
      /\ \/ m.results = <<FALSE>> /\ m.pc = "idle" /\ r.atomic
         \/ m.results = <<>> /\ m.pc = "apply"
  <2>1. CASE refused
    BY <1>6, <2>1
  <2>2. CASE ~refused
    BY <1>6, <2>2
  <2> QED
    BY <2>1, <2>2
<1>8. m \in Handlers
  <2>1. m = [req |-> m.req, at |-> m.at, changed |-> m.changed, nr |-> m.nr, results |-> m.results, pc |-> m.pc]
    BY <1>6
  <2>2. m.req \in Requests \cup {<<>>} /\ m.at \in Nat \ {0} /\ m.nr \in Nat
    BY <1>3, <1>7
  <2>3. m.changed \in Seq(Changes) /\ m.results \in Seq(BOOLEAN) /\ m.pc \in {"idle", "apply", "read"}
    <3>1. <<>> \in Seq(BOOLEAN) /\ <<FALSE>> \in Seq(BOOLEAN) /\ <<>> \in Seq(Changes)
      OBVIOUS
    <3> HIDE DEF k, refused
    <3> QED
      BY <1>7, <3>1
  <2> HIDE DEF k, refused
  <2> QED
    BY <2>1, <2>2, <2>3 DEF Handlers
<1>9. handler' = [handler EXCEPT ![c] = m]
  BY <1>5, <1>6
<1> HIDE DEF k, refused
<1>10. m.nr > 0 /\ m.nr >= handler[c].nr
  <2>1. \A n \in Nat : n + 1 > 0 /\ n + 1 >= n
    OBVIOUS
  <2> QED
    BY <1>3, <1>7, <2>1
<1>11. AtWork(m)
  <2>1. m.pc # "read"
    BY <1>7
  <2>2. 1 \in 1..(Len(r.params) + 1)
    BY <1>4
  <2> QED
    BY <1>7, <1>10, <2>1, <2>2 DEF AtWork
<1>12. Assigned(put', c, m.nr) = {}
  <2>1. \A e \in put : e.by = c => e.nr <= h.nr
    BY DEF ParamInv
  <2>2. \A e \in put : e.nr \in Nat
    BY DEF ParamInv, ParamTyped, Puts
  <2>3. \A e \in put : ~(e.by = c /\ e.nr = m.nr)
    BY <1>3, <1>7, <2>1, <2>2
  <2> QED
    BY <1>2, <2>3 DEF Assigned
<1>13. TellsTrue(m, {})
  <2>1. CASE m.pc = "idle" /\ r.atomic
    BY <1>7, <2>1 DEF TellsTrue
  <2>2. CASE m.results = <<>> /\ m.pc = "apply"
    <3>1. Succeeded(m) = {} /\ InHand(m) = {} /\ Len(m.results) = 0
      BY <1>7, <2>2 DEF Succeeded, InHand
    <3> QED
      BY <1>7, <2>2, <3>1 DEF TellsTrue
  <2> QED
    BY <1>7, <2>1, <2>2
<1>14. \A e \in put' : Announced(params', handler', events', e.name)
  <2>1. \A d \in Callers : handler'[d] = IF d = c THEN m ELSE handler[d]
    BY <1>3, <1>9
  <2>2. \A d \in Callers : handler[d].pc # "idle" => handler'[d] = handler[d]
    BY <1>2, <2>1
  <2>3. \A e \in put : Announced(params, handler, events, e.name)
    BY DEF ParamInv
  <2>4. ASSUME NEW e \in put PROVE Announced(params, handler', events, e.name)
    BY <2>2, <2>3 DEF Announced
  <2> QED
    BY <1>2, <2>4
<1>15. TypesKept'
  BY <1>2 DEF ParamInv, TypesKept, get_parameters
<1>16. params' \in [Handles -> Texts] /\ events' \in Seq(Seq(Changes)) /\ put' \in SUBSET Puts
  BY <1>2 DEF ParamInv, ParamTyped
<1> QED
  <2>1. put \subseteq put' /\ bound' = bound /\ \A e \in put' : e \notin put => e.by = c /\ e.nr = m.nr
    BY <1>2
  <2>2. TellsTrue(m, Assigned(put', c, m.nr))
    BY <1>12, <1>13
  <2> QED
    BY <1>8, <1>9, <1>10, <1>11, <1>14, <1>15, <1>16, <2>1, <2>2, HandlerSteps

LEMMA Appended ==
  ASSUME NEW S, NEW s \in Seq(S), NEW x \in S
  PROVE  /\ Append(s, x) \in Seq(S) /\ Len(Append(s, x)) = Len(s) + 1
         /\ \A i \in DOMAIN s : Append(s, x)[i] = s[i]
         /\ Append(s, x)[Len(s) + 1] = x
         /\ DOMAIN Append(s, x) = DOMAIN s \cup {Len(s) + 1}
OBVIOUS

\* The handler after a step, field by field.
Becomes(k, h, pc, at, results, changed) ==
  /\ k.pc = pc /\ k.at = at /\ k.results = results /\ k.changed = changed
  /\ k.req = h.req /\ k.nr = h.nr

\* Whatever else it was about to announce, another handler still is.
LEMMA StillAnnounced ==
  ASSUME ParamInv, NEW c \in Callers, NEW k, handler' = [handler EXCEPT ![c] = k],
         handler[c].pc = "apply", k.pc # "idle", k.changed = handler[c].changed,
         NEW n, Announced(params, handler, events, n)
  PROVE  Announced(params, handler', events, n)
<1>1. \A d \in Callers : handler'[d] = IF d = c THEN k ELSE handler[d]
  BY DEF ParamInv, ParamTyped
<1> QED
  BY <1>1 DEF Announced

\* A parameter that is not taken.
LEMMA RefusalKeeps ==
  ASSUME ParamInv, NEW c \in Callers, handler[c].pc = "apply",
         handler[c].at <= Len(handler[c].req.params),
         handler' = [handler EXCEPT ![c].at = @ + 1, ![c].results = Append(@, FALSE)],
         UNCHANGED <<params, put, events, given, bound>>
  PROVE  ParamInv'
<1> DEFINE h == handler[c]
<1>1. PICK k : k = [h EXCEPT !.at = @ + 1, !.results = Append(@, FALSE)]
  OBVIOUS
<1>2. /\ h \in Handlers /\ h.nr \in Nat /\ h.nr > 0 /\ h.req \in Requests /\ h.req.params \in Seq(ParamMsgs)
      /\ h.at \in 1..(Len(h.req.params) + 1) /\ h.results \in Seq(BOOLEAN) /\ h.changed \in Seq(Changes)
  BY AtParameter
<1>3. handler \in [Callers -> Handlers] /\ TellsTrue(h, Assigned(put, c, h.nr))
  BY DEF ParamInv, ParamTyped
<1>4. Becomes(k, h, "apply", h.at + 1, Append(h.results, FALSE), h.changed)
  BY <1>1, <1>2 DEF Becomes, Handlers
<1>5. k \in Handlers
  <2>1. h.at + 1 \in Nat \ {0}
    BY <1>2
  <2>2. Append(h.results, FALSE) \in Seq(BOOLEAN)
    BY <1>2, Appended
  <2> QED
    BY <1>1, <1>2, <2>1, <2>2 DEF Handlers
<1>6. handler' = [handler EXCEPT ![c] = k]
  BY <1>1, <1>3
<1>7. AtWork(k)
  <2>1. h.at + 1 \in 1..(Len(h.req.params) + 1)
    BY <1>2
  <2>2. k.pc = "apply" /\ k.req = h.req /\ k.nr = h.nr /\ k.at = h.at + 1
    BY <1>4 DEF Becomes
  <2> QED
    BY <1>2, <2>1, <2>2 DEF AtWork
<1>8. TellsTrue(k, Assigned(put, c, h.nr))
  <2>1. /\ Append(h.results, FALSE) \in Seq(BOOLEAN) /\ Len(Append(h.results, FALSE)) = Len(h.results) + 1
        /\ \A i \in DOMAIN h.results : Append(h.results, FALSE)[i] = h.results[i]
        /\ Append(h.results, FALSE)[Len(h.results) + 1] = FALSE
        /\ DOMAIN Append(h.results, FALSE) = DOMAIN h.results \cup {Len(h.results) + 1}
    <3>1. \A x \in BOOLEAN :
          /\ Append(h.results, x) \in Seq(BOOLEAN) /\ Len(Append(h.results, x)) = Len(h.results) + 1
          /\ \A i \in DOMAIN h.results : Append(h.results, x)[i] = h.results[i]
          /\ Append(h.results, x)[Len(h.results) + 1] = x
          /\ DOMAIN Append(h.results, x) = DOMAIN h.results \cup {Len(h.results) + 1}
      BY <1>2, Appended
    <3> QED
      BY <3>1, Zenon
  <2>2. {j \in DOMAIN k.results : k.results[j]} = {j \in DOMAIN h.results : h.results[j]}
    BY <1>4, <2>1 DEF Becomes
  <2>3. Succeeded(k) = Succeeded(h) /\ InHand(k) = {} /\ InHand(h) = {}
    BY <1>4, <2>2 DEF Becomes, Succeeded, InHand
  <2>4. k.req = h.req /\ k.nr = h.nr /\ k.pc = "apply" /\ k.at = h.at + 1 /\ k.results = Append(h.results, FALSE)
    BY <1>4 DEF Becomes
  <2>5. ASSUME ~h.req.atomic
        PROVE  Len(k.results) = k.at - 1 /\ Succeeded(k) \cup InHand(k) = Assigned(put, c, h.nr)
    <3>1. Len(h.results) = h.at - 1 /\ Succeeded(h) \cup InHand(h) = Assigned(put, c, h.nr)
      BY <1>2, <1>3, <2>5 DEF TellsTrue
    <3>2. Len(k.results) = k.at - 1
      BY <1>2, <2>1, <2>4, <3>1
    <3> QED
      BY <2>3, <3>1, <3>2
  <2> QED
    BY <2>4, <2>5 DEF TellsTrue
<1>9. \A e \in put' : Announced(params', handler', events', e.name)
  <2>1. k.pc = "apply" /\ k.changed = h.changed
    BY <1>4 DEF Becomes
  <2>2. \A e \in put : Announced(params, handler, events, e.name)
    BY DEF ParamInv
  <2>3. \A e \in put : Announced(params, handler', events, e.name)
    BY <1>6, <2>1, <2>2, StillAnnounced
  <2> QED
    BY <2>3
<1>10. TypesKept'
  BY DEF ParamInv, TypesKept, get_parameters
<1>11. params' \in [Handles -> Texts] /\ events' \in Seq(Seq(Changes)) /\ put' \in SUBSET Puts
  BY DEF ParamInv, ParamTyped
<1>12. k.nr = h.nr /\ k.nr >= handler[c].nr
  BY <1>2, <1>4 DEF Becomes
<1>13. TellsTrue(k, Assigned(put', c, k.nr))
  BY <1>8, <1>12
<1>14. put \subseteq put' /\ \A e \in put' : e \notin put => e.by = c /\ e.nr = k.nr
  OBVIOUS
<1> QED
  BY <1>5, <1>6, <1>7, <1>9, <1>10, <1>11, <1>12, <1>13, <1>14, HandlerSteps

\* A parameter that is set, and not yet read back.
LEMMA AssignmentKeeps ==
  ASSUME ParamInv, NEW c \in Callers, handler[c].pc = "apply",
         handler[c].at <= Len(handler[c].req.params),
         NEW p, p = handler[c].req.params[handler[c].at], p.name \in Handles,
         NEW v \in setFromValue(p), params' = [params EXCEPT ![p.name] = v],
         put' = put \cup {[by |-> c, nr |-> handler[c].nr, name |-> p.name, value |-> v]},
         handler' = [handler EXCEPT ![c].pc = "read"],
         UNCHANGED <<events, given, bound>>
  PROVE  ParamInv'
<1> DEFINE h == handler[c]
<1>1. PICK k : k = [h EXCEPT !.pc = "read"]
  OBVIOUS
<1>2. /\ h \in Handlers /\ h.nr \in Nat /\ h.nr > 0 /\ h.req \in Requests /\ h.req.params \in Seq(ParamMsgs)
      /\ h.at \in 1..(Len(h.req.params) + 1) /\ h.results \in Seq(BOOLEAN) /\ h.changed \in Seq(Changes)
  BY AtParameter
<1>3. handler \in [Callers -> Handlers] /\ TellsTrue(h, Assigned(put, c, h.nr)) /\ params \in [Handles -> Texts]
  BY DEF ParamInv, ParamTyped
<1>4. Becomes(k, h, "read", h.at, h.results, h.changed)
  BY <1>1, <1>2 DEF Becomes, Handlers
<1>5. k \in Handlers
  BY <1>1, <1>2 DEF Handlers
<1>6. handler' = [handler EXCEPT ![c] = k]
  BY <1>1, <1>3
<1>7. k.pc = "read" /\ k.req = h.req /\ k.nr = h.nr /\ k.at = h.at /\ k.results = h.results
  BY <1>4 DEF Becomes
<1>8. AtWork(k)
  BY <1>2, <1>7 DEF AtWork
<1>9. p \in ParamMsgs
  <2>1. h.at \in 1..Len(h.req.params)
    BY <1>2
  <2> QED
    BY <1>2, <2>1, ElementOfSeq
<1>10. v \in Texts
  <2>1. v \in Settable
    BY <1>9 DEF Settable
  <2> QED
    BY <2>1 DEF Texts
<1>11. PICK a : a = [by |-> c, nr |-> h.nr, name |-> p.name, value |-> v]
  OBVIOUS
<1>12. a \in Puts /\ a.by = c /\ a.nr = h.nr /\ a.name = p.name /\ put' = put \cup {a}
  BY <1>2, <1>10, <1>11 DEF Puts
<1>13. Assigned(put', c, k.nr) = Assigned(put, c, h.nr) \cup {p.name}
  BY <1>7, <1>12 DEF Assigned
<1>14. TellsTrue(k, Assigned(put', c, k.nr))
  <2>1. Succeeded(k) = Succeeded(h) /\ InHand(h) = {} /\ InHand(k) = {p.name}
    BY <1>7 DEF Succeeded, InHand
  <2>2. ASSUME ~h.req.atomic
        PROVE  Len(k.results) = k.at - 1 /\ Succeeded(k) \cup InHand(k) = Assigned(put', c, k.nr)
    <3>1. Len(h.results) = h.at - 1 /\ Succeeded(h) \cup InHand(h) = Assigned(put, c, h.nr)
      BY <1>2, <1>3, <2>2 DEF TellsTrue
    <3> QED
      BY <1>7, <1>13, <2>1, <3>1
  <2> QED
    BY <1>7, <2>2 DEF TellsTrue
<1>15. k.changed = h.changed /\ \A d \in Callers : handler'[d] = IF d = c THEN k ELSE handler[d]
  BY <1>3, <1>4, <1>6 DEF Becomes
<1>16. ASSUME NEW e \in put' PROVE Announced(params', handler', events', e.name)
  <2>1. CASE e.name = p.name
    <3>1. handler'[c].pc = "read" /\ handler'[c].req.params[handler'[c].at].name = e.name
      BY <1>7, <1>15, <2>1
    <3> QED
      BY <3>1 DEF Announced
  <2>2. CASE e.name # p.name
    <3>1. e \in put
      BY <1>12, <2>2
    <3>2. params'[e.name] = params[e.name]
      BY <1>3, <2>2
    <3>3. Announced(params, handler, events, e.name)
      BY <3>1 DEF ParamInv
    <3>4. Announced(params, handler', events, e.name)
      BY <1>6, <1>7, <1>15, <3>3, StillAnnounced
    <3> QED
      BY <3>2, <3>4 DEF Announced
  <2> QED
    BY <2>1, <2>2
<1>17. TypesKept'
  <2>1. ASSUME bound, NEW n \in Names PROVE params'[n] \in parseInto(kindOf[n], params'[n])
    <3>1. n \in Handles /\ params[n] \in parseInto(kindOf[n], params[n])
      BY <2>1 DEF ParamInv, TypesKept, Handles
    <3> QED
      BY <1>3, <1>9, <3>1, SetReadsBack
  <2>2. bound => params'[useSimTimeParam] = simulated
    <3>1. useSimTimeParam \in Handles /\ (bound => params[useSimTimeParam] = simulated)
      BY DEF ParamInv, TypesKept, Handles
    <3> QED
      BY <1>3, <1>9, <3>1, SetReadsBack
  <2>3. \A n \in Handles : get_parameters(<<n>>)[1].type = rosType(n)
    BY DEF get_parameters
  <2> QED
    BY <2>1, <2>2, <2>3 DEF TypesKept, get_parameters
<1>18. params' \in [Handles -> Texts] /\ events' \in Seq(Seq(Changes)) /\ put' \in SUBSET Puts
  BY <1>3, <1>10, <1>12 DEF ParamInv, ParamTyped
<1>19. k.nr >= handler[c].nr
  BY <1>2, <1>7
<1>20. put \subseteq put' /\ \A e \in put' : e \notin put => e.by = c /\ e.nr = k.nr
  BY <1>7, <1>12
<1> QED
  BY <1>5, <1>6, <1>8, <1>14, <1>16, <1>17, <1>18, <1>19, <1>20, HandlerSteps

LEMMA ApplyKeeps ==
  ASSUME ParamInv, NEW c \in Callers, Apply(c)
  PROVE  ParamInv'
<1> DEFINE h == handler[c]
           p == h.req.params[h.at]
<1>1. h.pc = "apply" /\ h.at <= Len(h.req.params) /\ UNCHANGED <<events, given, bound>>
  BY DEF Apply, atStart
<1>2. CASE /\ handler' = [handler EXCEPT ![c].at = @ + 1, ![c].results = Append(@, FALSE)]
           /\ UNCHANGED <<params, put>>
  BY <1>1, <1>2, RefusalKeeps
<1>3. ASSUME p.name \in Handles, NEW v \in setFromValue(p), params' = [params EXCEPT ![p.name] = v],
             put' = put \cup {[by |-> c, nr |-> h.nr, name |-> p.name, value |-> v]},
             handler' = [handler EXCEPT ![c].pc = "read"]
      PROVE  ParamInv'
  BY <1>1, <1>3, AssignmentKeeps
<1> QED
  BY <1>2, <1>3 DEF Apply

LEMMA ReadBackKeeps ==
  ASSUME ParamInv, NEW c \in Callers, ReadBack(c)
  PROVE  ParamInv'
<1> DEFINE h == handler[c]
           n == h.req.params[h.at].name
           m == [name |-> n, value |-> params[n]]
<1>1. /\ h.pc = "read" /\ UNCHANGED <<params, events, put, given, bound>>
      /\ handler' = [handler EXCEPT ![c].pc = "apply", ![c].at = @ + 1,
                       ![c].results = Append(@, TRUE), ![c].changed = Append(@, m)]
  BY DEF ReadBack, atStart
<1>2. PICK k : k = [h EXCEPT !.pc = "apply", !.at = @ + 1, !.results = Append(@, TRUE),
                             !.changed = Append(@, m)]
  OBVIOUS
<1>3. /\ h \in Handlers /\ h.nr \in Nat /\ h.nr > 0 /\ h.req \in Requests /\ h.req.params \in Seq(ParamMsgs)
      /\ h.at \in 1..Len(h.req.params) /\ h.results \in Seq(BOOLEAN) /\ h.changed \in Seq(Changes)
      /\ n \in Handles
  <2>1. h.pc # "idle"
    BY <1>1
  <2> QED
    BY <1>1, <2>1, AtParameter
<1>4. handler \in [Callers -> Handlers] /\ TellsTrue(h, Assigned(put, c, h.nr)) /\ params \in [Handles -> Texts]
  BY DEF ParamInv, ParamTyped
<1>5. m \in Changes /\ m.name = n /\ m.value = params[n]
  BY <1>3, <1>4 DEF Changes
<1> HIDE DEF m
<1>6. Becomes(k, h, "apply", h.at + 1, Append(h.results, TRUE), Append(h.changed, m))
  BY <1>2, <1>3 DEF Becomes, Handlers
<1>7. /\ Append(h.results, TRUE) \in Seq(BOOLEAN) /\ Len(Append(h.results, TRUE)) = Len(h.results) + 1
      /\ \A i \in DOMAIN h.results : Append(h.results, TRUE)[i] = h.results[i]
      /\ Append(h.results, TRUE)[Len(h.results) + 1] = TRUE
      /\ DOMAIN Append(h.results, TRUE) = DOMAIN h.results \cup {Len(h.results) + 1}
  <2>1. \A x \in BOOLEAN :
        /\ Append(h.results, x) \in Seq(BOOLEAN) /\ Len(Append(h.results, x)) = Len(h.results) + 1
        /\ \A i \in DOMAIN h.results : Append(h.results, x)[i] = h.results[i]
        /\ Append(h.results, x)[Len(h.results) + 1] = x
        /\ DOMAIN Append(h.results, x) = DOMAIN h.results \cup {Len(h.results) + 1}
    BY <1>3, Appended
  <2> QED
    BY <2>1, Zenon
<1>8. /\ Append(h.changed, m) \in Seq(Changes)
      /\ \A i \in DOMAIN h.changed : Append(h.changed, m)[i] = h.changed[i]
      /\ Append(h.changed, m)[Len(h.changed) + 1] = m
      /\ DOMAIN Append(h.changed, m) = DOMAIN h.changed \cup {Len(h.changed) + 1}
  BY <1>3, <1>5, Appended
<1>9. k \in Handlers
  <2>1. h.at + 1 \in Nat \ {0}
    BY <1>3
  <2> QED
    BY <1>2, <1>3, <1>7, <1>8, <2>1 DEF Handlers
<1>10. handler' = [handler EXCEPT ![c] = k]
  BY <1>1, <1>2, <1>4
<1>11. /\ k.pc = "apply" /\ k.req = h.req /\ k.nr = h.nr /\ k.at = h.at + 1
       /\ k.results = Append(h.results, TRUE) /\ k.changed = Append(h.changed, m)
  BY <1>6 DEF Becomes
<1>12. AtWork(k)
  <2>1. h.at + 1 \in 1..(Len(h.req.params) + 1)
    BY <1>3
  <2> QED
    BY <1>3, <1>11, <2>1 DEF AtWork
<1>13. TellsTrue(k, Assigned(put', c, k.nr))
  <2>1. ASSUME ~h.req.atomic
        PROVE  Len(k.results) = k.at - 1 /\ Succeeded(k) \cup InHand(k) = Assigned(put', c, k.nr)
    <3>1. Len(h.results) = h.at - 1 /\ Succeeded(h) \cup InHand(h) = Assigned(put, c, h.nr)
      BY <1>1, <1>3, <1>4, <2>1 DEF TellsTrue
    <3>2. Len(k.results) = k.at - 1 /\ Len(h.results) + 1 = h.at
      BY <1>3, <1>7, <1>11, <3>1
    <3>3. {j \in DOMAIN k.results : k.results[j]} = {j \in DOMAIN h.results : h.results[j]} \cup {h.at}
      BY <1>7, <1>11, <3>2
    <3>4. Succeeded(k) = Succeeded(h) \cup {n}
      BY <1>11, <3>3 DEF Succeeded
    <3>5. InHand(k) = {} /\ InHand(h) = {n}
      BY <1>1, <1>11 DEF InHand
    <3> QED
      BY <1>1, <1>11, <3>1, <3>2, <3>4, <3>5
  <2> QED
    BY <1>11, <2>1 DEF TellsTrue
<1>14. \A d \in Callers : handler'[d] = IF d = c THEN k ELSE handler[d]
  BY <1>4, <1>10
<1>15. Holds(k.changed, m) /\ \A x : Holds(h.changed, x) => Holds(k.changed, x)
  BY <1>8, <1>11 DEF Holds
<1>16. ASSUME NEW e \in put' PROVE Announced(params', handler', events', e.name)
  <2>1. Announced(params, handler, events, e.name)
    BY <1>1 DEF ParamInv
  <2>2. CASE e.name = n
    <3>1. Holds(handler'[c].changed, [name |-> e.name, value |-> params[e.name]]) /\ handler'[c].pc # "idle"
      BY <1>11, <1>14, <1>15, <2>2 DEF m
    <3> QED
      BY <1>1, <3>1 DEF Announced
  <2>3. CASE e.name # n
    <3>1. Announced(params, handler', events, e.name)
      BY <1>1, <1>11, <1>14, <1>15, <2>1, <2>3 DEF Announced
    <3> QED
      BY <1>1, <3>1
  <2> QED
    BY <2>2, <2>3
<1>17. TypesKept'
  BY <1>1 DEF ParamInv, TypesKept, get_parameters
<1>18. params' \in [Handles -> Texts] /\ events' \in Seq(Seq(Changes)) /\ put' \in SUBSET Puts
  BY <1>1 DEF ParamInv, ParamTyped
<1>19. k.nr >= handler[c].nr
  BY <1>3, <1>11
<1>20. put \subseteq put' /\ bound' = bound /\ \A e \in put' : e \notin put => e.by = c /\ e.nr = k.nr
  BY <1>1
<1> QED
  BY <1>9, <1>10, <1>12, <1>13, <1>16, <1>17, <1>18, <1>19, <1>20, HandlerSteps

LEMMA ReplyKeeps ==
  ASSUME ParamInv, NEW c \in Callers, Reply(c)
  PROVE  ParamInv'
<1> DEFINE h == handler[c]
<1>1. /\ h.pc = "apply" /\ h.at > Len(h.req.params) /\ UNCHANGED <<params, put, given, bound>>
      /\ events' = IF h.changed = <<>> THEN events ELSE Append(events, h.changed)
      /\ handler' = [handler EXCEPT ![c].pc = "idle", ![c].results = IF h.req.atomic THEN <<TRUE>> ELSE @]
  BY DEF Reply, atStart
<1>2. PICK k : k = [h EXCEPT !.pc = "idle", !.results = IF h.req.atomic THEN <<TRUE>> ELSE @]
  OBVIOUS
<1>3. /\ h \in Handlers /\ h.nr \in Nat /\ h.nr > 0 /\ h.req \in Requests /\ h.req.params \in Seq(ParamMsgs)
      /\ h.at \in 1..(Len(h.req.params) + 1) /\ h.results \in Seq(BOOLEAN) /\ h.changed \in Seq(Changes)
  <2>1. h.pc # "idle"
    BY <1>1
  <2> QED
    BY <2>1, AtParameter
<1>4. /\ handler \in [Callers -> Handlers] /\ TellsTrue(h, Assigned(put, c, h.nr))
      /\ events \in Seq(Seq(Changes)) /\ params \in [Handles -> Texts]
  BY DEF ParamInv, ParamTyped
<1>5. h.at = Len(h.req.params) + 1
  <2>1. Len(h.req.params) \in Nat /\ h.at \in 1..(Len(h.req.params) + 1)
    BY <1>3
  <2>2. h.at > Len(h.req.params)
    BY <1>1
  <2> HIDE DEF h
  <2> QED
    BY <2>1, <2>2
<1>6. /\ k.pc = "idle" /\ k.req = h.req /\ k.nr = h.nr /\ k.at = h.at /\ k.changed = h.changed
      /\ h.req.atomic => k.results = <<TRUE>>
      /\ ~h.req.atomic => k.results = h.results
  BY <1>2, <1>3 DEF Handlers
<1>7. k \in Handlers
  <2>1. <<TRUE>> \in Seq(BOOLEAN)
    OBVIOUS
  <2> QED
    BY <1>2, <1>3, <2>1 DEF Handlers
<1>8. handler' = [handler EXCEPT ![c] = k]
  BY <1>1, <1>2, <1>4
<1>9. AtWork(k)
  BY <1>3, <1>6 DEF AtWork
<1>10. TellsTrue(k, Assigned(put', c, k.nr))
  <2>1. CASE h.req.atomic
    <3>1. k.results # <<FALSE>>
      <4>1. <<TRUE>> # <<FALSE>>
        OBVIOUS
      <4> QED
        BY <1>6, <2>1, <4>1
    <3> QED
      BY <1>6, <2>1, <3>1 DEF TellsTrue
  <2>2. CASE ~h.req.atomic
    <3>1. Len(h.results) = h.at - 1 /\ Succeeded(h) \cup InHand(h) = Assigned(put, c, h.nr)
      BY <1>1, <1>3, <1>4, <2>2 DEF TellsTrue
    <3>2. Len(k.results) = Len(k.req.params)
      BY <1>3, <1>5, <1>6, <2>2, <3>1
    <3>3. Succeeded(k) = Succeeded(h) /\ InHand(k) = InHand(h)
      BY <1>1, <1>6, <2>2 DEF Succeeded, InHand
    <3> QED
      BY <1>1, <1>6, <2>2, <3>1, <3>2, <3>3 DEF TellsTrue
  <2> QED
    BY <2>1, <2>2
<1>11. \A d \in Callers : handler'[d] = IF d = c THEN k ELSE handler[d]
  BY <1>4, <1>8
<1>12. /\ events' \in Seq(Seq(Changes))
       /\ \A i \in DOMAIN events : i \in DOMAIN events' /\ events'[i] = events[i]
       /\ \A x : Holds(h.changed, x) => \E i \in DOMAIN events' : Holds(events'[i], x)
  <2>1. CASE h.changed = <<>>
    <3>1. \A x : ~Holds(h.changed, x)
      BY <2>1 DEF Holds
    <3> QED
      BY <1>1, <1>4, <2>1, <3>1
  <2>2. CASE h.changed # <<>>
    <3>1. events' = Append(events, h.changed)
      BY <1>1, <2>2
    <3>2. /\ events' \in Seq(Seq(Changes))
          /\ \A i \in DOMAIN events : events'[i] = events[i]
          /\ events'[Len(events) + 1] = h.changed
          /\ DOMAIN events' = DOMAIN events \cup {Len(events) + 1}
      BY <1>3, <1>4, <3>1, Appended
    <3> QED
      BY <3>2
  <2> QED
    BY <2>1, <2>2
<1>13. ASSUME NEW e \in put' PROVE Announced(params', handler', events', e.name)
  <2>1. Announced(params, handler, events, e.name)
    BY <1>1 DEF ParamInv
  <2>2. CASE \E i \in DOMAIN events : Holds(events[i], [name |-> e.name, value |-> params[e.name]])
    BY <1>1, <1>12, <2>2 DEF Announced
  <2>3. CASE \E d \in Callers : /\ handler[d].pc # "idle"
                                /\ Holds(handler[d].changed, [name |-> e.name, value |-> params[e.name]])
    <3>1. PICK d \in Callers : /\ handler[d].pc # "idle"
                               /\ Holds(handler[d].changed, [name |-> e.name, value |-> params[e.name]])
      BY <2>3
    <3>2. CASE d = c
      BY <1>1, <1>12, <3>1, <3>2 DEF Announced
    <3>3. CASE d # c
      BY <1>1, <1>11, <3>1, <3>3 DEF Announced
    <3> QED
      BY <3>2, <3>3
  <2>4. CASE \E d \in Callers : handler[d].pc = "read" /\ handler[d].req.params[handler[d].at].name = e.name
    <3>1. PICK d \in Callers : handler[d].pc = "read" /\ handler[d].req.params[handler[d].at].name = e.name
      BY <2>4
    <3>2. handler'[d] = handler[d]
      BY <1>1, <1>11, <3>1
    <3> QED
      BY <3>1, <3>2 DEF Announced
  <2> QED
    BY <2>1, <2>2, <2>3, <2>4 DEF Announced
<1>14. TypesKept'
  BY <1>1 DEF ParamInv, TypesKept, get_parameters
<1>15. params' \in [Handles -> Texts] /\ put' \in SUBSET Puts
  BY <1>1 DEF ParamInv, ParamTyped
<1>16. k.nr >= handler[c].nr
  BY <1>3, <1>6
<1>17. put \subseteq put' /\ bound' = bound /\ \A e \in put' : e \notin put => e.by = c /\ e.nr = k.nr
  BY <1>1
<1> QED
  BY <1>7, <1>8, <1>9, <1>10, <1>12, <1>13, <1>14, <1>15, <1>16, <1>17, HandlerSteps

LEMMA ParamStep == ParamInv /\ [ParamNext]_paramVars => ParamInv'
<1> SUFFICES ASSUME ParamInv, [ParamNext]_paramVars PROVE ParamInv'
  OBVIOUS
<1>1. CASE ParamNext
  BY <1>1, CalledKeeps, ApplyKeeps, ReadBackKeeps, ReplyKeeps DEF ParamNext
<1>2. CASE UNCHANGED paramVars
  <2>1. UNCHANGED <<params, handler, events, put, given, bound>>
    BY <1>2 DEF paramVars
  <2>2. ParamTyped' /\ TypesKept'
    BY <2>1 DEF ParamInv, ParamTyped, TypesKept, get_parameters
  <2>3. (\A c \in Callers : AtWork(handler[c]) /\ TellsTrue(handler[c], Assigned(put, c, handler[c].nr)))'
    <3>1. \A c \in Callers : /\ AtWork(handler'[c])
                             /\ TellsTrue(handler'[c], Assigned(put', c, handler'[c].nr))
      BY <2>1 DEF ParamInv
    <3> QED
      BY <3>1 DEF AtWork, TellsTrue, Succeeded, InHand, Assigned
  <2>4. (\A e \in put : e.nr <= handler[e.by].nr)'
    BY <2>1 DEF ParamInv
  <2>5. (\A e \in put : Announced(params, handler, events, e.name))'
    BY <2>1 DEF ParamInv, Announced, Holds
  <2> QED
    BY <2>2, <2>3, <2>4, <2>5 DEF ParamInv
<1> QED
  BY <1>1, <1>2

LEMMA ParamIsEnough == ParamInv => ParamsKeepFaith
<1> SUFFICES ASSUME ParamInv PROVE ParamsKeepFaith
  OBVIOUS
<1>1. ParamTyped
  BY DEF ParamInv
<1>2. ParamTypeOK
  <2>1. \A c \in Callers : handler[c].pc \in {"idle", "apply", "read"}
    BY <1>1 DEF ParamTyped, Handlers
  <2> QED
    BY <1>1, <2>1 DEF ParamTyped, ParamTypeOK
<1>3. ASSUME NEW c \in Callers, Replied(c)
      PROVE  LET h == handler[c] IN
             IF h.req.atomic
             THEN h.results = <<FALSE>> => Effects(c) = {}
             ELSE /\ Len(h.results) = Len(h.req.params)
                  /\ {h.req.params[i].name : i \in {j \in DOMAIN h.results : h.results[j]}}
                       = {e.name : e \in Effects(c)}
  <2>1. handler[c].pc = "idle" /\ handler[c].nr > 0 /\ TellsTrue(handler[c], Assigned(put, c, handler[c].nr))
    BY <1>3 DEF Replied, ParamInv
  <2>2. Assigned(put, c, handler[c].nr) = {e.name : e \in Effects(c)}
    BY DEF Assigned, Effects
  <2>3. InHand(handler[c]) = {}
    BY <2>1 DEF InHand
  <2>4. CASE handler[c].req.atomic
    <3>1. handler[c].results = <<FALSE>> => {e.name : e \in Effects(c)} = {}
      BY <2>1, <2>2, <2>4 DEF TellsTrue
    <3> QED
      BY <2>4, <3>1
  <2>5. CASE ~handler[c].req.atomic
    <3>1. /\ Len(handler[c].results) = Len(handler[c].req.params)
          /\ Succeeded(handler[c]) \cup InHand(handler[c]) = {e.name : e \in Effects(c)}
      BY <2>1, <2>2, <2>5 DEF TellsTrue
    <3>2. Succeeded(handler[c]) = {e.name : e \in Effects(c)}
      BY <2>3, <3>1
    <3> QED
      BY <2>5, <3>1, <3>2 DEF Succeeded
  <2> QED
    BY <2>4, <2>5
<1>4. RepliesAreTrue
  BY <1>3 DEF RepliesAreTrue
<1>5. ASSUME \A c \in Callers : handler[c].pc = "idle", NEW e \in put
      PROVE  \E m \in ToSet(events) : [name |-> e.name, value |-> params[e.name]] \in ToSet(m)
  <2>1. Announced(params, handler, events, e.name)
    BY DEF ParamInv
  <2>2. PICK i \in DOMAIN events : Holds(events[i], [name |-> e.name, value |-> params[e.name]])
    BY <1>5, <2>1 DEF Announced
  <2>3. events[i] \in ToSet(events) /\ [name |-> e.name, value |-> params[e.name]] \in ToSet(events[i])
    BY <2>2 DEF ToSet, Holds
  <2> QED
    BY <2>3
<1>6. ValueAnnounced
  BY <1>5 DEF ValueAnnounced
<1> QED
  BY <1>2, <1>4, <1>6 DEF ParamsKeepFaith, ParamInv

\* What handlers have in hand, have reported and have yet to announce fits together
\* in every reachable state (bindParamServices).
THEOREM ParamInvariance == ParamSpec => []ParamInv
<1>1. ParamInit => ParamInv
  BY ParamStarts
<1>2. ParamInv /\ [ParamNext]_paramVars => ParamInv'
  BY ParamStep
<1> QED
  BY <1>1, <1>2, PTL DEF ParamSpec

\* However requests interleave, replies tell what was set, a parameter keeps its type,
\* and its value is announced (set_parameters, set_parameters_atomically).
THEOREM KeepsFaith == ParamSpec => []ParamsKeepFaith
BY ParamInvariance, ParamIsEnough, PTL

-----------------------------------------------------------------------------
(* The simulated clock, for any waits, any number of goroutines delivering   *)
(* /clock and any times it may carry.                                        *)

\* Only the stop function Ticker returns stops a waiter.
OnlyTickersStop == \A w \in Waiters \ Tickers : ~waiter[w].stopped

\* A one-shot wait is in one place at a time: on one Set's list or in its channel.
OnePlace ==
  \A w \in Waiters \ Tickers :
    /\ \A s, r \in Setters : w \in setter[s] /\ w \in setter[r] => s = r
    /\ chan[w] = 1 => \A s \in Setters : w \notin setter[s]

\* A deadline is the wait counted from the time the history variable records.
Counted ==
  \A w \in Waiters :
    started /\ waiter[w].pc = "held" /\ ~waiter[w].stopped => waiter[w].at = since[w] + Wait[w]

ClockInv ==
  /\ TypeOK
  /\ NeverBehindNorBeyond
  /\ Counted
  /\ OnlyTickersStop
  /\ AfterNeverLost
  /\ AfterFiresOnce
  /\ OnePlace

-----------------------------------------------------------------------------
(* What Set does to one waiter.                                              *)

\* A waiter from its fields.
LEMMA WaiterFromFields ==
  ASSUME NEW p \in {"none", "held", "gone"}, NEW a \in Int, NEW b \in BOOLEAN, NEW c \in BOOLEAN
  PROVE  [pc |-> p, at |-> a, anchored |-> b, stopped |-> c] \in WaiterState
  BY DEF WaiterState

\* ... and its fields.
LEMMA FieldsOfWaiter ==
  ASSUME NEW u \in WaiterState
  PROVE  /\ u.pc \in {"none", "held", "gone"} /\ u.at \in Int
         /\ u.anchored \in BOOLEAN /\ u.stopped \in BOOLEAN
         /\ u = [pc |-> u.pc, at |-> u.at, anchored |-> u.anchored, stopped |-> u.stopped]
  BY DEF WaiterState

\* The cases of Moved, as one fact each.
LEMMA MovedCases ==
  ASSUME NEW w \in Waiters, NEW t \in 0..MaxTime, TypeOK
  PROVE  /\ Moved(w, t) \in WaiterState
         /\ waiter[w].pc # "held" => Moved(w, t) = waiter[w]
         /\ waiter[w].pc = "held" /\ waiter[w].stopped => Moved(w, t).pc = "gone"
         /\ Due(w, t) /\ w \notin Tickers => Moved(w, t).pc = "gone"
         /\ Due(w, t) /\ w \in Tickers =>
              /\ Moved(w, t).pc = "held" /\ ~Moved(w, t).stopped
              /\ Moved(w, t).at = t + Wait[w] /\ Moved(w, t).anchored
         /\ waiter[w].pc = "held" /\ ~waiter[w].stopped /\ ~Due(w, t) =>
              /\ Moved(w, t).pc = "held" /\ ~Moved(w, t).stopped
              /\ Moved(w, t).at = Deadline(w, t)
              /\ Moved(w, t).anchored = (waiter[w].anchored \/ ~started)
         /\ w \notin Tickers /\ ~waiter[w].stopped => ~Moved(w, t).stopped
<1> DEFINE u == waiter[w]
<1>1. u \in WaiterState
  BY DEF TypeOK
<1>2. now \in Int /\ t \in Int /\ Wait[w] \in Nat /\ started \in BOOLEAN
  BY ClockAssumption DEF TypeOK
<1>3. Deadline(w, t) \in Int
  BY <1>1, <1>2 DEF Deadline, WaiterState
<1>4. CASE u.pc # "held"
  BY <1>1, <1>4 DEF Moved, Due
<1>5. CASE u.pc = "held" /\ u.stopped
  <2>1. Moved(w, t) = [u EXCEPT !.pc = "gone", !.at = 0]
    BY <1>5 DEF Moved, Due
  <2>2. ~Due(w, t)
    BY <1>5 DEF Due
  <2>3. Moved(w, t) \in WaiterState
    <3>1. Moved(w, t) = [pc |-> "gone", at |-> 0, anchored |-> u.anchored, stopped |-> u.stopped]
      BY <1>1, <2>1, FieldsOfWaiter DEF WaiterState
    <3> QED
      BY <1>1, <3>1, FieldsOfWaiter, WaiterFromFields
  <2>4. Moved(w, t).pc = "gone"
    BY <1>1, <2>1 DEF WaiterState
  <2>5. Moved(w, t).stopped = u.stopped
    BY <1>1, <2>1 DEF WaiterState
  <2> QED
    BY <1>5, <2>2, <2>3, <2>4, <2>5
<1>6. CASE Due(w, t) /\ w \in Tickers
  <2>1. u.pc = "held" /\ ~u.stopped
    BY <1>6 DEF Due
  <2>2. Moved(w, t) = [u EXCEPT !.at = t + Wait[w], !.anchored = TRUE]
    BY <1>6, <2>1 DEF Moved
  <2>3. Moved(w, t) \in WaiterState
    <3>1. Moved(w, t) = [pc |-> "held", at |-> t + Wait[w], anchored |-> TRUE, stopped |-> u.stopped]
      BY <1>1, <2>1, <2>2, FieldsOfWaiter DEF WaiterState
    <3>2. t + Wait[w] \in Int /\ u.stopped \in BOOLEAN /\ TRUE \in BOOLEAN
      BY <1>1, <1>2, FieldsOfWaiter
    <3> QED
      BY <3>1, <3>2, WaiterFromFields
  <2>4. Moved(w, t).pc = "held" /\ Moved(w, t).at = t + Wait[w]
    BY <1>1, <2>1, <2>2 DEF WaiterState
  <2>5. Moved(w, t).stopped = u.stopped /\ Moved(w, t).anchored = TRUE
    BY <1>1, <2>2 DEF WaiterState
  <2> QED
    BY <1>6, <2>1, <2>3, <2>4, <2>5
<1>7. CASE Due(w, t) /\ w \notin Tickers
  <2>1. u.pc = "held" /\ ~u.stopped
    BY <1>7 DEF Due
  <2>2. Moved(w, t) = [u EXCEPT !.pc = "gone", !.at = 0]
    BY <1>7, <2>1 DEF Moved
  <2>3. Moved(w, t) \in WaiterState
    <3>1. Moved(w, t) = [pc |-> "gone", at |-> 0, anchored |-> u.anchored, stopped |-> u.stopped]
      BY <1>1, <2>2, FieldsOfWaiter DEF WaiterState
    <3> QED
      BY <1>1, <3>1, FieldsOfWaiter, WaiterFromFields
  <2>4. Moved(w, t).pc = "gone"
    BY <1>1, <2>2 DEF WaiterState
  <2>5. Moved(w, t).stopped = u.stopped
    BY <1>1, <2>2 DEF WaiterState
  <2> QED
    BY <1>7, <2>1, <2>3, <2>4, <2>5
<1>8. CASE u.pc = "held" /\ ~u.stopped /\ ~Due(w, t)
  <2>1. Moved(w, t) = [u EXCEPT !.at = Deadline(w, t), !.anchored = @ \/ ~started]
    BY <1>8 DEF Moved
  <2> QED
    BY <1>1, <1>2, <1>3, <1>8, <2>1 DEF WaiterState
<1> QED
  BY <1>4, <1>5, <1>6, <1>7, <1>8

\* Where the first two loops of Set leave the deadline of a live waiter: a wait
\* that outlives a Set is still within its own length of the present, and a
\* reset lets none outlive it.
LEMMA DeadlineInReach ==
  ASSUME NEW w \in Waiters, NEW t \in 0..MaxTime, TypeOK, NeverBehindNorBeyond,
         waiter[w].pc = "held", ~waiter[w].stopped
  PROVE  /\ Due(w, t) <=> Deadline(w, t) <= t
         /\ Deadline(w, t) <= t + Wait[w]
         /\ ~started => Deadline(w, t) = t + Wait[w]
         /\ started /\ t < now => Due(w, t)
         /\ started /\ ~(t < now) => Deadline(w, t) = waiter[w].at
<1>1. waiter[w] \in WaiterState /\ now \in Nat /\ t \in Nat /\ Wait[w] \in Nat /\ started \in BOOLEAN
  BY ClockAssumption DEF TypeOK
<1>2. waiter[w].anchored = started /\ (started => waiter[w].at \in now..(now + Wait[w]))
  BY DEF NeverBehindNorBeyond
<1> QED
  BY <1>1, <1>2 DEF Due, Deadline, WaiterState

-----------------------------------------------------------------------------
(* The invariant is inductive: one step per action.                          *)

LEMMA ClockStarts == Init => ClockInv
<1> SUFFICES ASSUME Init PROVE ClockInv
  OBVIOUS
<1>1. TypeOK
  <2>1. [pc |-> "none", at |-> 0, anchored |-> FALSE, stopped |-> FALSE] \in WaiterState
    BY WaiterFromFields, 0 \in Int, FALSE \in BOOLEAN, Zenon
  <2>2. waiter \in [Waiters -> WaiterState]
    BY <2>1 DEF Init
  <2>3. 0 \in 0..MaxTime
    BY ClockAssumption
  <2> QED
    BY <2>2, <2>3 DEF Init, TypeOK
<1>2. \A w \in Waiters : waiter[w].pc = "none" /\ waiter[w].stopped = FALSE
  BY DEF Init
<1>3. NeverBehindNorBeyond /\ Counted /\ OnlyTickersStop
  BY <1>2 DEF Init, NeverBehindNorBeyond, Counted, OnlyTickersStop
<1>4. AfterNeverLost /\ AfterFiresOnce /\ OnePlace
  BY <1>2 DEF Init, AfterNeverLost, AfterFiresOnce, OnePlace
<1> QED
  BY <1>1, <1>3, <1>4 DEF ClockInv

LEMMA CreatePreserves ==
  ASSUME NEW w \in Waiters, ClockInv, Create(w)
  PROVE  ClockInv'
<1> DEFINE u == [pc |-> "held", at |-> now + Wait[w], anchored |-> started, stopped |-> FALSE]
<1>1. TypeOK'
  <2>1. Wait[w] \in Nat /\ now \in 0..MaxTime /\ started \in BOOLEAN
    BY ClockAssumption DEF ClockInv, TypeOK
  <2>2. u \in WaiterState
    BY <2>1 DEF WaiterState
  <2>3. waiter' \in [Waiters -> WaiterState]
    BY <2>2 DEF ClockInv, TypeOK, Create
  <2>4. since' \in [Waiters -> 0..MaxTime]
    BY <2>1 DEF ClockInv, TypeOK, Create
  <2> QED
    BY <2>3, <2>4 DEF ClockInv, TypeOK, Create
<1>2. waiter'[w] = u /\ \A v \in Waiters \ {w} : waiter'[v] = waiter[v]
  BY DEF ClockInv, TypeOK, Create
<1>3. since'[w] = now /\ \A v \in Waiters \ {w} : since'[v] = since[v]
  BY DEF ClockInv, TypeOK, Create
<1>4. UNCHANGED <<now, started, setter, chan, got>> /\ waiter[w].pc = "none"
  BY DEF Create
<1>5. now \in Nat /\ Wait[w] \in Nat
  BY ClockAssumption DEF ClockInv, TypeOK
<1>6. NeverBehindNorBeyond'
  BY <1>2, <1>4, <1>5 DEF ClockInv, NeverBehindNorBeyond
<1>7. Counted'
  BY <1>2, <1>3, <1>4, <1>5 DEF ClockInv, Counted
<1>8. OnlyTickersStop' /\ AfterNeverLost' /\ AfterFiresOnce' /\ OnePlace'
  BY <1>2, <1>4 DEF ClockInv, OnlyTickersStop, AfterNeverLost, AfterFiresOnce, OnePlace
<1> QED
  BY <1>1, <1>6, <1>7, <1>8 DEF ClockInv

LEMMA StopPreserves ==
  ASSUME NEW w \in Waiters, ClockInv, StopTicker(w)
  PROVE  ClockInv'
<1>1. TypeOK'
  BY DEF ClockInv, TypeOK, StopTicker, WaiterState
<1>2. waiter'[w].stopped /\ waiter'[w].pc = waiter[w].pc
      /\ \A v \in Waiters \ {w} : waiter'[v] = waiter[v]
  BY DEF ClockInv, TypeOK, StopTicker, WaiterState
<1>3. UNCHANGED <<now, started, setter, chan, got, since>> /\ w \in Tickers
  BY DEF StopTicker
<1>4. NeverBehindNorBeyond' /\ Counted'
  BY <1>2, <1>3 DEF ClockInv, NeverBehindNorBeyond, Counted
<1>5. OnlyTickersStop' /\ AfterNeverLost' /\ AfterFiresOnce' /\ OnePlace'
  BY <1>2, <1>3 DEF ClockInv, OnlyTickersStop, AfterNeverLost, AfterFiresOnce, OnePlace
<1> QED
  BY <1>1, <1>4, <1>5 DEF ClockInv

LEMMA SetPreserves ==
  ASSUME NEW s \in Setters, NEW t \in 0..MaxTime, ClockInv, Set(s, t)
  PROVE  ClockInv'
<1>1. TypeOK
  BY DEF ClockInv
<1>2. \A w \in Waiters : waiter'[w] = Moved(w, t)
  BY DEF Set
<1>3. now' = t /\ started' = TRUE /\ UNCHANGED <<chan, got>> /\ setter[s] = {}
  BY DEF Set
<1>4. /\ setter'[s] = {w \in Waiters : Due(w, t)}
      /\ \A r \in Setters \ {s} : setter'[r] = setter[r]
  BY <1>1 DEF Set, TypeOK
<1>5. \A w \in Waiters : Due(w, t) => waiter[w].pc = "held" /\ ~waiter[w].stopped
  BY DEF Due
<1>6. TypeOK'
  <2>1. waiter' \in [Waiters -> WaiterState]
    BY <1>1, MovedCases DEF Set
  <2>2. setter' \in [Setters -> SUBSET Waiters]
    BY <1>1 DEF Set, TypeOK
  <2>3. since' \in [Waiters -> 0..MaxTime]
    BY <1>1 DEF Set, TypeOK
  <2> QED
    BY <1>1, <1>3, <2>1, <2>2, <2>3 DEF TypeOK
<1>7. NeverBehindNorBeyond' /\ Counted'
  <2> SUFFICES ASSUME NEW w \in Waiters, waiter'[w].pc = "held", ~waiter'[w].stopped
               PROVE  /\ waiter'[w].anchored = TRUE
                      /\ waiter'[w].at \in t..(t + Wait[w])
                      /\ waiter'[w].at = since'[w] + Wait[w]
    BY <1>3 DEF NeverBehindNorBeyond, Counted
  <2>1. waiter[w].pc = "held" /\ ~waiter[w].stopped
    BY <1>1, <1>2, MovedCases DEF TypeOK, WaiterState
  <2>2. since'[w] = IF ~started \/ Due(w, t) \/ t < now THEN t ELSE since[w]
    BY <2>1 DEF Set
  <2>3. /\ t \in Nat /\ now \in Nat /\ Wait[w] \in Nat /\ started \in BOOLEAN
        /\ since[w] \in Nat /\ waiter[w].at \in Int
    BY <1>1, ClockAssumption DEF TypeOK, WaiterState
  <2>4. /\ waiter[w].anchored = started
        /\ started => waiter[w].at \in now..(now + Wait[w]) /\ waiter[w].at = since[w] + Wait[w]
    BY <2>1 DEF ClockInv, NeverBehindNorBeyond, Counted
  <2>5. CASE Due(w, t)
    BY <1>1, <1>2, <2>2, <2>3, <2>5, MovedCases
  <2>6. CASE ~Due(w, t)
    <3>1. waiter'[w].at = Deadline(w, t) /\ waiter'[w].anchored = TRUE
      BY <1>1, <1>2, <2>1, <2>4, <2>6, MovedCases
    <3>2. /\ ~(Deadline(w, t) <= t) /\ Deadline(w, t) <= t + Wait[w]
          /\ ~started => Deadline(w, t) = t + Wait[w]
          /\ started => ~(t < now) /\ Deadline(w, t) = waiter[w].at
      BY <1>1, <2>1, <2>6, DeadlineInReach DEF ClockInv
    <3> QED
      BY <2>2, <2>3, <2>4, <2>6, <3>1, <3>2
  <2> QED
    BY <2>5, <2>6
<1>8. OnlyTickersStop'
  BY <1>1, <1>2, MovedCases DEF ClockInv, OnlyTickersStop
<1>9. \A w \in Waiters \ Tickers :
        /\ Due(w, t) => waiter'[w].pc = "gone"
        /\ ~Due(w, t) => waiter'[w].pc = waiter[w].pc
  BY <1>1, <1>2, MovedCases DEF ClockInv, OnlyTickersStop
<1>10. AfterNeverLost'
  BY <1>3, <1>4, <1>9 DEF ClockInv, AfterNeverLost
<1>11. AfterFiresOnce' /\ OnePlace'
  <2> SUFFICES ASSUME NEW w \in Waiters \ Tickers
               PROVE  /\ waiter'[w].pc # "gone" =>
                           w \notin got /\ chan[w] = 0 /\ \A r \in Setters : w \notin setter'[r]
                      /\ w \in got => chan[w] = 0 /\ \A r \in Setters : w \notin setter'[r]
                      /\ \A r, q \in Setters : w \in setter'[r] /\ w \in setter'[q] => r = q
                      /\ chan[w] = 1 => \A r \in Setters : w \notin setter'[r]
    BY <1>3 DEF AfterFiresOnce, OnePlace
  <2>1. /\ waiter[w].pc # "gone" => w \notin got /\ chan[w] = 0 /\ \A r \in Setters : w \notin setter[r]
        /\ w \in got => chan[w] = 0 /\ \A r \in Setters : w \notin setter[r]
    BY DEF ClockInv, AfterFiresOnce
  <2>2. /\ \A r, q \in Setters : w \in setter[r] /\ w \in setter[q] => r = q
        /\ chan[w] = 1 => \A r \in Setters : w \notin setter[r]
    BY DEF ClockInv, OnePlace
  <2>3. CASE Due(w, t)
    BY <1>4, <1>5, <1>9, <2>1, <2>3
  <2>4. CASE ~Due(w, t)
    BY <1>3, <1>4, <1>9, <2>1, <2>2, <2>4
  <2> QED
    BY <2>3, <2>4
<1> QED
  BY <1>6, <1>7, <1>8, <1>10, <1>11 DEF ClockInv

LEMMA SendPreserves ==
  ASSUME NEW s \in Setters, NEW w \in Waiters, ClockInv, Send(s, w)
  PROVE  ClockInv'
<1>1. TypeOK'
  BY DEF ClockInv, TypeOK, Send
<1>2. /\ w \in setter[s] /\ setter'[s] = setter[s] \ {w}
      /\ \A r \in Setters \ {s} : setter'[r] = setter[r]
      /\ chan'[w] = 1 /\ \A v \in Waiters \ {w} : chan'[v] = chan[v]
      /\ UNCHANGED <<now, started, waiter, got, since>>
  BY DEF ClockInv, TypeOK, Send
<1>3. NeverBehindNorBeyond' /\ Counted' /\ OnlyTickersStop'
  BY <1>2 DEF ClockInv, NeverBehindNorBeyond, Counted, OnlyTickersStop
<1>4. AfterNeverLost'
  BY <1>2 DEF ClockInv, AfterNeverLost
<1>5. AfterFiresOnce'
  BY <1>2 DEF ClockInv, AfterFiresOnce
<1>6. OnePlace'
  BY <1>2 DEF ClockInv, OnePlace
<1> QED
  BY <1>1, <1>3, <1>4, <1>5, <1>6 DEF ClockInv

LEMMA ReceivePreserves ==
  ASSUME NEW w \in Waiters, ClockInv, Receive(w)
  PROVE  ClockInv'
<1>1. TypeOK'
  BY DEF ClockInv, TypeOK, Receive
<1>2. /\ chan[w] = 1 /\ chan'[w] = 0 /\ \A v \in Waiters \ {w} : chan'[v] = chan[v]
      /\ got' = got \cup {w}
      /\ UNCHANGED <<now, started, waiter, setter, since>>
  BY DEF ClockInv, TypeOK, Receive
<1>3. NeverBehindNorBeyond' /\ Counted' /\ OnlyTickersStop'
  BY <1>2 DEF ClockInv, NeverBehindNorBeyond, Counted, OnlyTickersStop
<1>4. AfterNeverLost' /\ AfterFiresOnce' /\ OnePlace'
  BY <1>2 DEF ClockInv, AfterNeverLost, AfterFiresOnce, OnePlace
<1> QED
  BY <1>1, <1>3, <1>4 DEF ClockInv

LEMMA ClockStep == ClockInv /\ [Next]_vars => ClockInv'
<1> SUFFICES ASSUME ClockInv, [Next]_vars PROVE ClockInv'
  OBVIOUS
<1>1. CASE \E w \in Waiters : Create(w)
  BY <1>1, CreatePreserves
<1>2. CASE \E w \in Waiters : StopTicker(w)
  BY <1>2, StopPreserves
<1>3. CASE \E w \in Waiters : Receive(w)
  BY <1>3, ReceivePreserves
<1>4. CASE \E s \in Setters : \E t \in 0..MaxTime : Set(s, t)
  BY <1>4, SetPreserves
<1>5. CASE \E s \in Setters : \E w \in Waiters : Send(s, w)
  BY <1>5, SendPreserves
<1>6. CASE UNCHANGED vars
  BY <1>6
  DEF vars, ClockInv, TypeOK, NeverBehindNorBeyond, Counted, OnlyTickersStop, AfterNeverLost,
      AfterFiresOnce, OnePlace
<1> QED
  BY <1>1, <1>2, <1>3, <1>4, <1>5, <1>6 DEF Next

-----------------------------------------------------------------------------
(* The theorems.                                                             *)

\* Every reachable state satisfies the inductive invariant.
THEOREM ClockInvariance == Spec => []ClockInv
  BY ClockStarts, ClockStep, PTL DEF Spec

\* Every reachable state of simClock has its type.
THEOREM TypeCorrect == Spec => []TypeOK
<1>1. ClockInv => TypeOK
  BY DEF ClockInv
<1> QED
  BY <1>1, ClockInvariance, PTL

\* Whatever jumps and resets /clock makes, what Set leaves in c.waiters fires
\* within its own wait of the present.
THEOREM WithinReach == Spec => []NeverBehindNorBeyond
<1>1. ClockInv => NeverBehindNorBeyond
  BY DEF ClockInv
<1> QED
  BY <1>1, ClockInvariance, PTL

\* Set's send to an After channel that has room for one value loses nothing.
THEOREM NothingLost == Spec => []AfterNeverLost
<1>1. ClockInv => AfterNeverLost
  BY DEF ClockInv
<1> QED
  BY <1>1, ClockInvariance, PTL

\* An After fires once, however many goroutines are in Set.
THEOREM OneShot == Spec => []AfterFiresOnce
<1>1. ClockInv => AfterFiresOnce
  BY DEF ClockInv
<1> QED
  BY <1>1, ClockInvariance, PTL

\* However many goroutines deliver /clock, a one-shot wait that is over has been
\* answered exactly once.
THEOREM ExactlyOnce == Spec => []AfterFiresExactlyOnce
<1>1. TypeOK /\ AfterNeverLost /\ AfterFiresOnce => AfterFiresExactlyOnce
  BY DEF AfterFiresExactlyOnce
<1> QED
  BY <1>1, TypeCorrect, NothingLost, OneShot, PTL

\* Set fires nothing before its wait has passed, unless the simulation was reset.
THEOREM NotEarly == Spec => NothingEarly
<1> DEFINE Waited ==
      \A w \in Waiters :
        Fires(w) => \/ started /\ now' < now
                    \/ now' >= (IF started THEN since[w] ELSE now') + Wait[w]
<1>1. ClockInv /\ [Next]_vars => [Waited]_vars
  <2> SUFFICES ASSUME ClockInv, Next, NEW w \in Waiters, Fires(w)
               PROVE  \/ started /\ now' < now
                      \/ now' >= (IF started THEN since[w] ELSE now') + Wait[w]
    OBVIOUS
  <2>1. PICK s \in Setters : w \in setter'[s] \ setter[s]
    BY DEF Fires
  <2>2. PICK r \in Setters, t \in 0..MaxTime : Set(r, t)
    <3>1. ASSUME NEW r \in Setters, NEW v \in Waiters, Send(r, v) PROVE FALSE
      BY <2>1, <3>1 DEF Send, ClockInv, TypeOK
    <3>2. ASSUME NEW v \in Waiters, Create(v) \/ StopTicker(v) \/ Receive(v) PROVE FALSE
      BY <2>1, <3>2 DEF Create, StopTicker, Receive
    <3> QED
      BY <3>1, <3>2 DEF Next
  <2>3. Due(w, t) /\ now' = t
    BY <2>1, <2>2 DEF Set, ClockInv, TypeOK
  <2>4. waiter[w].pc = "held" /\ ~waiter[w].stopped
    BY <2>3 DEF Due
  <2>5. /\ Deadline(w, t) <= t
        /\ ~started => Deadline(w, t) = t + Wait[w]
        /\ started /\ ~(t < now) => Deadline(w, t) = since[w] + Wait[w]
    BY <2>3, <2>4, DeadlineInReach DEF ClockInv, Counted
  <2>6. t \in Nat /\ now \in Nat /\ started \in BOOLEAN
    BY DEF ClockInv, TypeOK
  <2> QED
    BY <2>3, <2>5, <2>6
<1> QED
  BY <1>1, ClockInvariance, PTL DEF Spec, NothingEarly, Waited
=============================================================================
