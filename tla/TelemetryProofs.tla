-------------------------- MODULE TelemetryProofs ---------------------------
(***************************************************************************)
(* What holds of the collection of spans for any processes with any clocks *)
(* of their own, any sizes of ring, store and answer, and any restarts.    *)
(***************************************************************************)
EXTENDS Telemetry, TLAPS, SequenceTheorems, FiniteSetTheorems

-----------------------------------------------------------------------------
(* Sorting, and what a sequence keeps of its end.                            *)

NoRepeats(s) == \A i, j \in DOMAIN s : s[i] = s[j] => i = j

\* How many elements of S come before n or are n.
Rank(S, R, n) == Cardinality({m \in S : <<m, n>> \in R})

\* In a total order the elements of a finite set have the ranks one to its size.
LEMMA Ranks ==
  ASSUME NEW S, IsFiniteSet(S), NEW R,
         \A a \in S : <<a, a>> \in R,
         \A a, b \in S : <<a, b>> \in R \/ <<b, a>> \in R,
         \A a, b \in S : <<a, b>> \in R /\ <<b, a>> \in R => a = b,
         \A a, b, c \in S : <<a, b>> \in R /\ <<b, c>> \in R => <<a, c>> \in R
  PROVE  /\ Cardinality(S) \in Nat
         /\ \A n \in S : Rank(S, R, n) \in 1..Cardinality(S)
         /\ \A a, b \in S : Rank(S, R, a) = Rank(S, R, b) => a = b
         /\ \A k \in 1..Cardinality(S) : \E n \in S : Rank(S, R, n) = k
<1> DEFINE c == Cardinality(S)
           Upto(n) == {m \in S : <<m, n>> \in R}
           f == [n \in S |-> Rank(S, R, n)]
<1>1. c \in Nat
  BY FS_CardinalityType
<1>2. \A n \in S : IsFiniteSet(Upto(n)) /\ Cardinality(Upto(n)) \in Nat /\ Cardinality(Upto(n)) <= c
  <2> TAKE n \in S
  <2>1. Upto(n) \in SUBSET S
    OBVIOUS
  <2> HIDE DEF Upto
  <2> QED
    BY <2>1, FS_Subset, FS_CardinalityType
<1>3. \A n \in S : Rank(S, R, n) \in 1..c
  <2> TAKE n \in S
  <2>1. Upto(n) # {}
    OBVIOUS
  <2> HIDE DEF Upto
  <2>2. Cardinality(Upto(n)) # 0
    BY <1>2, <2>1, FS_EmptySet
  <2>3. Cardinality(Upto(n)) \in 1..c
    BY <1>1, <1>2, <2>2
  <2> QED
    BY <2>3 DEF Rank, Upto
<1>4. ASSUME NEW a \in S, NEW b \in S, Rank(S, R, a) = Rank(S, R, b), <<a, b>> \in R PROVE a = b
  <2>1. Upto(a) \in SUBSET Upto(b)
    BY <1>4
  <2>2. Cardinality(Upto(a)) = Cardinality(Upto(b))
    BY <1>4 DEF Rank
  <2>3. Upto(a) = Upto(b)
    <3> HIDE DEF Upto
    <3> QED
      BY <1>2, <2>1, <2>2, FS_Subset
  <2>4. <<b, a>> \in R
    BY <2>3
  <2> QED
    BY <1>4, <2>4
<1>5. \A a, b \in S : Rank(S, R, a) = Rank(S, R, b) => a = b
  BY <1>4
<1>6. IsFiniteSet(1..c) /\ Cardinality(1..c) = c
  BY <1>1, FS_Interval
<1>7. f \in Injection(S, 1..c)
  BY <1>3, <1>5 DEF Injection, IsInjective
<1>8. f \in Surjection(S, 1..c)
  BY <1>1, <1>6, <1>7, FS_Injection
<1>9. \A k \in 1..c : \E n \in S : Rank(S, R, n) = k
  BY <1>8 DEF Surjection
<1> QED
  BY <1>1, <1>3, <1>5, <1>9

\* A finite set has a last element in a total order.
LEMMA HasLast ==
  ASSUME NEW S, IsFiniteSet(S), S # {}, NEW R,
         \A a \in S : <<a, a>> \in R,
         \A a, b \in S : <<a, b>> \in R \/ <<b, a>> \in R,
         \A a, b \in S : <<a, b>> \in R /\ <<b, a>> \in R => a = b,
         \A a, b, c \in S : <<a, b>> \in R /\ <<b, c>> \in R => <<a, c>> \in R
  PROVE  \E n \in S : \A m \in S : <<m, n>> \in R
<1> DEFINE c == Cardinality(S)
<1>1. c \in Nat /\ \A k \in 1..c : \E n \in S : Rank(S, R, n) = k
  BY Ranks
<1>2. c # 0
  BY FS_EmptySet
<1>3. PICK n \in S : Rank(S, R, n) = c
  <2> HIDE DEF c
  <2>1. c \in 1..c
    BY <1>1, <1>2
  <2> QED
    BY <1>1, <2>1
<1>4. {m \in S : <<m, n>> \in R} \in SUBSET S
  OBVIOUS
<1>5. {m \in S : <<m, n>> \in R} = S
  BY <1>3, <1>4, FS_Subset DEF Rank
<1> QED
  BY <1>5

\* The largest of a finite set of integers.
LEMMA Largest ==
  ASSUME NEW S, IsFiniteSet(S), S # {}, \A x \in S : x \in Int
  PROVE  Max(S) \in S /\ \A x \in S : x <= Max(S)
<1> DEFINE R == {r \in S \X S : r[1] <= r[2]}
<1>1. \A a, b \in S : <<a, b>> \in R <=> a <= b
  OBVIOUS
<1> HIDE DEF R
<1>2. /\ \A a \in S : <<a, a>> \in R
      /\ \A a, b \in S : <<a, b>> \in R \/ <<b, a>> \in R
      /\ \A a, b \in S : <<a, b>> \in R /\ <<b, a>> \in R => a = b
      /\ \A a, b, d \in S : <<a, b>> \in R /\ <<b, d>> \in R => <<a, d>> \in R
  BY <1>1
<1>3. \E n \in S : \A m \in S : <<m, n>> \in R
  BY <1>2, HasLast
<1>4. \E n \in S : \A m \in S : n >= m
  BY <1>1, <1>3
<1>5. Max(S) \in S /\ \A y \in S : Max(S) >= y
  BY <1>4 DEF Max
<1> QED
  BY <1>5

\* Spans are told apart by their ids.
Distinct(S) == \A a, b \in S : a.id = b.id => a = b

LEMMA SortedByStart ==
  ASSUME NEW S \in SUBSET Spans, IsFiniteSet(S), Distinct(S)
  PROVE  /\ ByStart(S) \in Seq(Spans) /\ Len(ByStart(S)) = Cardinality(S)
         /\ ToSet(ByStart(S)) = S
         /\ NoRepeats(ByStart(S))
<1> DEFINE R == {r \in S \X S : NotAfter(r[1], r[2])}
           c == Cardinality(S)
           q == ByStart(S)
<1>1. \A a, b \in S : <<a, b>> \in R <=> NotAfter(a, b)
  OBVIOUS
<1>2. \A a \in S : a.start \in Int /\ a.id \in Int
  BY DEF Spans, Ids
<1>3. /\ \A a \in S : NotAfter(a, a)
      /\ \A a, b \in S : NotAfter(a, b) \/ NotAfter(b, a)
      /\ \A a, b, d \in S : NotAfter(a, b) /\ NotAfter(b, d) => NotAfter(a, d)
  BY <1>2 DEF NotAfter
<1>4. \A a, b \in S : NotAfter(a, b) /\ NotAfter(b, a) => a.id = b.id
  BY <1>2 DEF NotAfter
<1>5. \A a, b \in S : NotAfter(a, b) /\ NotAfter(b, a) => a = b
  BY <1>4 DEF Distinct
<1>6. /\ c \in Nat
      /\ \A n \in S : Rank(S, R, n) \in 1..c
      /\ \A a, b \in S : Rank(S, R, a) = Rank(S, R, b) => a = b
      /\ \A k \in 1..c : \E n \in S : Rank(S, R, n) = k
  <2> HIDE DEF R
  <2> QED
    BY <1>1, <1>3, <1>5, Ranks
<1>7. \A s \in S : Rank(S, R, s) = Cardinality({r \in S : NotAfter(r, s)})
  <2> TAKE s \in S
  <2>1. {r \in S : <<r, s>> \in R} = {r \in S : NotAfter(r, s)}
    BY <1>1
  <2> QED
    BY <2>1 DEF Rank
<1> HIDE DEF R
<1>8. q = [k \in 1..c |-> CHOOSE s \in S : Cardinality({r \in S : NotAfter(r, s)}) = k]
  BY DEF ByStart
<1> HIDE DEF c, q
<1>9. \A k \in 1..c : q[k] \in S /\ Rank(S, R, q[k]) = k
  BY <1>6, <1>7, <1>8
<1>10. q \in [1..c -> S] /\ DOMAIN q = 1..c
  BY <1>8, <1>9
<1>11. q \in Seq(Spans) /\ Len(q) = c
  BY <1>6, <1>10
<1>12. \A n \in S : q[Rank(S, R, n)] = n
  BY <1>6, <1>9
<1>13. ToSet(q) = S
  BY <1>6, <1>10, <1>12 DEF ToSet
<1>14. NoRepeats(q)
  BY <1>9, <1>10 DEF NoRepeats
<1> QED
  BY <1>11, <1>13, <1>14 DEF q, c

\* What is kept of s is its end: as long as there is room, all of it.
LEMMA Kept ==
  ASSUME NEW s \in Seq(Spans), NEW n \in Nat
  PROVE  \E t \in Seq(Spans), d \in Nat :
           /\ Latest(s, n) = t
           /\ Len(t) + d = Len(s) /\ Len(t) <= n /\ (Len(s) <= n => d = 0)
           /\ \A i \in 1..Len(t) : i + d \in 1..Len(s) /\ t[i] = s[i + d]
<1>1. CASE Len(s) <= n
  <2>1. Latest(s, n) = s
    BY <1>1 DEF Latest
  <2>2. Len(s) + 0 = Len(s) /\ \A i \in 1..Len(s) : i + 0 \in 1..Len(s) /\ s[i] = s[i + 0]
    OBVIOUS
  <2> QED
    BY <1>1, <2>1, <2>2
<1>2. CASE ~(Len(s) <= n)
  <2> DEFINE m == Len(s) - n + 1
             t == SubSeq(s, m, Len(s))
             d == Len(s) - n
  <2>1. Latest(s, n) = t
    BY <1>2 DEF Latest
  <2>2. m \in Int /\ Len(s) \in Nat /\ m >= 1 /\ d \in Nat
    BY <1>2
  <2>3. \A i \in m..Len(s) : s[i] \in Spans
    BY <2>2
  <2>4. /\ t \in Seq(Spans)
        /\ Len(t) = IF m <= Len(s) THEN Len(s) - m + 1 ELSE 0
        /\ \A i \in 1..(Len(s) - m + 1) : t[i] = s[m + i - 1]
    <3> HIDE DEF m
    <3> QED
      BY <2>2, <2>3, SubSeqProperties
  <2> HIDE DEF t
  <2>5. Len(t) = n
    BY <2>2, <2>4
  <2>6. \A i \in 1..Len(t) : i + d \in 1..Len(s) /\ t[i] = s[i + d]
    BY <2>2, <2>4, <2>5
  <2>7. Len(t) + d = Len(s) /\ Len(t) <= n
    BY <2>2, <2>5
  <2> QED
    BY <1>2, <2>1, <2>2, <2>4, <2>6, <2>7
<1> QED
  BY <1>1, <1>2
-----------------------------------------------------------------------------
(* What holds of the spans b that began, those under way r, how often each   *)
(* was collected k, and of a process p: its ring g, its cursor c and its     *)
(* poll o.                                                                   *)

PollState == [at : Polls, since : Int, spans : Seq(Spans)]

\* When s began, by no clock of a process.
TrueStart(s) == s.start - Offset[s.process]

Began(b, s) == s.id \in DOMAIN b /\ b[s.id] = s

\* A span's id is its place, and it did not begin before its cause.
Causal(b, t) ==
  \A i \in DOMAIN b :
    /\ b[i].id = i
    /\ TrueStart(b[i]) \in 0..t
    /\ b[i].parent # NoSpan =>
         b[i].parent \in 1..(i - 1) /\ TrueStart(b[b[i].parent]) <= TrueStart(b[i])

\* A sequence of spans of p that are over.
EndedAt(p, b, r, q) == \A i \in DOMAIN q : Began(b, q[i]) /\ q[i].process = p /\ q[i] \notin r

\* What is collected is over, was collected once, and the cursor has passed it.
CollectedOnce(b, r, k, c) ==
  \A n \in Ids : k[n] > 0 =>
    k[n] = 1 /\ n \in DOMAIN b /\ b[n] \notin r /\ b[n].start <= c[b[n].process]

\* The cursor is where a collected span started.
CursorSeen(p, b, k, c) ==
  c # Never => \E n \in DOMAIN b : k[n] > 0 /\ b[n].process = p /\ b[n].start = c

\* A poll asks for what is after the cursor, and answers with nothing else and
\* nothing twice.
PollFits(p, b, r, c, o) ==
  /\ o.at = "asked" => o.since = c
  /\ EndedAt(p, b, r, o.spans) /\ NoRepeats(o.spans)
  /\ \A i \in DOMAIN o.spans : o.spans[i].start > c

\* What an answer leaves out of the ring is recorded after all that is in it.
LeavesLater(g, c, o) ==
  o.at = "answered" =>
    \A i \in DOMAIN g : g[i].start > c /\ g[i] \notin ToSet(o.spans) =>
      \A j \in i..Len(g) : g[j] \notin ToSet(o.spans)

\* What the cursor has passed uncollected is recorded after something that was
\* collected and started no earlier.
PassedLate(p, b, k, g, c) ==
  \A i \in DOMAIN g : k[g[i].id] = 0 /\ g[i].start <= c =>
    \E n \in DOMAIN b : /\ k[n] > 0 /\ b[n].process = p /\ b[n].start >= g[i].start
                        /\ \A j \in i..Len(g) : g[j] # b[n]

ProcessFits(p, b, r, k, g, c, o) ==
  /\ EndedAt(p, b, r, g) /\ Len(g) <= RingSize
  /\ c >= Never /\ CursorSeen(p, b, k, c)
  /\ PollFits(p, b, r, c, o)
  /\ Limit >= RingSize => LeavesLater(g, c, o) /\ PassedLate(p, b, k, g, c)

TelemetryTyped ==
  /\ time \in 0..Horizon
  /\ begun \in Seq(Spans) /\ Len(begun) <= MaxSpans
  /\ running \in SUBSET Spans /\ \A s \in running : Began(begun, s)
  /\ ring \in [Processes -> Seq(Spans)]
  /\ store \in Seq(Spans) /\ \A i \in DOMAIN store : Began(begun, store[i])
  /\ cursor \in [Processes -> Int]
  /\ poll \in [Processes -> PollState]
  /\ collected \in [Ids -> Nat]

TelemetryInv ==
  /\ TelemetryTyped
  /\ Causal(begun, time)
  /\ CollectedOnce(begun, running, collected, cursor)
  /\ \A p \in Processes : ProcessFits(p, begun, running, collected, ring[p], cursor[p], poll[p])

-----------------------------------------------------------------------------
(* What a process's part depends on.                                         *)

LEMMA PollForms ==
  /\ \A c \in Int : /\ Asked(c) \in PollState /\ Asked(c).at = "asked" /\ Asked(c).since = c
                    /\ Asked(c).spans = <<>>
  /\ \A q \in Seq(Spans) : /\ Answered(q) \in PollState /\ Answered(q).at = "answered"
                           /\ Answered(q).spans = q
  /\ Over \in PollState /\ Over.at = "over" /\ Over.spans = <<>>
BY DEF Asked, Answered, Over, PollState, Polls, Never

LEMMA SpanFields ==
  /\ \A s \in Spans : /\ s.id \in Ids /\ s.trace \in Ids /\ s.parent \in Ids \cup {NoSpan}
                      /\ s.process \in Processes /\ s.start \in Int
  /\ \A q \in Seq(Spans) : \A i \in DOMAIN q : q[i] \in Spans
<1>1. \A s \in Spans : /\ s.id \in Ids /\ s.trace \in Ids /\ s.parent \in Ids \cup {NoSpan}
                       /\ s.process \in Processes /\ s.start \in Int
  BY DEF Spans
<1>2. \A q \in Seq(Spans) : \A i \in DOMAIN q : q[i] \in Spans
  OBVIOUS
<1> QED
  BY <1>1, <1>2

\* When a span ends or is lost nothing changes of those that are over.
LEMMA FewerRunning ==
  ASSUME NEW p, NEW b, NEW k, NEW g, NEW c, NEW o, NEW r, NEW u \in SUBSET r,
         ProcessFits(p, b, r, k, g, c, o)
  PROVE  ProcessFits(p, b, u, k, g, c, o)
BY DEF ProcessFits, PollFits, EndedAt

\* What was collected stays collected.
LEMMA MoreCollected ==
  ASSUME NEW p, NEW b \in Seq(Spans), Len(b) <= MaxSpans, NEW g \in Seq(Spans), NEW c, NEW o, NEW r,
         NEW k \in [Ids -> Nat], NEW m \in [Ids -> Nat], \A n \in Ids : m[n] >= k[n],
         ProcessFits(p, b, r, k, g, c, o)
  PROVE  ProcessFits(p, b, r, m, g, c, o)
<1>1. \A n \in DOMAIN b : n \in Ids
  BY TelemetryAssumption DEF Ids
<1>2. \A i \in DOMAIN g : g[i].id \in Ids
  BY SpanFields
<1>3. \A n \in DOMAIN b : k[n] > 0 => m[n] > 0
  BY <1>1
<1>4. \A i \in DOMAIN g : m[g[i].id] = 0 => k[g[i].id] = 0
  BY <1>2
<1>5. CursorSeen(p, b, k, c) => CursorSeen(p, b, m, c)
  BY <1>3 DEF CursorSeen
<1>6. PassedLate(p, b, k, g, c) => PassedLate(p, b, m, g, c)
  BY <1>3, <1>4 DEF PassedLate
<1> QED
  BY <1>5, <1>6 DEF ProcessFits

\* A span that begins is not one of those that are over.
LEMMA Grows ==
  ASSUME NEW b \in Seq(Spans), NEW s \in Spans, s.id = Len(b) + 1
  PROVE  /\ Append(b, s) \in Seq(Spans) /\ DOMAIN Append(b, s) = 1..(Len(b) + 1)
         /\ DOMAIN b = 1..Len(b) /\ Len(b) \in Nat
         /\ Append(b, s)[Len(b) + 1] = s /\ Began(Append(b, s), s)
         /\ \A i \in DOMAIN b : i \in DOMAIN Append(b, s) /\ Append(b, s)[i] = b[i]
         /\ \A x : Began(b, x) => Began(Append(b, s), x) /\ x # s
<1>1. Append(b, s) \in Seq(Spans) /\ DOMAIN Append(b, s) = 1..(Len(b) + 1) /\ Len(b) \in Nat
  OBVIOUS
<1>2. Append(b, s)[Len(b) + 1] = s /\ DOMAIN b = 1..Len(b)
  OBVIOUS
<1>3. \A i \in DOMAIN b : i \in DOMAIN Append(b, s) /\ Append(b, s)[i] = b[i]
  OBVIOUS
<1>4. Len(b) + 1 \in DOMAIN Append(b, s) /\ Len(b) + 1 \notin DOMAIN b
  BY <1>1, <1>2
<1>5. Began(Append(b, s), s)
  BY <1>1, <1>2, <1>4 DEF Began
<1>6. ASSUME NEW x, Began(b, x) PROVE Began(Append(b, s), x) /\ x # s
  BY <1>3, <1>4, <1>6 DEF Began
<1> QED
  BY <1>1, <1>2, <1>3, <1>5, <1>6

LEMMA MoreBegun ==
  ASSUME NEW p, NEW b \in Seq(Spans), NEW r, NEW k, NEW g, NEW c, NEW o,
         NEW s \in Spans, s.id = Len(b) + 1, ProcessFits(p, b, r, k, g, c, o)
  PROVE  ProcessFits(p, Append(b, s), r \cup {s}, k, g, c, o)
<1>1. PICK d : d = Append(b, s)
  OBVIOUS
<1>2. /\ \A i \in DOMAIN b : i \in DOMAIN d /\ d[i] = b[i]
      /\ \A x : Began(b, x) => Began(d, x) /\ x # s
  BY <1>1, Grows
<1>3. ASSUME NEW q, EndedAt(p, b, r, q) PROVE EndedAt(p, d, r \cup {s}, q)
  BY <1>2, <1>3 DEF EndedAt
<1>4. CursorSeen(p, b, k, c) => CursorSeen(p, d, k, c)
  BY <1>2 DEF CursorSeen
<1>5. PassedLate(p, b, k, g, c) => PassedLate(p, d, k, g, c)
  BY <1>2 DEF PassedLate
<1>6. ProcessFits(p, d, r \cup {s}, k, g, c, o)
  BY <1>3, <1>4, <1>5 DEF ProcessFits, PollFits
<1> QED
  BY <1>1, <1>6
-----------------------------------------------------------------------------
(* A span ends.                                                              *)

\* No clock reads the zero time.
LEMMA AfterNever ==
  ASSUME NEW b \in Seq(Spans), NEW t \in Int, Causal(b, t)
  PROVE  \A s : Began(b, s) => s \in Spans /\ s.start > Never
<1> SUFFICES ASSUME NEW s, Began(b, s) PROVE s \in Spans /\ s.start > Never
  OBVIOUS
<1>1. s \in Spans
  BY SpanFields DEF Began
<1>2. s.start \in Int /\ Offset[s.process] \in Nat
  BY <1>1, SpanFields, TelemetryAssumption
<1>3. TrueStart(s) >= 0
  BY DEF Causal, Began
<1> QED
  BY <1>1, <1>2, <1>3 DEF TrueStart, Never

\* What the ring keeps of what it was says no more than all of it did.
LEMMA RingForgets ==
  ASSUME NEW p, NEW b, NEW r, NEW k, NEW a \in Seq(Spans), NEW c, NEW o, NEW n \in Nat,
         EndedAt(p, b, r, a), LeavesLater(a, c, o), PassedLate(p, b, k, a, c)
  PROVE  /\ LeavesLater(Latest(a, n), c, o)
         /\ PassedLate(p, b, k, Latest(a, n), c)
<1>1. PICK t \in Seq(Spans), d \in Nat :
        /\ Latest(a, n) = t /\ Len(t) + d = Len(a)
        /\ \A i \in 1..Len(t) : i + d \in 1..Len(a) /\ t[i] = a[i + d]
  BY Kept
<1>2. DOMAIN t = 1..Len(t) /\ DOMAIN a = 1..Len(a) /\ Len(t) \in Nat /\ Len(a) \in Nat
  OBVIOUS
<1>3. \A i \in DOMAIN t : i + d \in DOMAIN a /\ t[i] = a[i + d]
  BY <1>1, <1>2
<1>4. \A i \in DOMAIN t : \A j \in i..Len(t) : j \in DOMAIN t /\ j + d \in (i + d)..Len(a)
  BY <1>1, <1>2
<1>5. LeavesLater(t, c, o)
  BY <1>3, <1>4 DEF LeavesLater
<1>6. PassedLate(p, b, k, t, c)
  <2> SUFFICES ASSUME NEW i \in DOMAIN t, k[t[i].id] = 0, t[i].start <= c
               PROVE  \E m \in DOMAIN b : /\ k[m] > 0 /\ b[m].process = p /\ b[m].start >= t[i].start
                                          /\ \A j \in i..Len(t) : t[j] # b[m]
    BY DEF PassedLate
  <2>1. i + d \in DOMAIN a /\ t[i] = a[i + d]
    BY <1>3
  <2>2. PICK m \in DOMAIN b : /\ k[m] > 0 /\ b[m].process = p /\ b[m].start >= a[i + d].start
                              /\ \A j \in (i + d)..Len(a) : a[j] # b[m]
    BY <2>1 DEF PassedLate
  <2>3. \A j \in i..Len(t) : t[j] # b[m]
    BY <1>3, <1>4, <2>2
  <2> QED
    BY <2>1, <2>2, <2>3
<1> QED
  BY <1>1, <1>5, <1>6

LEMMA Recorded ==
  ASSUME NEW p, NEW b \in Seq(Spans), NEW t \in Int, Causal(b, t), NEW r \in SUBSET Spans,
         NEW k, NEW g \in Seq(Spans), NEW c \in Int, NEW o \in PollState,
         Len(b) <= MaxSpans, \A n \in DOMAIN b : k[n] > 0 => b[n] \notin r,
         NEW s \in r, Began(b, s), s.process = p, ProcessFits(p, b, r, k, g, c, o)
  PROVE  ProcessFits(p, b, r \ {s}, k, Latest(Append(g, s), RingSize), c, o)
<1> DEFINE a == Append(g, s)
           u == r \ {s}
           h == Latest(a, RingSize)
<1>1. ProcessFits(p, b, u, k, g, c, o)
  BY FewerRunning
<1>2. a \in Seq(Spans) /\ Len(a) = Len(g) + 1 /\ Len(g) \in Nat
  OBVIOUS
<1>3. \A i \in DOMAIN a : (i \in DOMAIN g /\ a[i] = g[i]) \/ (i = Len(a) /\ a[i] = s)
  <2> SUFFICES ASSUME NEW i \in 1..(Len(g) + 1), ~(i \in 1..Len(g)) PROVE i = Len(g) + 1
    BY <1>2
  <2> QED
    BY <1>2
<1>4. \A i \in DOMAIN g : i \in DOMAIN a /\ a[i] = g[i]
  OBVIOUS
<1>5. \A i \in DOMAIN g : DOMAIN g = 1..Len(g) /\ \A j \in i..Len(a) : j \in i..Len(g) \/ j = Len(a)
  BY <1>2
<1> HIDE DEF a
<1>6. EndedAt(p, b, u, a)
  BY <1>1, <1>3 DEF ProcessFits, EndedAt
<1>7. a[Len(a)] = s /\ Len(a) \in DOMAIN a /\ \A j \in Len(a)..Len(a) : j = Len(a)
  BY <1>2 DEF a
<1>8. s \notin ToSet(o.spans)
  BY DEF ProcessFits, PollFits, EndedAt, ToSet
<1>9. LeavesLater(g, c, o) => LeavesLater(a, c, o)
  <2> SUFFICES ASSUME LeavesLater(g, c, o), o.at = "answered",
                      NEW i \in DOMAIN a, a[i].start > c, a[i] \notin ToSet(o.spans),
                      NEW j \in i..Len(a)
               PROVE  a[j] \notin ToSet(o.spans)
    BY DEF LeavesLater
  <2>1. CASE i \in DOMAIN g /\ a[i] = g[i]
    <3>1. \A m \in i..Len(g) : g[m] \notin ToSet(o.spans)
      BY <2>1 DEF LeavesLater
    <3>2. j \in i..Len(g) \/ j = Len(a)
      BY <1>5, <2>1
    <3>3. j \in i..Len(g) => j \in DOMAIN g
      BY <1>2, <1>5, <2>1
    <3> QED
      BY <1>4, <1>7, <1>8, <3>1, <3>2, <3>3
  <2>2. CASE i = Len(a)
    BY <1>7, <1>8, <2>2
  <2> QED
    BY <1>3, <2>1, <2>2
<1>10. PassedLate(p, b, k, g, c) => PassedLate(p, b, k, a, c)
  <2> SUFFICES ASSUME PassedLate(p, b, k, g, c), NEW i \in DOMAIN a, k[a[i].id] = 0, a[i].start <= c
               PROVE  \E n \in DOMAIN b : /\ k[n] > 0 /\ b[n].process = p /\ b[n].start >= a[i].start
                                          /\ \A j \in i..Len(a) : a[j] # b[n]
    BY DEF PassedLate
  <2>1. CASE i \in DOMAIN g /\ a[i] = g[i]
    <3>1. PICK n \in DOMAIN b : /\ k[n] > 0 /\ b[n].process = p /\ b[n].start >= g[i].start
                                /\ \A j \in i..Len(g) : g[j] # b[n]
      BY <2>1 DEF PassedLate
    <3>2. b[n] # s
      BY <3>1
    <3>3. \A j \in i..Len(g) : j \in DOMAIN g
      BY <1>2, <1>5, <2>1
    <3>4. \A j \in i..Len(a) : a[j] # b[n]
      BY <1>4, <1>5, <1>7, <2>1, <3>1, <3>2, <3>3
    <3> QED
      BY <2>1, <3>1, <3>4
  <2>2. CASE i = Len(a)
    <3>1. s.start > Never /\ s.start \in Int /\ s.start <= c
      BY <1>7, <2>2, AfterNever, SpanFields
    <3>2. c # Never
      BY <3>1 DEF Never
    <3>3. PICK n \in DOMAIN b : k[n] > 0 /\ b[n].process = p /\ b[n].start = c
      BY <3>2 DEF ProcessFits, CursorSeen
    <3>4. b[n] # s
      BY <3>3
    <3> QED
      BY <1>7, <2>2, <3>1, <3>3, <3>4
  <2> QED
    BY <1>3, <2>1, <2>2
<1>11. PICK q \in Seq(Spans), d \in Nat :
         /\ Latest(a, RingSize) = q
         /\ Len(q) + d = Len(a) /\ Len(q) <= RingSize /\ (Len(a) <= RingSize => d = 0)
         /\ \A i \in 1..Len(q) : i + d \in 1..Len(a) /\ q[i] = a[i + d]
  <2>1. RingSize \in Nat
    BY TelemetryAssumption
  <2> QED
    BY <1>2, <2>1, Kept
<1>12. EndedAt(p, b, u, q)
  <2>1. \A i \in DOMAIN q : i + d \in DOMAIN a /\ q[i] = a[i + d]
    <3>1. DOMAIN q = 1..Len(q) /\ DOMAIN a = 1..Len(a)
      BY <1>2
    <3> QED
      BY <1>11, <3>1
  <2> QED
    BY <1>6, <2>1 DEF EndedAt
<1>13. Limit >= RingSize => LeavesLater(h, c, o) /\ PassedLate(p, b, k, h, c)
  BY <1>1, <1>2, <1>6, <1>9, <1>10, RingForgets, TelemetryAssumption DEF ProcessFits
<1>14. h = q /\ Len(h) <= RingSize
  BY <1>11
<1> HIDE DEF h
<1>15. ProcessFits(p, b, u, k, h, c, o)
  BY <1>1, <1>12, <1>13, <1>14 DEF ProcessFits
<1> QED
  BY <1>15 DEF h, a

-----------------------------------------------------------------------------
(* A process answers.                                                        *)

LEMMA FewElements ==
  ASSUME NEW g \in Seq(Spans)
  PROVE  IsFiniteSet(ToSet(g)) /\ Cardinality(ToSet(g)) <= Len(g)
<1>1. IsFiniteSet(1..Len(g)) /\ Cardinality(1..Len(g)) = Len(g)
  <2>1. Len(g) \in Nat
    OBVIOUS
  <2> QED
    BY <2>1, FS_Interval
<1>2. g \in Surjection(1..Len(g), ToSet(g))
  BY DEF Surjection, ToSet
<1> QED
  BY <1>1, <1>2, FS_Surjection

LEMMA Answers ==
  ASSUME NEW p, NEW b \in Seq(Spans), NEW t \in Int, Causal(b, t), NEW r,
         NEW k, NEW g \in Seq(Spans), NEW c \in Int, NEW o \in PollState,
         ProcessFits(p, b, r, k, g, c, o), o.at = "asked",
         NEW S, S = {s \in ToSet(g) : o.since = Never \/ s.start > o.since}
  PROVE  /\ Latest(ByStart(S), Limit) \in Seq(Spans)
         /\ ProcessFits(p, b, r, k, g, c, Answered(Latest(ByStart(S), Limit)))
<1>1. \A s \in ToSet(g) : Began(b, s) /\ s.process = p /\ s \notin r /\ s \in Spans /\ s.start > Never
  BY AfterNever DEF ProcessFits, EndedAt, ToSet
<1>2. o.since = c
  BY DEF ProcessFits, PollFits
<1>3. S \in SUBSET Spans /\ Distinct(S) /\ S \in SUBSET ToSet(g)
  BY <1>1 DEF Distinct, Began
<1>4. \A s \in S : s.start > c
  BY <1>1, <1>2
<1>5. \A s \in ToSet(g) : s.start > c => s \in S
  BY <1>2
<1>6. /\ IsFiniteSet(S) /\ Cardinality(S) \in Nat /\ Cardinality(S) <= Len(g)
  <2>1. IsFiniteSet(ToSet(g)) /\ Cardinality(ToSet(g)) <= Len(g) /\ Cardinality(ToSet(g)) \in Nat
    BY FewElements, FS_CardinalityType
  <2>2. IsFiniteSet(S) /\ Cardinality(S) <= Cardinality(ToSet(g)) /\ Cardinality(S) \in Nat
    BY <1>3, <2>1, FS_Subset, FS_CardinalityType
  <2> QED
    BY <2>1, <2>2
<1>7. PICK q \in Seq(Spans) : q = ByStart(S) /\ Len(q) = Cardinality(S) /\ ToSet(q) = S /\ NoRepeats(q)
  BY <1>3, <1>6, SortedByStart
<1>8. PICK h \in Seq(Spans), d \in Nat :
        /\ Latest(q, Limit) = h
        /\ Len(h) + d = Len(q) /\ (Len(q) <= Limit => d = 0)
        /\ \A i \in 1..Len(h) : i + d \in 1..Len(q) /\ h[i] = q[i + d]
  <2>1. Limit \in Nat
    BY TelemetryAssumption
  <2> QED
    BY <2>1, Kept
<1>9. /\ DOMAIN h = 1..Len(h) /\ DOMAIN q = 1..Len(q)
      /\ \A i \in DOMAIN h : i + d \in DOMAIN q /\ h[i] = q[i + d]
  BY <1>8
<1>10. \A i \in DOMAIN h : h[i] \in S
  BY <1>7, <1>9 DEF ToSet
<1>11. NoRepeats(h)
  <2> SUFFICES ASSUME NEW i \in DOMAIN h, NEW j \in DOMAIN h, h[i] = h[j] PROVE i = j
    BY DEF NoRepeats
  <2>1. i \in Int /\ j \in Int
    BY <1>9
  <2>2. i + d \in DOMAIN q /\ j + d \in DOMAIN q /\ q[i + d] = q[j + d]
    BY <1>9
  <2>3. i + d = j + d
    BY <1>7, <2>2 DEF NoRepeats
  <2> QED
    BY <2>1, <2>3
<1>12. PICK u : u = Answered(h)
  OBVIOUS
<1>13. u.at = "answered" /\ u.spans = h
  BY <1>12, PollForms
<1>14. PollFits(p, b, r, c, u)
  BY <1>1, <1>3, <1>4, <1>10, <1>11, <1>13 DEF PollFits, EndedAt
<1>15. Limit >= RingSize => LeavesLater(g, c, u)
  <2> SUFFICES ASSUME Limit >= RingSize PROVE LeavesLater(g, c, u)
    OBVIOUS
  <2>1. Len(g) <= RingSize /\ Len(g) \in Nat
    BY DEF ProcessFits
  <2>2. Len(q) <= Limit
    BY <1>6, <1>7, <2>1, TelemetryAssumption
  <2>3. d = 0 /\ Len(h) = Len(q)
    BY <1>8, <2>2
  <2>4. \A i \in DOMAIN q : i \in DOMAIN h /\ h[i] = q[i]
    BY <1>8, <1>9, <2>3
  <2>5. S \subseteq ToSet(h)
    BY <1>7, <2>4 DEF ToSet
  <2>6. \A i \in DOMAIN g : g[i].start > c => g[i] \in ToSet(h)
    BY <1>5, <2>5 DEF ToSet
  <2> QED
    BY <1>13, <2>6 DEF LeavesLater
<1>16. ProcessFits(p, b, r, k, g, c, u)
  BY <1>14, <1>15 DEF ProcessFits
<1> QED
  BY <1>7, <1>8, <1>12, <1>16
-----------------------------------------------------------------------------
(* What a process answered is collected.                                     *)

\* The cursor moves to the latest start of the answer, or stays.
LEMMA CursorMoves ==
  ASSUME NEW q \in Seq(Spans), NEW c \in Int
  PROVE  LET d == Max(Starts(q) \cup {c}) IN
         /\ d \in Int /\ d >= c /\ \A i \in DOMAIN q : q[i].start <= d
         /\ d = c \/ \E i \in DOMAIN q : q[i].start = d
<1> DEFINE S == Starts(q)
           f == [i \in 1..Len(q) |-> q[i].start]
<1>1. IsFiniteSet(1..Len(q)) /\ DOMAIN q = 1..Len(q)
  <2>1. Len(q) \in Nat /\ DOMAIN q = 1..Len(q)
    OBVIOUS
  <2> QED
    BY <2>1, FS_Interval
<1>2. \A x \in S : x \in Int
  BY SpanFields DEF Starts
<1>3. IsFiniteSet(S)
  <2>1. f \in Surjection(1..Len(q), S)
    BY <1>1 DEF Surjection, Starts
  <2> QED
    BY <1>1, <2>1, FS_Surjection
<1>4. PICK T : T = S \cup {c}
  OBVIOUS
<1>5. IsFiniteSet(T) /\ T # {} /\ \A x \in T : x \in Int
  BY <1>2, <1>3, <1>4, FS_AddElement
<1>6. Max(T) \in T /\ \A x \in T : x <= Max(T)
  BY <1>5, Largest
<1>7. PICK d : d = Max(T)
  OBVIOUS
<1>8. d \in Int /\ d >= c
  BY <1>4, <1>5, <1>6, <1>7
<1>9. \A i \in DOMAIN q : q[i].start <= d
  BY <1>4, <1>6, <1>7 DEF Starts
<1>10. d = c \/ \E i \in DOMAIN q : q[i].start = d
  BY <1>4, <1>6, <1>7 DEF Starts
<1> QED
  BY <1>4, <1>7, <1>8, <1>9, <1>10

\* No id twice.
OneEach(q) == \A i, j \in DOMAIN q : q[i].id = q[j].id => i = j

LEMMA AnsweredOnce ==
  ASSUME NEW p, NEW b, NEW r, NEW q, EndedAt(p, b, r, q), NoRepeats(q)
  PROVE  OneEach(q)
<1>1. \A i, j \in DOMAIN q : q[i].id = q[j].id => q[i] = q[j]
  BY DEF EndedAt, Began
<1> QED
  BY <1>1 DEF OneEach, NoRepeats

Occurrences(q, n) == {i \in DOMAIN q : q[i].id = n}

\* How often the spans of an answer are counted.
LEMMA Counts ==
  ASSUME NEW q, OneEach(q), NEW n
  PROVE  /\ (\E i \in DOMAIN q : q[i].id = n) => Cardinality(Occurrences(q, n)) = 1
         /\ (~\E i \in DOMAIN q : q[i].id = n) => Cardinality(Occurrences(q, n)) = 0
<1>1. ASSUME NEW i \in DOMAIN q, q[i].id = n PROVE Cardinality(Occurrences(q, n)) = 1
  <2>1. Occurrences(q, n) = {i}
    BY <1>1 DEF OneEach, Occurrences
  <2> QED
    BY <2>1, FS_Singleton
<1>2. ASSUME ~\E i \in DOMAIN q : q[i].id = n PROVE Cardinality(Occurrences(q, n)) = 0
  <2>1. Occurrences(q, n) = {}
    BY <1>2 DEF Occurrences
  <2> QED
    BY <2>1, FS_EmptySet
<1> QED
  BY <1>1, <1>2

\* m counts the spans of q on top of k.
Counted(q, k, m) ==
  \A n \in Ids : /\ (\E i \in DOMAIN q : q[i].id = n) => m[n] = k[n] + 1
                 /\ (~\E i \in DOMAIN q : q[i].id = n) => m[n] = k[n]

\* d is c or, if that is later, the latest start in q.
Reached(q, c, d) ==
  /\ d >= c /\ \A i \in DOMAIN q : q[i].start <= d
  /\ d = c \/ \E i \in DOMAIN q : q[i].start = d

\* Of all cursors only that of p moves, to d.
Moved(cur, e, p, d) == e[p] = d /\ \A x \in Processes \ {p} : e[x] = cur[x]

LEMMA Collects ==
  ASSUME NEW p \in Processes, NEW b \in Seq(Spans), Len(b) <= MaxSpans, NEW r,
         NEW k \in [Ids -> Nat], NEW g \in Seq(Spans), NEW cur \in [Processes -> Int],
         NEW o \in PollState, o.at = "answered", NEW q \in Seq(Spans), q = o.spans,
         CollectedOnce(b, r, k, cur), ProcessFits(p, b, r, k, g, cur[p], o),
         NEW m \in [Ids -> Nat], Counted(q, k, m),
         NEW d \in Int, Reached(q, cur[p], d),
         NEW e \in [Processes -> Int], Moved(cur, e, p, d)
  PROVE  /\ \A n \in Ids : m[n] >= k[n]
         /\ CollectedOnce(b, r, m, e)
         /\ ProcessFits(p, b, r, m, g, d, Over)
<1>1. q = o.spans
  OBVIOUS
<1>2. PICK c \in Int : c = cur[p]
  OBVIOUS
<1>3. /\ d >= c /\ \A i \in DOMAIN q : q[i].start <= d
      /\ d = c \/ \E i \in DOMAIN q : q[i].start = d
  BY <1>2 DEF Reached
<1>4. /\ EndedAt(p, b, r, q) /\ NoRepeats(q) /\ \A i \in DOMAIN q : q[i].start > c
      /\ EndedAt(p, b, r, g) /\ Len(g) <= RingSize /\ c >= Never /\ CursorSeen(p, b, k, c)
      /\ Limit >= RingSize => LeavesLater(g, c, o) /\ PassedLate(p, b, k, g, c)
  BY <1>2 DEF ProcessFits, PollFits
<1>5. \A n \in Ids : /\ (\E i \in DOMAIN q : q[i].id = n) => m[n] = k[n] + 1
                     /\ (~\E i \in DOMAIN q : q[i].id = n) => m[n] = k[n]
  BY DEF Counted
<1>6. \A n \in Ids : m[n] >= k[n]
  <2> TAKE n \in Ids
  <2>1. m[n] = k[n] + 1 \/ m[n] = k[n]
    BY <1>5
  <2>2. k[n] \in Nat
    OBVIOUS
  <2> QED
    BY <2>1, <2>2
<1>7. \A i \in DOMAIN q : /\ q[i] \in Spans /\ q[i].id \in Ids /\ q[i].id \in DOMAIN b
                          /\ b[q[i].id] = q[i] /\ q[i].process = p /\ q[i] \notin r
                          /\ q[i].start \in Int
  BY <1>4, SpanFields DEF EndedAt, Began
<1>8. \A i \in DOMAIN q : k[q[i].id] = 0
  <2> SUFFICES ASSUME NEW i \in DOMAIN q, k[q[i].id] # 0 PROVE FALSE
    OBVIOUS
  <2>1. q[i].id \in Ids /\ k[q[i].id] \in Nat
    BY <1>7
  <2>2. q[i].start <= c
    <3>1. b[q[i].id].start <= cur[b[q[i].id].process]
      <4>1. PICK n \in Ids : n = q[i].id
        BY <2>1
      <4>2. k[n] > 0
        BY <2>1, <4>1
      <4>3. b[n].start <= cur[b[n].process]
        BY <4>2 DEF CollectedOnce
      <4> QED
        BY <4>1, <4>3
    <3> QED
      BY <1>2, <1>7, <3>1
  <2> QED
    BY <1>4, <1>7, <2>2
<1>9. \A i \in DOMAIN q : m[q[i].id] = 1
  <2> TAKE i \in DOMAIN q
  <2>1. PICK n \in Ids : n = q[i].id
    BY <1>7
  <2>2. m[n] = k[n] + 1 /\ k[n] = 0
    BY <1>5, <1>8, <2>1
  <2> QED
    BY <2>1, <2>2
<1>10. \A n \in Ids : m[n] > 0 => k[n] > 0 \/ \E i \in DOMAIN q : q[i].id = n
  BY <1>5
<1>11. \A n \in Ids : (~\E i \in DOMAIN q : q[i].id = n) => m[n] = k[n]
  BY <1>5
<1>12. e[p] = d
  BY DEF Moved
<1>13. \A x \in Processes : e[x] \in Int /\ e[x] >= cur[x]
  <2> TAKE x \in Processes
  <2>1. e[x] \in Int /\ cur[x] \in Int /\ (x = p \/ e[x] = cur[x])
    BY DEF Moved
  <2> QED
    BY <1>2, <1>3, <1>12, <2>1
<1>14. CollectedOnce(b, r, m, e)
  <2> SUFFICES ASSUME NEW n \in Ids, m[n] > 0
               PROVE  m[n] = 1 /\ n \in DOMAIN b /\ b[n] \notin r /\ b[n].start <= e[b[n].process]
    BY DEF CollectedOnce
  <2>1. CASE \E i \in DOMAIN q : q[i].id = n
    BY <1>3, <1>7, <1>9, <1>12, <2>1
  <2>2. CASE ~\E i \in DOMAIN q : q[i].id = n
    <3>1. m[n] = k[n] /\ k[n] > 0
      BY <1>11, <2>2
    <3>2. k[n] = 1 /\ n \in DOMAIN b /\ b[n] \notin r /\ b[n].start <= cur[b[n].process]
      BY <3>1 DEF CollectedOnce
    <3>3. b[n].process \in Processes /\ b[n].start \in Int
      BY <3>2, SpanFields
    <3>4. b[n].start <= e[b[n].process]
      BY <1>13, <3>2, <3>3
    <3> QED
      BY <3>1, <3>2, <3>4
  <2> QED
    BY <2>1, <2>2
<1>15. \A n \in DOMAIN b : n \in Ids
  BY TelemetryAssumption DEF Ids
<1>16. CursorSeen(p, b, m, d)
  <2> SUFFICES ASSUME d # Never
               PROVE  \E n \in DOMAIN b : m[n] > 0 /\ b[n].process = p /\ b[n].start = d
    BY DEF CursorSeen
  <2>1. CASE d = c
    <3>1. PICK n \in DOMAIN b : k[n] > 0 /\ b[n].process = p /\ b[n].start = d
      BY <1>4, <2>1 DEF CursorSeen
    <3>2. m[n] > 0
      BY <1>6, <1>15, <3>1
    <3> QED
      BY <3>1, <3>2
  <2>2. CASE \E i \in DOMAIN q : q[i].start = d
    <3>1. PICK i \in DOMAIN q : q[i].start = d
      BY <2>2
    <3>2. m[q[i].id] > 0
      BY <1>9
    <3> QED
      BY <1>7, <3>1, <3>2
  <2> QED
    BY <1>3, <2>1, <2>2
<1>17. ASSUME Limit >= RingSize PROVE PassedLate(p, b, m, g, d)
  <2> SUFFICES ASSUME NEW i \in DOMAIN g, m[g[i].id] = 0, g[i].start <= d
               PROVE  \E n \in DOMAIN b : /\ m[n] > 0 /\ b[n].process = p /\ b[n].start >= g[i].start
                                          /\ \A j \in i..Len(g) : g[j] # b[n]
    BY DEF PassedLate
  <2>1. g[i].id \in Ids /\ g[i].start \in Int
    BY SpanFields
  <2>2. k[g[i].id] = 0
    BY <1>6, <2>1
  <2>3. CASE g[i].start <= c
    <3>1. PICK n \in DOMAIN b : /\ k[n] > 0 /\ b[n].process = p /\ b[n].start >= g[i].start
                                /\ \A j \in i..Len(g) : g[j] # b[n]
      BY <1>4, <1>17, <2>2, <2>3 DEF PassedLate
    <3>2. m[n] > 0
      BY <1>6, <1>15, <3>1
    <3> QED
      BY <3>1, <3>2
  <2>4. CASE ~(g[i].start <= c)
    <3>1. g[i].start > c /\ d # c
      BY <2>1, <2>4
    <3>2. PICK h \in DOMAIN q : q[h].start = d
      BY <1>3, <3>1
    <3>3. g[i] \notin ToSet(q)
      <4>1. \A x \in DOMAIN q : g[i] # q[x]
        BY <1>9
      <4> QED
        BY <4>1 DEF ToSet
    <3>4. \A j \in i..Len(g) : g[j] \notin ToSet(q)
      BY <1>1, <1>4, <1>17, <3>1, <3>3 DEF LeavesLater
    <3>5. \A j \in i..Len(g) : g[j] # q[h]
      BY <3>4 DEF ToSet
    <3>6. m[q[h].id] > 0
      BY <1>9
    <3>7. q[h].start >= g[i].start
      BY <1>3, <2>1, <3>2
    <3>8. /\ q[h].id \in DOMAIN b /\ b[q[h].id] = q[h] /\ q[h].process = p
      BY <1>7
    <3> QED
      BY <3>5, <3>6, <3>7, <3>8
  <2> QED
    BY <2>3, <2>4
<1>18. PollFits(p, b, r, d, Over) /\ LeavesLater(g, d, Over)
  BY PollForms DEF PollFits, EndedAt, NoRepeats, LeavesLater
<1>19. d >= Never
  BY <1>3, <1>4 DEF Never
<1>20. ProcessFits(p, b, r, m, g, d, Over)
  BY <1>4, <1>16, <1>17, <1>18, <1>19 DEF ProcessFits
<1> QED
  BY <1>6, <1>14, <1>20
-----------------------------------------------------------------------------
(* The invariant and the actions.                                            *)

LEMMA Primed ==
  ASSUME TelemetryTyped', Causal(begun', time'),
         CollectedOnce(begun', running', collected', cursor'),
         \A p \in Processes :
           ProcessFits(p, begun', running', collected', ring'[p], cursor'[p], poll'[p])
  PROVE  TelemetryInv'
<1>1. Causal(begun, time)'
  BY DEF Causal, TrueStart
<1>2. CollectedOnce(begun, running, collected, cursor)'
  BY DEF CollectedOnce
<1>3. (\A p \in Processes : ProcessFits(p, begun, running, collected, ring[p], cursor[p], poll[p]))'
  BY DEF ProcessFits, EndedAt, Began, CursorSeen, PollFits, NoRepeats, LeavesLater, PassedLate, ToSet
<1> QED
  BY <1>1, <1>2, <1>3 DEF TelemetryInv

LEMMA TelemetryStarts == TelemetryInit => TelemetryInv
<1> SUFFICES ASSUME TelemetryInit PROVE TelemetryInv
  OBVIOUS
<1>1. /\ time = 0 /\ running = {} /\ begun = <<>>
      /\ ring = [p \in Processes |-> <<>>] /\ store = <<>>
      /\ cursor = [p \in Processes |-> Never]
      /\ poll = [p \in Processes |-> Asked(Never)]
      /\ collected = [s \in Ids |-> 0]
  BY DEF TelemetryInit
<1>2. Never \in Int /\ Asked(Never) \in PollState /\ Asked(Never).since = Never /\ Asked(Never).spans = <<>>
      /\ Asked(Never).at = "asked"
  BY PollForms DEF Never
<1>3. TelemetryTyped
  BY <1>1, <1>2, TelemetryAssumption DEF TelemetryTyped
<1>4. Causal(begun, time) /\ CollectedOnce(begun, running, collected, cursor)
  BY <1>1 DEF Causal, CollectedOnce
<1>5. ASSUME NEW p \in Processes
      PROVE  ProcessFits(p, begun, running, collected, ring[p], cursor[p], poll[p])
  <2>1. ring[p] = <<>> /\ cursor[p] = Never /\ poll[p] = Asked(Never)
    BY <1>1
  <2>2. EndedAt(p, begun, running, <<>>) /\ Len(<<>>) <= RingSize
    BY TelemetryAssumption DEF EndedAt
  <2>3. CursorSeen(p, begun, collected, Never) /\ Never >= Never
    BY DEF CursorSeen, Never
  <2>4. PollFits(p, begun, running, Never, Asked(Never))
    BY <1>2, <2>2 DEF PollFits, NoRepeats
  <2>5. LeavesLater(<<>>, Never, Asked(Never)) /\ PassedLate(p, begun, collected, <<>>, Never)
    BY DEF LeavesLater, PassedLate
  <2> QED
    BY <2>1, <2>2, <2>3, <2>4, <2>5 DEF ProcessFits
<1> QED
  BY <1>3, <1>4, <1>5 DEF TelemetryInv

LEMMA TickKeeps ==
  ASSUME TelemetryInv, Tick
  PROVE  TelemetryInv'
<1>1. time' = time + 1 /\ time' \in 0..Horizon /\ time \in 0..Horizon
  BY TelemetryAssumption DEF TelemetryInv, TelemetryTyped, Tick
<1>2. /\ running' = running /\ begun' = begun /\ ring' = ring /\ store' = store
      /\ cursor' = cursor /\ poll' = poll /\ collected' = collected
  BY DEF Tick
<1>3. TelemetryTyped'
  BY <1>1, <1>2 DEF TelemetryInv, TelemetryTyped, Began
<1>4. Causal(begun, time')
  <2>1. \A x \in 0..time : x \in 0..time'
    BY <1>1
  <2> QED
    BY <2>1 DEF TelemetryInv, Causal
<1> QED
  BY <1>2, <1>3, <1>4, Primed DEF TelemetryInv

LEMMA StartKeeps ==
  ASSUME TelemetryInv, NEW p \in Processes, startSpan(p)
  PROVE  TelemetryInv'
<1> DEFINE id == Len(begun) + 1
<1>1. PICK cause \in DOMAIN begun \cup {NoSpan} : \E s :
        /\ s = [id |-> id, process |-> p, start |-> time + Offset[p], parent |-> cause,
                trace |-> IF cause = NoSpan THEN id ELSE begun[cause].trace]
        /\ running' = running \cup {s} /\ begun' = Append(begun, s)
  BY DEF startSpan
<1>2. PICK s :
        /\ s = [id |-> id, process |-> p, start |-> time + Offset[p], parent |-> cause,
                trace |-> IF cause = NoSpan THEN id ELSE begun[cause].trace]
        /\ running' = running \cup {s} /\ begun' = Append(begun, s)
  BY <1>1
<1>3. /\ time' = time /\ ring' = ring /\ store' = store /\ cursor' = cursor
      /\ poll' = poll /\ collected' = collected /\ Len(begun) < MaxSpans
  BY DEF startSpan
<1>4. /\ time \in 0..Horizon /\ begun \in Seq(Spans) /\ Len(begun) \in Nat /\ DOMAIN begun = 1..Len(begun)
  BY DEF TelemetryInv, TelemetryTyped
<1>5. id \in Ids /\ time + Offset[p] \in Int /\ cause \in Ids \cup {NoSpan}
  BY <1>3, <1>4, TelemetryAssumption DEF Ids
<1>6. cause # NoSpan => cause \in DOMAIN begun /\ begun[cause] \in Spans /\ begun[cause].trace \in Ids
  BY <1>4, SpanFields
<1>7. s \in Spans /\ s.id = id /\ s.start = time + Offset[p] /\ s.process = p /\ s.parent = cause
  <2>1. PICK tr \in Ids : tr = IF cause = NoSpan THEN id ELSE begun[cause].trace
    BY <1>5, <1>6
  <2>2. s = [id |-> id, process |-> p, start |-> time + Offset[p], parent |-> cause, trace |-> tr]
    BY <1>2, <2>1
  <2> HIDE DEF id
  <2> QED
    BY <1>5, <2>2 DEF Spans
<1>8. TrueStart(s) = time
  BY <1>4, <1>7, TelemetryAssumption DEF TrueStart
<1>9. PICK b \in Seq(Spans) : b = begun'
  <2>1. Append(begun, s) \in Seq(Spans)
    BY <1>4, <1>7
  <2> QED
    BY <1>2, <2>1
<1>10. /\ DOMAIN b = 1..(Len(begun) + 1) /\ b[Len(begun) + 1] = s /\ Began(b, s)
       /\ \A i \in DOMAIN begun : i \in DOMAIN b /\ b[i] = begun[i]
       /\ \A x : Began(begun, x) => Began(b, x) /\ x # s
  BY <1>2, <1>4, <1>7, <1>9, Grows
<1>11. Len(b) = Len(begun) + 1
  BY <1>2, <1>4, <1>9
<1>12. TelemetryTyped'
  <2>1. begun' \in Seq(Spans) /\ Len(begun') <= MaxSpans
    BY <1>3, <1>4, <1>9, <1>11, TelemetryAssumption
  <2>2. running' \in SUBSET Spans /\ \A x \in running' : Began(b, x)
    <3>1. running \in SUBSET Spans /\ \A x \in running : Began(begun, x)
      BY DEF TelemetryInv, TelemetryTyped
    <3>2. \A x \in running : Began(b, x)
      BY <1>10, <3>1
    <3> QED
      BY <1>2, <1>7, <1>10, <3>1, <3>2
  <2>3. \A i \in DOMAIN store : Began(b, store[i])
    <3>1. \A i \in DOMAIN store : Began(begun, store[i])
      BY DEF TelemetryInv, TelemetryTyped
    <3> QED
      BY <1>10, <3>1
  <2> QED
    BY <1>3, <1>9, <2>1, <2>2, <2>3 DEF TelemetryInv, TelemetryTyped, Began
<1>13. Causal(b, time)
  <2> SUFFICES ASSUME NEW i \in DOMAIN b
               PROVE  /\ b[i].id = i /\ TrueStart(b[i]) \in 0..time
                      /\ b[i].parent # NoSpan =>
                           b[i].parent \in 1..(i - 1) /\ TrueStart(b[b[i].parent]) <= TrueStart(b[i])
    BY DEF Causal
  <2>1. CASE i \in DOMAIN begun
    <3>1. /\ begun[i].id = i /\ TrueStart(begun[i]) \in 0..time
          /\ begun[i].parent # NoSpan =>
               begun[i].parent \in 1..(i - 1) /\ TrueStart(begun[begun[i].parent]) <= TrueStart(begun[i])
      BY <2>1 DEF TelemetryInv, Causal
    <3>2. begun[i].parent # NoSpan => begun[i].parent \in DOMAIN begun
      BY <1>4, <2>1, <3>1
    <3> QED
      BY <1>10, <2>1, <3>1, <3>2
  <2>2. CASE i = Len(begun) + 1
    <3>1. b[i] = s /\ s.id = i /\ TrueStart(s) = time /\ time \in 0..time
      BY <1>4, <1>7, <1>8, <1>10, <2>2
    <3>2. ASSUME s.parent # NoSpan
          PROVE  s.parent \in 1..(i - 1) /\ TrueStart(b[s.parent]) <= time
      <4>1. s.parent \in DOMAIN begun
        BY <1>6, <1>7, <3>2
      <4>2. TrueStart(begun[s.parent]) \in 0..time
        BY <4>1 DEF TelemetryInv, Causal
      <4>3. TrueStart(b[s.parent]) <= time
        BY <1>4, <1>10, <4>1, <4>2
      <4> QED
        BY <1>4, <2>2, <4>1, <4>3
    <3> QED
      BY <3>1, <3>2
  <2> QED
    BY <1>4, <1>10, <2>1, <2>2
<1>14. CollectedOnce(b, running', collected, cursor)
  <2>1. \A n \in DOMAIN begun : begun[n] # s
    <3>1. \A n \in DOMAIN begun : begun[n].id = n
      BY DEF TelemetryInv, Causal
    <3> QED
      BY <1>4, <1>7, <3>1
  <2> QED
    BY <1>2, <1>10, <2>1 DEF TelemetryInv, CollectedOnce
<1>15. ASSUME NEW x \in Processes
       PROVE  ProcessFits(x, b, running', collected, ring[x], cursor[x], poll[x])
  BY <1>2, <1>4, <1>7, <1>9, MoreBegun DEF TelemetryInv
<1> QED
  BY <1>3, <1>9, <1>12, <1>13, <1>14, <1>15, Primed
LEMMA FinishKeeps ==
  ASSUME TelemetryInv, NEW s \in running, finish(s)
  PROVE  TelemetryInv'
<1>1. /\ s \in Spans /\ Began(begun, s) /\ running \in SUBSET Spans /\ begun \in Seq(Spans)
      /\ Len(begun) <= MaxSpans /\ ring \in [Processes -> Seq(Spans)] /\ time \in Int
      /\ cursor \in [Processes -> Int] /\ poll \in [Processes -> PollState]
      /\ \A x \in running : Began(begun, x)
  BY DEF TelemetryInv, TelemetryTyped
<1>2. /\ running' = running \ {s} /\ time' = time /\ begun' = begun /\ store' = store
      /\ cursor' = cursor /\ poll' = poll /\ collected' = collected
  BY DEF finish
<1>3. PICK p \in Processes : p = s.process
  BY <1>1, SpanFields
<1>4. PICK g : g = Latest(Append(ring[p], s), RingSize)
  OBVIOUS
<1>5. ring' = [ring EXCEPT ![p] = g]
  BY <1>3, <1>4 DEF finish
<1>6. ring'[p] = g /\ \A x \in Processes \ {p} : ring'[x] = ring[x]
  BY <1>1, <1>5
<1>7. \A n \in DOMAIN begun : collected[n] > 0 => begun[n] \notin running
  <2>1. \A n \in DOMAIN begun : n \in Ids
    BY <1>1, TelemetryAssumption DEF Ids
  <2> QED
    BY <2>1 DEF TelemetryInv, CollectedOnce
<1>8. ASSUME NEW x \in Processes
      PROVE  ProcessFits(x, begun, running', collected, ring'[x], cursor[x], poll[x])
  <2>1. ProcessFits(x, begun, running, collected, ring[x], cursor[x], poll[x])
    BY DEF TelemetryInv
  <2>2. running' \in SUBSET running
    BY <1>2
  <2>3. CASE x = p
    <3>1. /\ Causal(begun, time) /\ ring[p] \in Seq(Spans) /\ cursor[p] \in Int /\ poll[p] \in PollState
      BY <1>1 DEF TelemetryInv
    <3>2. ProcessFits(p, begun, running \ {s}, collected, g, cursor[p], poll[p])
      BY <1>1, <1>3, <1>4, <1>7, <2>1, <2>3, <3>1, Recorded
    <3> QED
      BY <1>2, <1>6, <2>3, <3>2
  <2>4. CASE x # p
    <3>1. ProcessFits(x, begun, running', collected, ring[x], cursor[x], poll[x])
      BY <2>1, <2>2, FewerRunning
    <3> QED
      BY <1>6, <2>4, <3>1
  <2> QED
    BY <2>3, <2>4
<1>9. TelemetryTyped'
  <2>1. Append(ring[p], s) \in Seq(Spans) /\ RingSize \in Nat
    BY <1>1, TelemetryAssumption
  <2>2. g \in Seq(Spans)
    BY <1>4, <2>1, Kept
  <2>3. ring' \in [Processes -> Seq(Spans)]
    BY <1>1, <1>5, <2>2
  <2>4. running' \in SUBSET Spans /\ \A x \in running' : Began(begun, x)
    BY <1>1, <1>2
  <2> QED
    BY <1>2, <2>3, <2>4 DEF TelemetryInv, TelemetryTyped, Began
<1>10. CollectedOnce(begun, running', collected, cursor)
  BY <1>2 DEF TelemetryInv, CollectedOnce
<1> QED
  BY <1>2, <1>8, <1>9, <1>10, Primed DEF TelemetryInv

LEMMA RestartKeeps ==
  ASSUME TelemetryInv, NEW p \in Processes, Restart(p)
  PROVE  TelemetryInv'
<1>1. /\ running' = {s \in running : s.process # p} /\ time' = time /\ begun' = begun /\ store' = store
      /\ cursor' = cursor /\ poll' = poll /\ collected' = collected
      /\ ring' = [ring EXCEPT ![p] = <<>>]
  BY DEF Restart
<1>2. running' \in SUBSET running
  BY <1>1
<1>3. ring \in [Processes -> Seq(Spans)]
  BY DEF TelemetryInv, TelemetryTyped
<1>4. ring'[p] = <<>> /\ (\A x \in Processes \ {p} : ring'[x] = ring[x]) /\ ring' \in [Processes -> Seq(Spans)]
  BY <1>1, <1>3
<1>5. TelemetryTyped'
  BY <1>1, <1>2, <1>4 DEF TelemetryInv, TelemetryTyped, Began
<1>6. CollectedOnce(begun, running', collected, cursor)
  BY <1>2 DEF TelemetryInv, CollectedOnce
<1>7. ASSUME NEW x \in Processes
      PROVE  ProcessFits(x, begun, running', collected, ring'[x], cursor[x], poll[x])
  <2>1. ProcessFits(x, begun, running', collected, ring[x], cursor[x], poll[x])
    BY <1>2, FewerRunning DEF TelemetryInv
  <2>2. CASE x = p
    <3>1. /\ EndedAt(x, begun, running', <<>>) /\ Len(<<>>) <= RingSize
          /\ LeavesLater(<<>>, cursor[x], poll[x]) /\ PassedLate(x, begun, collected, <<>>, cursor[x])
      BY TelemetryAssumption DEF EndedAt, LeavesLater, PassedLate
    <3> QED
      BY <1>4, <2>1, <2>2, <3>1 DEF ProcessFits
  <2>3. CASE x # p
    BY <1>4, <2>1, <2>3
  <2> QED
    BY <2>2, <2>3
<1> QED
  BY <1>1, <1>5, <1>6, <1>7, Primed DEF TelemetryInv

\* A poll alone moves.
LEMMA PollMoves ==
  ASSUME TelemetryInv,
         UNCHANGED <<time, running, begun, ring, store, cursor, collected>>,
         poll' \in [Processes -> PollState],
         \A p \in Processes : ProcessFits(p, begun, running, collected, ring[p], cursor[p], poll'[p])
  PROVE  TelemetryInv'
<1>1. TelemetryTyped'
  BY DEF TelemetryInv, TelemetryTyped, Began
<1> QED
  BY <1>1, Primed DEF TelemetryInv

LEMMA AnswerKeeps ==
  ASSUME TelemetryInv, NEW p \in Processes, Answer(p)
  PROVE  TelemetryInv'
<1>1. /\ begun \in Seq(Spans) /\ ring[p] \in Seq(Spans) /\ cursor[p] \in Int /\ poll[p] \in PollState
      /\ time \in Int /\ Causal(begun, time) /\ poll \in [Processes -> PollState]
      /\ \A x \in Processes : ProcessFits(x, begun, running, collected, ring[x], cursor[x], poll[x])
  BY DEF TelemetryInv, TelemetryTyped
<1>2. PICK S : S = {s \in ToSet(ring[p]) : poll[p].since = Never \/ s.start > poll[p].since}
  OBVIOUS
<1>3. PICK q : q = Latest(ByStart(S), Limit)
  OBVIOUS
<1>4. poll[p].at = "asked" /\ poll' = [poll EXCEPT ![p] = Answered(q)]
  BY <1>2, <1>3 DEF Answer, records
<1>5. q \in Seq(Spans) /\ ProcessFits(p, begun, running, collected, ring[p], cursor[p], Answered(q))
  BY <1>1, <1>2, <1>3, <1>4, Answers
<1>6. Answered(q) \in PollState
  BY <1>5, PollForms
<1>7. poll' \in [Processes -> PollState] /\ poll'[p] = Answered(q) /\ \A x \in Processes \ {p} : poll'[x] = poll[x]
  BY <1>1, <1>4, <1>6
<1>8. \A x \in Processes : ProcessFits(x, begun, running, collected, ring[x], cursor[x], poll'[x])
  BY <1>1, <1>5, <1>7
<1> QED
  BY <1>7, <1>8, PollMoves DEF Answer

\* Nothing is left of a poll that is over.
LEMMA OverFits ==
  ASSUME NEW p, NEW b, NEW r, NEW k, NEW g, NEW c, NEW o, ProcessFits(p, b, r, k, g, c, o)
  PROVE  ProcessFits(p, b, r, k, g, c, Over)
<1>1. PollFits(p, b, r, c, Over) /\ LeavesLater(g, c, Over)
  BY PollForms DEF PollFits, EndedAt, NoRepeats, LeavesLater
<1> QED
  BY <1>1 DEF ProcessFits

LEMMA NoAnswerKeeps ==
  ASSUME TelemetryInv, NEW p \in Processes, NoAnswer(p)
  PROVE  TelemetryInv'
<1>1. /\ poll \in [Processes -> PollState]
      /\ \A x \in Processes : ProcessFits(x, begun, running, collected, ring[x], cursor[x], poll[x])
  BY DEF TelemetryInv, TelemetryTyped
<1>2. poll' = [poll EXCEPT ![p] = Over]
  BY DEF NoAnswer
<1>3. poll' \in [Processes -> PollState] /\ poll'[p] = Over /\ \A x \in Processes \ {p} : poll'[x] = poll[x]
  BY <1>1, <1>2, PollForms
<1>4. ProcessFits(p, begun, running, collected, ring[p], cursor[p], Over)
  BY <1>1, OverFits
<1>5. \A x \in Processes : ProcessFits(x, begun, running, collected, ring[x], cursor[x], poll'[x])
  BY <1>1, <1>3, <1>4
<1> QED
  BY <1>3, <1>5, PollMoves DEF NoAnswer

LEMMA RoundKeeps ==
  ASSUME TelemetryInv, NextRound
  PROVE  TelemetryInv'
<1>1. /\ poll' = [p \in Processes |-> Asked(cursor[p])] /\ cursor \in [Processes -> Int]
      /\ \A x \in Processes : ProcessFits(x, begun, running, collected, ring[x], cursor[x], poll[x])
  BY DEF NextRound, TelemetryInv, TelemetryTyped
<1>2. ASSUME NEW x \in Processes
      PROVE  /\ poll'[x] \in PollState
             /\ ProcessFits(x, begun, running, collected, ring[x], cursor[x], poll'[x])
  <2>1. PICK c \in Int : c = cursor[x]
    BY <1>1
  <2>2. PICK o : o = Asked(c)
    OBVIOUS
  <2>3. poll'[x] = o /\ o \in PollState /\ o.at = "asked" /\ o.since = c /\ o.spans = <<>>
    BY <1>1, <2>1, <2>2, PollForms
  <2>4. PollFits(x, begun, running, c, o) /\ LeavesLater(ring[x], c, o)
    BY <2>3 DEF PollFits, EndedAt, NoRepeats, LeavesLater
  <2> QED
    BY <1>1, <2>1, <2>3, <2>4 DEF ProcessFits
<1>3. poll' \in [Processes -> PollState]
  BY <1>1, <1>2
<1> QED
  BY <1>2, <1>3, PollMoves DEF NextRound

LEMMA CollectKeeps ==
  ASSUME TelemetryInv, NEW p \in Processes, collect(p)
  PROVE  TelemetryInv'
<1>1. /\ begun \in Seq(Spans) /\ Len(begun) <= MaxSpans
      /\ ring \in [Processes -> Seq(Spans)] /\ cursor \in [Processes -> Int]
      /\ poll \in [Processes -> PollState] /\ collected \in [Ids -> Nat] /\ store \in Seq(Spans)
      /\ \A i \in DOMAIN store : Began(begun, store[i])
      /\ CollectedOnce(begun, running, collected, cursor)
      /\ \A x \in Processes : ProcessFits(x, begun, running, collected, ring[x], cursor[x], poll[x])
  BY DEF TelemetryInv, TelemetryTyped
<1>2. PICK q \in Seq(Spans) : q = poll[p].spans
  BY <1>1 DEF PollState
<1>3. /\ poll[p].at = "answered"
      /\ time' = time /\ running' = running /\ begun' = begun /\ ring' = ring
      /\ store' = Latest(store \o q, StoreSize)
      /\ collected' = [n \in Ids |-> collected[n] + Cardinality(Occurrences(q, n))]
      /\ poll' = [poll EXCEPT ![p] = Over]
  BY <1>2 DEF collect, Occurrences
<1>4. PICK d : d = Max(Starts(q) \cup {cursor[p]})
  OBVIOUS
<1>5. cursor' = [cursor EXCEPT ![p] = d]
  BY <1>2, <1>4 DEF collect
<1>6. /\ d \in Int /\ d >= cursor[p] /\ \A i \in DOMAIN q : q[i].start <= d
      /\ d = cursor[p] \/ \E i \in DOMAIN q : q[i].start = d
  BY <1>1, <1>4, CursorMoves
<1>7. EndedAt(p, begun, running, q) /\ NoRepeats(q)
  BY <1>1, <1>2 DEF ProcessFits, PollFits
<1>8. OneEach(q)
  BY <1>7, AnsweredOnce
<1>9. PICK x : x = [n \in Ids |-> Cardinality(Occurrences(q, n))]
  OBVIOUS
<1>10. \A n \in Ids : /\ (\E i \in DOMAIN q : q[i].id = n) => x[n] = 1
                      /\ (~\E i \in DOMAIN q : q[i].id = n) => x[n] = 0
  BY <1>8, <1>9, Counts
<1>11. PICK m : m = [n \in Ids |-> collected[n] + x[n]]
  OBVIOUS
<1>12. collected' = m
  BY <1>3, <1>9, <1>11
<1>13. /\ m \in [Ids -> Nat]
       /\ \A n \in Ids : /\ (\E i \in DOMAIN q : q[i].id = n) => m[n] = collected[n] + 1
                         /\ (~\E i \in DOMAIN q : q[i].id = n) => m[n] = collected[n]
  <2>1. \A n \in Ids : x[n] \in Nat /\ collected[n] \in Nat /\ m[n] = collected[n] + x[n]
    BY <1>1, <1>10, <1>11
  <2>2. m \in [Ids -> Nat]
    BY <1>11, <2>1
  <2> QED
    BY <1>10, <2>1, <2>2
<1>14. PICK e : e = [cursor EXCEPT ![p] = d]
  OBVIOUS
<1>15. cursor' = e /\ e \in [Processes -> Int] /\ e[p] = d /\ \A y \in Processes \ {p} : e[y] = cursor[y]
  BY <1>1, <1>5, <1>6, <1>14
<1>16. /\ \A n \in Ids : m[n] >= collected[n]
       /\ CollectedOnce(begun, running, m, e)
       /\ ProcessFits(p, begun, running, m, ring[p], d, Over)
  <2>1. PICK k \in [Ids -> Nat], g \in Seq(Spans), o \in PollState, cur \in [Processes -> Int] :
          k = collected /\ g = ring[p] /\ o = poll[p] /\ cur = cursor
    BY <1>1
  <2>2. /\ Len(begun) <= MaxSpans /\ o.at = "answered" /\ q = o.spans
        /\ CollectedOnce(begun, running, k, cur) /\ ProcessFits(p, begun, running, k, g, cur[p], o)
    BY <1>1, <1>2, <1>3, <2>1
  <2>3. Counted(q, k, m)
    BY <1>13, <2>1 DEF Counted
  <2>4. d \in Int /\ Reached(q, cur[p], d)
    BY <1>6, <2>1 DEF Reached
  <2>5. e \in [Processes -> Int] /\ Moved(cur, e, p, d)
    BY <1>15, <2>1 DEF Moved
  <2>6. /\ \A n \in Ids : m[n] >= k[n]
        /\ CollectedOnce(begun, running, m, e)
        /\ ProcessFits(p, begun, running, m, g, d, Over)
    BY <1>1, <1>13, <2>2, <2>3, <2>4, <2>5, Collects
  <2> QED
    BY <2>1, <2>6
<1>17. /\ poll' \in [Processes -> PollState] /\ poll'[p] = Over
       /\ \A y \in Processes \ {p} : poll'[y] = poll[y]
  BY <1>1, <1>3, PollForms
<1>18. ASSUME NEW y \in Processes
       PROVE  ProcessFits(y, begun, running, m, ring[y], e[y], poll'[y])
  <2>1. CASE y = p
    BY <1>16, <1>15, <1>17, <2>1
  <2>2. CASE y # p
    <3>1. ProcessFits(y, begun, running, collected, ring[y], cursor[y], poll[y]) /\ ring[y] \in Seq(Spans)
      BY <1>1
    <3>2. ProcessFits(y, begun, running, m, ring[y], cursor[y], poll[y])
      BY <1>1, <1>13, <1>16, <3>1, MoreCollected
    <3> QED
      BY <1>15, <1>17, <2>2, <3>2
  <2> QED
    BY <2>1, <2>2
<1>19. PICK u : u = store \o q
  OBVIOUS
<1>20. u \in Seq(Spans) /\ \A i \in DOMAIN u : Began(begun, u[i])
  <2>1. u \in Seq(Spans) /\ Len(u) = Len(store) + Len(q) /\ Len(store) \in Nat /\ Len(q) \in Nat
        /\ DOMAIN store = 1..Len(store) /\ DOMAIN q = 1..Len(q) /\ DOMAIN u = 1..Len(u)
    BY <1>1, <1>19
  <2>2. \A i \in 1..Len(store) : u[i] = store[i]
    BY <1>1, <1>19
  <2>3. \A i \in 1..(Len(store) + Len(q)) : i \notin 1..Len(store) =>
          i - Len(store) \in 1..Len(q) /\ u[i] = q[i - Len(store)]
    BY <1>1, <1>19
  <2>4. \A i \in DOMAIN q : Began(begun, q[i])
    BY <1>7 DEF EndedAt
  <2>5. \A i \in DOMAIN u : (i \in DOMAIN store /\ u[i] = store[i])
                              \/ (i - Len(store) \in DOMAIN q /\ u[i] = q[i - Len(store)])
    BY <2>1, <2>2, <2>3
  <2>6. ASSUME NEW i \in DOMAIN u PROVE Began(begun, u[i])
    BY <1>1, <2>4, <2>5
  <2> QED
    BY <2>1, <2>6
<1>21. store' \in Seq(Spans) /\ \A i \in DOMAIN store' : Began(begun, store'[i])
  <2>1. StoreSize \in Nat
    BY TelemetryAssumption
  <2>2. PICK v \in Seq(Spans), h \in Nat :
          /\ Latest(u, StoreSize) = v
          /\ Len(v) + h = Len(u) /\ Len(v) <= StoreSize /\ (Len(u) <= StoreSize => h = 0)
          /\ \A i \in 1..Len(v) : i + h \in 1..Len(u) /\ v[i] = u[i + h]
    BY <1>20, <2>1, Kept
  <2>3. DOMAIN v = 1..Len(v) /\ DOMAIN u = 1..Len(u)
    BY <1>20
  <2>4. \A i \in DOMAIN v : i + h \in DOMAIN u /\ v[i] = u[i + h]
    BY <2>2, <2>3
  <2>5. \A i \in DOMAIN v : Began(begun, v[i])
    BY <1>20, <2>4
  <2> QED
    BY <1>3, <1>19, <2>2, <2>5
<1>22. TelemetryTyped'
  BY <1>3, <1>13, <1>12, <1>15, <1>17, <1>21 DEF TelemetryInv, TelemetryTyped, Began
<1>23. Causal(begun', time')
  BY <1>3 DEF TelemetryInv
<1> QED
  BY <1>3, <1>12, <1>16, <1>15, <1>18, <1>22, <1>23, Primed
LEMMA TelemetryStep == TelemetryInv /\ [TelemetryNext]_telemetryVars => TelemetryInv'
<1> SUFFICES ASSUME TelemetryInv, [TelemetryNext]_telemetryVars PROVE TelemetryInv'
  OBVIOUS
<1>1. CASE Tick
  BY <1>1, TickKeeps
<1>2. ASSUME NEW p \in Processes, startSpan(p) PROVE TelemetryInv'
  BY <1>2, StartKeeps
<1>3. ASSUME NEW p \in Processes, Restart(p) PROVE TelemetryInv'
  BY <1>3, RestartKeeps
<1>4. ASSUME NEW p \in Processes, Poll(p) PROVE TelemetryInv'
  BY <1>4, AnswerKeeps, NoAnswerKeeps, CollectKeeps DEF Poll
<1>5. ASSUME NEW s \in running, finish(s) PROVE TelemetryInv'
  BY <1>5, FinishKeeps
<1>6. CASE NextRound
  BY <1>6, RoundKeeps
<1>7. CASE UNCHANGED telemetryVars
  <2>1. /\ time' = time /\ running' = running /\ begun' = begun /\ ring' = ring /\ store' = store
        /\ cursor' = cursor /\ poll' = poll /\ collected' = collected
    BY <1>7 DEF telemetryVars
  <2>2. poll' \in [Processes -> PollState]
        /\ \A p \in Processes : ProcessFits(p, begun, running, collected, ring[p], cursor[p], poll'[p])
    BY <2>1 DEF TelemetryInv, TelemetryTyped
  <2> QED
    BY <2>1, <2>2, PollMoves
<1> QED
  BY <1>1, <1>2, <1>3, <1>4, <1>5, <1>6, <1>7 DEF TelemetryNext

\* The inductive invariant of the collection: what is collected is over and was
\* collected once, and the cursor and the answers under way say what is missing.
THEOREM TelemetryInvariance == TelemetrySpec => []TelemetryInv
<1> QED
  BY TelemetryStarts, TelemetryStep, PTL DEF TelemetrySpec

-----------------------------------------------------------------------------
(* What the view shows.                                                      *)

\* A span of a trace in the store, and the one of that id.
LEMMA GroupBegan ==
  ASSUME TelemetryInv, NEW t
  PROVE  /\ \A s \in Group(t) : Began(begun, s) /\ s \in Spans
         /\ IsFiniteSet(Group(t))
         /\ \A n \in IdsOf(Group(t)) : n \in DOMAIN begun /\ Of(Group(t), n) = begun[n]
<1>1. store \in Seq(Spans) /\ \A i \in DOMAIN store : Began(begun, store[i])
  BY DEF TelemetryInv, TelemetryTyped
<1>2. Group(t) \in SUBSET ToSet(store)
  BY DEF Group
<1>3. \A s \in ToSet(store) : Began(begun, s) /\ s \in Spans
  BY <1>1, SpanFields DEF ToSet
<1>4. IsFiniteSet(Group(t))
  BY <1>1, <1>2, FewElements, FS_Subset
<1>5. ASSUME NEW n \in IdsOf(Group(t)) PROVE n \in DOMAIN begun /\ Of(Group(t), n) = begun[n]
  <2>1. PICK s \in Group(t) : s.id = n
    BY <1>5 DEF IdsOf
  <2>2. n \in DOMAIN begun /\ begun[n] = s
    BY <1>2, <1>3, <2>1 DEF Began
  <2>3. Of(Group(t), n) \in Group(t) /\ Of(Group(t), n).id = n
    BY <2>1 DEF Of
  <2>4. begun[n] = Of(Group(t), n)
    BY <1>2, <1>3, <2>3 DEF Began
  <2> QED
    BY <2>2, <2>4
<1> QED
  BY <1>2, <1>3, <1>4, <1>5

\* A cause began before what it caused: what seems to be later is a clock that is ahead.
LEMMA SkewIsAhead == TelemetryInv => SkewIsReal
<1> SUFFICES ASSUME TelemetryInv, NEW t \in Ids, NEW p \in Processes, NEW q \in Processes,
                    Skew(Group(t), p, q) > 0
             PROVE  p # q /\ Offset[p] - Offset[q] >= Skew(Group(t), p, q)
  BY DEF SkewIsReal
<1>1. PICK S : S = Group(t)
  OBVIOUS
<1>2. /\ \A s \in S : Began(begun, s) /\ s \in Spans
      /\ IsFiniteSet(S)
      /\ \A n \in IdsOf(S) : n \in DOMAIN begun /\ Of(S, n) = begun[n]
  BY <1>1, GroupBegan
<1>3. begun \in Seq(Spans) /\ DOMAIN begun = 1..Len(begun) /\ Len(begun) \in Nat /\ Causal(begun, time)
  BY DEF TelemetryInv, TelemetryTyped
<1>4. PICK K : K = {s \in S : s.process = q /\ s.parent \in IdsOf(S) /\ Of(S, s.parent).process = p}
  OBVIOUS
<1>5. IsFiniteSet(K)
  BY <1>2, <1>4, FS_Subset
<1>6. PICK f : f = [k \in K |-> Of(S, k.parent).start - k.start]
  OBVIOUS
<1>7. PICK D : D = {f[k] : k \in K}
  OBVIOUS
<1>8. IsFiniteSet(D)
  <2>1. f \in Surjection(K, D)
    BY <1>6, <1>7 DEF Surjection
  <2> QED
    BY <1>5, <2>1, FS_Surjection
<1>9. ASSUME NEW k \in K
      PROVE  f[k] \in Int /\ f[k] <= Offset[p] - Offset[q]
  <2>1. k \in S /\ k.process = q /\ k.parent \in IdsOf(S) /\ Of(S, k.parent).process = p
    BY <1>4
  <2>2. PICK n : n = k.parent
    OBVIOUS
  <2>3. n \in DOMAIN begun /\ Of(S, n) = begun[n] /\ begun[n].process = p
    BY <1>2, <2>1, <2>2
  <2>4. k.id \in DOMAIN begun /\ begun[k.id] = k /\ k \in Spans
    BY <1>2, <2>1 DEF Began
  <2>5. n # NoSpan
    BY <1>3, <2>3 DEF NoSpan
  <2>6. TrueStart(begun[n]) <= TrueStart(k)
    BY <1>3, <2>2, <2>4, <2>5 DEF Causal
  <2>7. begun[n].start \in Int /\ k.start \in Int /\ Offset[p] \in Int /\ Offset[q] \in Int
    BY <1>3, <2>3, <2>4, SpanFields, TelemetryAssumption
  <2>8. begun[n].start - Offset[p] <= k.start - Offset[q]
    BY <2>1, <2>3, <2>6 DEF TrueStart
  <2>9. f[k] = begun[n].start - k.start
    BY <1>6, <2>2, <2>3
  <2> QED
    BY <2>7, <2>8, <2>9
<1>10. PICK T : T = {0} \cup D
  OBVIOUS
<1>11. Skew(S, p, q) = Max(T)
  <2>1. D = {Of(S, k.parent).start - k.start : k \in K}
    BY <1>6, <1>7
  <2> QED
    BY <1>4, <1>10, <2>1 DEF Skew
<1>12. IsFiniteSet(T) /\ T # {} /\ \A x \in T : x \in Int
  <2>1. T = D \cup {0}
    BY <1>10
  <2> QED
    BY <1>7, <1>8, <1>9, <2>1, FS_AddElement
<1>13. Max(T) \in T
  BY <1>12, Largest
<1>14. Max(T) > 0
  BY <1>1, <1>11
<1>15. PICK k \in K : f[k] = Max(T)
  <2>1. PICK x : x = Max(T)
    OBVIOUS
  <2>2. x \in T /\ x > 0
    BY <1>13, <1>14, <2>1
  <2>3. x # 0
    BY <2>2
  <2>4. x \in D
    BY <1>10, <2>2, <2>3
  <2>5. \E k \in K : f[k] = x
    BY <1>7, <2>4
  <2> QED
    BY <2>1, <2>5
<1>16. Max(T) <= Offset[p] - Offset[q]
  BY <1>9, <1>15
<1>17. Offset[p] \in Int /\ Offset[q] \in Int /\ Max(T) \in Int
  BY <1>12, <1>13, TelemetryAssumption
<1>18. p # q /\ Offset[p] - Offset[q] >= Max(T)
  BY <1>14, <1>16, <1>17
<1> QED
  BY <1>1, <1>11, <1>18

LEMMA LateOnly == TelemetryInv => OnlyTheLateAreSkipped
<1> SUFFICES ASSUME TelemetryInv, Limit >= RingSize, NEW p \in Processes, NEW i \in DOMAIN ring[p],
                    collected[ring[p][i].id] = 0, ring[p][i].start <= cursor[p]
             PROVE  \E c \in ToSet(begun) : /\ collected[c.id] > 0
                                            /\ c.process = p /\ c.start >= ring[p][i].start
                                            /\ \A j \in i..Len(ring[p]) : ring[p][j] # c
  BY DEF OnlyTheLateAreSkipped
<1>1. PassedLate(p, begun, collected, ring[p], cursor[p])
  BY DEF TelemetryInv, ProcessFits
<1>2. PICK n \in DOMAIN begun :
        /\ collected[n] > 0 /\ begun[n].process = p /\ begun[n].start >= ring[p][i].start
        /\ \A j \in i..Len(ring[p]) : ring[p][j] # begun[n]
  BY <1>1 DEF PassedLate
<1>3. begun[n].id = n /\ begun[n] \in ToSet(begun)
  BY DEF TelemetryInv, Causal, ToSet
<1> QED
  BY <1>2, <1>3

LEMMA TelemetryIsEnough == TelemetryInv => TracesAreTrue
<1> SUFFICES ASSUME TelemetryInv PROVE TracesAreTrue
  OBVIOUS
<1>1. TelemetryTypeOK
  <2>1. \A p \in Processes : poll[p].at \in Polls /\ poll[p].spans \in Seq(Spans)
    BY DEF TelemetryInv, TelemetryTyped, PollState
  <2> QED
    BY <2>1 DEF TelemetryInv, TelemetryTyped, TelemetryTypeOK
<1>2. NoSpanTwice
  <2> SUFFICES ASSUME NEW n \in Ids PROVE collected[n] <= 1
    BY DEF NoSpanTwice
  <2>1. collected[n] \in Nat /\ (collected[n] > 0 => collected[n] = 1)
    BY DEF TelemetryInv, TelemetryTyped, CollectedOnce
  <2> QED
    BY <2>1
<1> QED
  BY <1>1, <1>2, SkewIsAhead, LateOnly DEF TracesAreTrue

\* No span is collected twice, a skew that is shown is one of the clocks, and
\* what the cursor passes over was late.
THEOREM Traces == TelemetrySpec => []TracesAreTrue
<1> QED
  BY TelemetryInvariance, TelemetryIsEnough, PTL
=============================================================================
