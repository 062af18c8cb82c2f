----------------------------- MODULE CoreProofs -----------------------------
(***************************************************************************)
(* What holds of the action protocol, for any goals, cancelers and caps;   *)
(* and of the bringup order and an application's life, for any number of   *)
(* nodes, any graph, any failing hook and any requests of tools.           *)
(***************************************************************************)
EXTENDS ActionProtocol, AppLife, TLAPS, FiniteSetTheorems

-----------------------------------------------------------------------------
(***************************************************************************)
(* The bringup order and an application (BringupOrder, AppLife).           *)
(***************************************************************************)

NoRepeats(s) == \A i, j \in DOMAIN s : s[i] = s[j] => i = j

\* How many nodes of S are not after n.
Rank(S, n) == Cardinality({m \in S : m <= n})

-----------------------------------------------------------------------------
(* Sequences of nodes.                                                       *)

LEMMA FiniteNodes ==
  ASSUME NEW S \in SUBSET Nodes
  PROVE  IsFiniteSet(S) /\ Cardinality(S) \in Nat
<1>1. IsFiniteSet(Nodes)
  BY OrderAssumption, FS_Interval DEF Nodes
<1> QED
  BY <1>1, FS_Subset, FS_CardinalityType

\* A node has its own rank in S, from one to the size of S.
LEMMA Ranked ==
  ASSUME NEW S \in SUBSET Nodes
  PROVE  /\ \A n \in S : Rank(S, n) \in 1..Cardinality(S)
         /\ \A m, n \in S : Rank(S, m) = Rank(S, n) => m = n
<1>0. S \subseteq Int
  BY OrderAssumption DEF Nodes
<1>1. ASSUME NEW n \in S PROVE Rank(S, n) \in 1..Cardinality(S)
  <2> DEFINE T == {m \in S : m <= n}
  <2>0. n <= n
    BY <1>0, <1>1
  <2>1. T \in SUBSET S /\ T \in SUBSET Nodes /\ T # {}
    BY <1>1, <2>0
  <2>2. Cardinality(T) <= Cardinality(S) /\ Cardinality(T) \in Nat /\ Cardinality(S) \in Nat
    BY <2>1, FiniteNodes, FS_Subset
  <2>3. Cardinality(T) # 0
    BY <2>1, FiniteNodes, FS_EmptySet
  <2> HIDE DEF T
  <2>4. Cardinality(T) \in 1..Cardinality(S)
    BY <2>2, <2>3
  <2> QED
    BY <2>4 DEF Rank, T
<1>2. ASSUME NEW m \in S, NEW n \in S, m < n PROVE Rank(S, m) # Rank(S, n)
  <2> DEFINE A == {k \in S : k <= m}
             B == {k \in S : k <= n}
  <2>0. n <= n /\ ~(n <= m) /\ \A k \in S : k <= m => k <= n
    BY <1>0, <1>2
  <2>1. A \in SUBSET B /\ B \in SUBSET Nodes /\ n \in B /\ n \notin A
    BY <2>0
  <2>2. Cardinality(A) # Cardinality(B)
    BY <2>1, FiniteNodes, FS_Subset
  <2> QED
    BY <2>2 DEF Rank
<1> QED
  BY <1>0, <1>1, <1>2

\* The nodes of S in the order of their declaration, each of them once.
LEMMA Sorted ==
  ASSUME NEW S \in SUBSET Nodes
  PROVE  /\ InDeclarationOrder(S) \in Seq(Nodes)
         /\ Members(InDeclarationOrder(S)) = S
         /\ NoRepeats(InDeclarationOrder(S))
<1> DEFINE c == Cardinality(S)
           f == [n \in S |-> Rank(S, n)]
           q == InDeclarationOrder(S)
<1>1. IsFiniteSet(S) /\ c \in Nat
  BY FiniteNodes
<1>2. IsFiniteSet(1..c) /\ Cardinality(1..c) = c
  BY <1>1, FS_Interval
<1>3. f \in Injection(S, 1..c)
  BY Ranked DEF Injection, IsInjective
<1>4. f \in Surjection(S, 1..c)
  BY <1>1, <1>2, <1>3, FS_Injection
<1>5. \A k \in 1..c : \E n \in S : Rank(S, n) = k
  BY <1>4 DEF Surjection
<1>6. \A k \in 1..c : q[k] \in S /\ Rank(S, q[k]) = k
  BY <1>5 DEF InDeclarationOrder, Rank
<1>7. q \in [1..c -> S] /\ DOMAIN q = 1..c
  BY <1>6 DEF InDeclarationOrder
<1> HIDE DEF q, f
<1>8. q \in Seq(Nodes)
  BY <1>1, <1>7
<1>9. \A n \in S : q[Rank(S, n)] = n
  BY <1>6, Ranked
<1>10. Members(q) = S
  BY <1>7, <1>9, Ranked DEF Members
<1>11. NoRepeats(q)
  BY <1>6, <1>7 DEF NoRepeats
<1> QED
  BY <1>8, <1>10, <1>11 DEF q

LEMMA Joined ==
  ASSUME NEW s \in Seq(Nodes), NEW t \in Seq(Nodes)
  PROVE  /\ s \o t \in Seq(Nodes)
         /\ Members(s \o t) = Members(s) \cup Members(t)
         /\ NoRepeats(s) /\ NoRepeats(t) /\ Members(s) \cap Members(t) = {} => NoRepeats(s \o t)
<1>1. s \o t \in Seq(Nodes) /\ Len(s \o t) = Len(s) + Len(t)
  OBVIOUS
<1>2. \A i \in 1..Len(s) : (s \o t)[i] = s[i]
  OBVIOUS
<1>3. \A i \in 1..Len(t) : (s \o t)[Len(s) + i] = t[i]
  OBVIOUS
<1>4. \A i \in 1..(Len(s) + Len(t)) : i \notin 1..Len(s) =>
         i - Len(s) \in 1..Len(t) /\ (s \o t)[i] = t[i - Len(s)]
  OBVIOUS
<1>5. Members(s \o t) = Members(s) \cup Members(t)
  <2>1. ASSUME NEW i \in 1..(Len(s) + Len(t)) PROVE (s \o t)[i] \in Members(s) \cup Members(t)
    BY <1>2, <1>4 DEF Members
  <2>2. ASSUME NEW i \in 1..Len(s) PROVE s[i] \in Members(s \o t)
    BY <1>1, <1>2 DEF Members
  <2>3. ASSUME NEW i \in 1..Len(t) PROVE t[i] \in Members(s \o t)
    <3>1. Len(s) + i \in DOMAIN (s \o t)
      BY <1>1
    <3> QED
      BY <1>3, <3>1 DEF Members
  <2>4. Members(s \o t) \subseteq Members(s) \cup Members(t)
    BY <1>1, <2>1 DEF Members
  <2>5. Members(s) \subseteq Members(s \o t) /\ Members(t) \subseteq Members(s \o t)
    <3> DEFINE M == Members(s \o t)
    <3>1. DOMAIN s = 1..Len(s) /\ DOMAIN t = 1..Len(t)
      OBVIOUS
    <3>2. (\A i \in 1..Len(s) : s[i] \in M) /\ \A i \in 1..Len(t) : t[i] \in M
      BY <2>2, <2>3
    <3> HIDE DEF M
    <3>3. Members(s) \subseteq M
      BY <3>1, <3>2 DEF Members
    <3>4. Members(t) \subseteq M
      BY <3>1, <3>2 DEF Members
    <3> QED
      BY <3>3, <3>4 DEF M
  <2> QED
    BY <2>4, <2>5
<1>6. ASSUME NoRepeats(s), NoRepeats(t), Members(s) \cap Members(t) = {} PROVE NoRepeats(s \o t)
  <2> SUFFICES ASSUME NEW i \in 1..(Len(s) + Len(t)), NEW j \in 1..(Len(s) + Len(t)),
                      (s \o t)[i] = (s \o t)[j]
               PROVE  i = j
    BY <1>1 DEF NoRepeats
  <2>1. CASE i \in 1..Len(s) /\ j \in 1..Len(s)
    BY <1>2, <1>6, <2>1 DEF NoRepeats
  <2>2. CASE i \notin 1..Len(s) /\ j \notin 1..Len(s)
    <3>1. i - Len(s) = j - Len(s)
      BY <1>4, <1>6, <2>2 DEF NoRepeats
    <3> QED
      BY <3>1
  <2>3. CASE i \in 1..Len(s) /\ j \notin 1..Len(s)
    <3>1. s[i] \in Members(s) /\ t[j - Len(s)] \in Members(t) /\ s[i] = t[j - Len(s)]
      BY <1>2, <1>4, <2>3 DEF Members
    <3> QED
      BY <1>6, <3>1
  <2>4. CASE i \notin 1..Len(s) /\ j \in 1..Len(s)
    <3>1. s[j] \in Members(s) /\ t[i - Len(s)] \in Members(t) /\ s[j] = t[i - Len(s)]
      BY <1>2, <1>4, <2>4 DEF Members
    <3> QED
      BY <1>6, <3>1
  <2> QED
    BY <2>1, <2>2, <2>3, <2>4
<1> QED
  BY <1>1, <1>5, <1>6

LEMMA Popped ==
  ASSUME NEW s \in Seq(Nodes), s # <<>>
  PROVE  /\ Head(s) \in Nodes /\ Tail(s) \in Seq(Nodes)
         /\ Members(s) = {Head(s)} \cup Members(Tail(s))
         /\ NoRepeats(s) => NoRepeats(Tail(s)) /\ Head(s) \notin Members(Tail(s))
<1>1. Len(s) \in Nat \ {0} /\ Head(s) = s[1] /\ Tail(s) \in Seq(Nodes) /\ Len(Tail(s)) = Len(s) - 1
  OBVIOUS
<1>2. \A i \in 1..(Len(s) - 1) : Tail(s)[i] = s[i + 1]
  OBVIOUS
<1>3. \A i \in 1..Len(s) : i # 1 => i - 1 \in 1..(Len(s) - 1) /\ s[i] = Tail(s)[i - 1]
  BY <1>1, <1>2
<1>4. Members(s) = {Head(s)} \cup Members(Tail(s))
  <2> DEFINE d == Tail(s)
  <2>1. DOMAIN s = 1..Len(s) /\ DOMAIN d = 1..(Len(s) - 1) /\ 1 \in 1..Len(s)
    BY <1>1
  <2>2. \A i \in 1..(Len(s) - 1) : d[i] = s[i + 1] /\ i + 1 \in 1..Len(s)
    BY <1>1, <1>2
  <2>3. \A i \in 1..Len(s) : i # 1 => i - 1 \in 1..(Len(s) - 1) /\ s[i] = d[i - 1]
    BY <1>3
  <2> HIDE DEF d
  <2>4. \A x \in Members(d) : x \in Members(s)
    BY <2>1, <2>2 DEF Members
  <2>5. \A x \in Members(s) : x = s[1] \/ x \in Members(d)
    BY <2>1, <2>3 DEF Members
  <2>6. s[1] \in Members(s)
    BY <2>1 DEF Members
  <2> QED
    BY <1>1, <2>4, <2>5, <2>6 DEF d
<1>5. NoRepeats(s) => NoRepeats(Tail(s)) /\ Head(s) \notin Members(Tail(s))
  BY <1>1, <1>2 DEF NoRepeats, Members
<1> QED
  BY <1>1, <1>4, <1>5

LEMMA Appended ==
  ASSUME NEW s \in Seq(Nodes), NEW n \in Nodes
  PROVE  /\ Append(s, n) \in Seq(Nodes)
         /\ Members(Append(s, n)) = Members(s) \cup {n}
         /\ NoRepeats(s) /\ n \notin Members(s) => NoRepeats(Append(s, n))
         /\ Len(Append(s, n)) = Len(s) + 1
         /\ \A i \in 1..Len(s) : Append(s, n)[i] = s[i]
         /\ Append(s, n)[Len(s) + 1] = n
<1>1. Append(s, n) \in Seq(Nodes) /\ Len(Append(s, n)) = Len(s) + 1 /\ Len(s) \in Nat
  OBVIOUS
<1>2. \A i \in 1..Len(s) : Append(s, n)[i] = s[i]
  OBVIOUS
<1>3. Append(s, n)[Len(s) + 1] = n
  OBVIOUS
<1>4. \A i \in 1..(Len(s) + 1) : i \in 1..Len(s) \/ i = Len(s) + 1
  BY <1>1
<1>5. Members(Append(s, n)) = Members(s) \cup {n}
  BY <1>1, <1>2, <1>3, <1>4 DEF Members
<1>6. NoRepeats(s) /\ n \notin Members(s) => NoRepeats(Append(s, n))
  BY <1>1, <1>2, <1>3, <1>4 DEF NoRepeats, Members
<1> QED
  BY <1>1, <1>2, <1>3, <1>5, <1>6

-----------------------------------------------------------------------------
(* What holds of the algorithm, of a graph g and the algorithm's locals k.   *)

\* Every node of the order that is not in cycles follows what it consumes from.
Follows(g, k) ==
  \A i \in DOMAIN k.order : k.order[i] \notin k.cycles =>
    \A p \in g[k.order[i]] : \E j \in 1..(i - 1) : k.order[j] = p

\* The nodes of S wait for one another.
WaitFor(g, S) == \A n \in S : g[n] \cap S # {}

\* Before it returns: what is ordered is done, what is ready is what nothing is
\* missing of, indegree counts the providers that are missing, and of nodes that
\* wait for one another none is done.
Working(g, k) ==
  /\ Members(k.order) = k.done
  /\ NoRepeats(k.ready)
  /\ Members(k.ready) \cap k.done = {}
  /\ k.cycles = {}
  /\ \A m \in Nodes \ k.done : m \in Members(k.ready) <=> g[m] \subseteq k.done
  /\ \A m \in Nodes \ k.done : k.indegree[m] = Cardinality(g[m] \ k.done)
  /\ \A S \in SUBSET Nodes : WaitFor(g, S) => S \cap k.done = {}

Complete(g, k) ==
  /\ Members(k.order) = Nodes
  /\ Len(k.order) = N
  /\ k.cycles = UNION {S \in SUBSET Nodes : WaitFor(g, S)}

KahnInv(g, k) ==
  /\ k \in KahnState
  /\ NoRepeats(k.order)
  /\ Follows(g, k)
  /\ ~k.returned => Working(g, k)
  /\ k.returned => Complete(g, k)

OrderInv ==
  /\ app \in [provides: [Nodes -> SUBSET Names], consumes: [Nodes -> SUBSET Names]]
  /\ kahn = [a \in Algorithms |-> kahn[a]]
  /\ \A a \in Algorithms : KahnInv(edges, kahn[a])

-----------------------------------------------------------------------------
(* The turns of the loop.                                                    *)

LEMMA EdgesType == edges \in [Nodes -> SUBSET Nodes]
BY DEF edges

LEMMA OneLess ==
  ASSUME NEW A \in SUBSET Nodes, NEW n \in A
  PROVE  /\ Cardinality(A) \in Nat
         /\ Cardinality(A \ {n}) = Cardinality(A) - 1
         /\ Cardinality(A) = 1 <=> A = {n}
<1>1. IsFiniteSet(A) /\ Cardinality(A) \in Nat
  BY FiniteNodes
<1>2. Cardinality(A \ {n}) = Cardinality(A) - 1
  BY <1>1, FS_RemoveElement
<1>3. Cardinality(A) = 1 <=> A = {n}
  BY <1>1, FS_Singleton
<1> QED
  BY <1>1, <1>2, <1>3

LEMMA BegunIsWell == KahnInv(edges, Begun)
<1> DEFINE F == {n \in Nodes : edges[n] = {}}
           k == Begun
<1>1. /\ k.ready = InDeclarationOrder(F) /\ k.order = <<>> /\ k.done = {}
      /\ k.indegree = [n \in Nodes |-> Cardinality(edges[n])]
      /\ k.cycles = {} /\ k.returned = FALSE
  BY DEF Begun
<1>2. /\ InDeclarationOrder(F) \in Seq(Nodes) /\ Members(InDeclarationOrder(F)) = F
      /\ NoRepeats(InDeclarationOrder(F))
  BY Sorted
<1>3. \A n \in Nodes : edges[n] \in SUBSET Nodes /\ Cardinality(edges[n]) \in Nat
  BY EdgesType, FiniteNodes
<1>4. k \in KahnState
  <2>1. [n \in Nodes |-> Cardinality(edges[n])] \in [Nodes -> Int]
    BY <1>3
  <2> QED
    BY <1>2, <2>1 DEF KahnState, Begun
<1>5. NoRepeats(k.order) /\ Follows(edges, k) /\ Members(k.order) = {}
  BY <1>1 DEF NoRepeats, Follows, Members
<1>6. Working(edges, k)
  <2>1. \A m \in Nodes \ {} : edges[m] \ {} = edges[m]
    OBVIOUS
  <2>2. \A m \in Nodes \ {} : m \in F <=> edges[m] \subseteq {}
    OBVIOUS
  <2> HIDE DEF F, k
  <2> QED
    BY <1>1, <1>2, <1>5, <2>1, <2>2 DEF Working
<1> HIDE DEF k
<1>7. KahnInv(edges, k)
  BY <1>1, <1>4, <1>5, <1>6 DEF KahnInv
<1> QED
  BY <1>7 DEF k

\* What a node unlocks is what it alone was missing of.
LEMMA Unlocks ==
  ASSUME NEW k \in KahnState, Working(edges, k), NEW n \in Nodes \ k.done
  PROVE  /\ Unlocked(k, n) \in SUBSET Nodes
         /\ \A m \in Nodes \ (k.done \cup {n}) :
              m \in Unlocked(k, n) <=> n \in edges[m] /\ edges[m] \subseteq k.done \cup {n}
<1>1. Unlocked(k, n) \in SUBSET Nodes
  BY DEF Unlocked
<1>2. ASSUME NEW m \in Nodes \ (k.done \cup {n}), n \in edges[m]
      PROVE  k.indegree[m] = 1 <=> edges[m] \subseteq k.done \cup {n}
  <2> DEFINE A == edges[m] \ k.done
  <2>1. A \in SUBSET Nodes /\ n \in A
    BY <1>2, EdgesType
  <2>2. k.indegree[m] = Cardinality(A)
    BY <1>2 DEF Working
  <2>3. k.indegree[m] = 1 <=> A = {n}
    BY <2>1, <2>2, OneLess
  <2> QED
    BY <2>1, <2>3
<1> QED
  BY <1>1, <1>2 DEF Unlocked

\* Whichever way they are queued: what was left and what was unlocked.
LEMMA Queued ==
  ASSUME NEW a \in Algorithms, NEW rest \in Seq(Nodes), NoRepeats(rest),
         NEW u \in SUBSET Nodes, Members(rest) \cap u = {}
  PROVE  /\ Queue(a, rest, u) \in Seq(Nodes)
         /\ Members(Queue(a, rest, u)) = Members(rest) \cup u
         /\ NoRepeats(Queue(a, rest, u))
<1>1. Members(rest) \in SUBSET Nodes
  BY DEF Members
<1>2. Members(rest) \cup u \in SUBSET Nodes
  BY <1>1
<1>3. CASE a = "graph"
  BY <1>2, <1>3, Sorted DEF Queue
<1>4. CASE a # "graph"
  <2>1. /\ InDeclarationOrder(u) \in Seq(Nodes) /\ Members(InDeclarationOrder(u)) = u
        /\ NoRepeats(InDeclarationOrder(u))
    BY Sorted
  <2> QED
    BY <1>4, <2>1, Joined DEF Queue
<1> QED
  BY <1>3, <1>4

LEMMA PopIsWell ==
  ASSUME NEW a \in Algorithms, OrderInv, Pop(a)
  PROVE  KahnInv(edges, kahn'[a])
<1> DEFINE n == Head(kahn[a].ready)
           rest == Tail(kahn[a].ready)
<1>1. PICK k : k = kahn[a]
  OBVIOUS
<1>2. PICK i : i = [m \in Nodes |-> IF m \notin k.done \cup {n} /\ n \in edges[m]
                                    THEN k.indegree[m] - 1 ELSE k.indegree[m]]
  OBVIOUS
<1>3. PICK u : u = Unlocked(k, n)
  OBVIOUS
<1>4. k \in KahnState /\ NoRepeats(k.order) /\ Follows(edges, k) /\ Working(edges, k) /\ ~k.returned
  BY <1>1 DEF OrderInv, KahnInv, Pop
<1>5. k.ready \in Seq(Nodes) /\ k.ready # <<>> /\ k.order \in Seq(Nodes) /\ k.done \in SUBSET Nodes
      /\ k.indegree \in [Nodes -> Int]
  BY <1>1, <1>4 DEF Pop, KahnState
<1>6. /\ NoRepeats(k.ready) /\ Members(k.ready) \cap k.done = {} /\ Members(k.order) = k.done
      /\ k.cycles = {}
  BY <1>4 DEF Working
<1>7. /\ n \in Nodes /\ rest \in Seq(Nodes) /\ Members(k.ready) = {n} \cup Members(rest)
      /\ NoRepeats(rest) /\ n \notin Members(rest)
  BY <1>1, <1>5, <1>6, Popped
<1>8. PICK q : q = Queue(a, rest, u)
  OBVIOUS
<1>9. PICK d : d = [k EXCEPT !.order = Append(k.order, n), !.done = k.done \cup {n},
                             !.indegree = i, !.ready = q]
  OBVIOUS
<1>10. kahn'[a] = d
  <2>1. a \in DOMAIN kahn
    BY DEF OrderInv
  <2>2. kahn'[a] =
          [kahn[a] EXCEPT
             !.order = Append(kahn[a].order, n),
             !.done = kahn[a].done \cup {n},
             !.indegree = [m \in Nodes |-> IF m \notin kahn[a].done \cup {n} /\ n \in edges[m]
                                           THEN kahn[a].indegree[m] - 1 ELSE kahn[a].indegree[m]],
             !.ready = Queue(a, Tail(kahn[a].ready), Unlocked(kahn[a], n))]
    <3>1. kahn' =
           [kahn EXCEPT ![a] =
            [kahn[a] EXCEPT
             !.order = Append(kahn[a].order, n),
             !.done = kahn[a].done \cup {n},
             !.indegree = [m \in Nodes |-> IF m \notin kahn[a].done \cup {n} /\ n \in edges[m]
                                           THEN kahn[a].indegree[m] - 1 ELSE kahn[a].indegree[m]],
             !.ready = Queue(a, Tail(kahn[a].ready), Unlocked(kahn[a], n))]]
      BY DEF Pop
    <3> QED
      BY <2>1, <3>1, Zenon
  <2> QED
    BY <1>1, <1>2, <1>3, <1>8, <1>9, <2>2
<1> HIDE DEF n, rest
<1>11. n \notin k.done
  BY <1>6, <1>7
<1>12. /\ u \in SUBSET Nodes
       /\ \A m \in Nodes \ (k.done \cup {n}) :
            m \in u <=> n \in edges[m] /\ edges[m] \subseteq k.done \cup {n}
  BY <1>3, <1>4, <1>7, <1>11, Unlocks
<1>13. \A m \in Nodes \ k.done : m \in Members(k.ready) <=> edges[m] \subseteq k.done
  BY <1>4 DEF Working
<1>14. u \cap (k.done \cup {n}) = {}
  BY <1>3 DEF Unlocked
<1>15. Members(rest) \cap u = {}
  <2>1. Members(rest) \subseteq Nodes
    BY <1>7 DEF Members
  <2>2. \A m \in Members(rest) : m \in Nodes \ k.done /\ edges[m] \subseteq k.done /\ m # n
    BY <1>6, <1>7, <1>13, <2>1
  <2> QED
    BY <1>11, <1>12, <2>2
<1>16. q \in Seq(Nodes) /\ Members(q) = Members(rest) \cup u /\ NoRepeats(q)
  BY <1>7, <1>8, <1>12, <1>15, Queued
<1>17. /\ Append(k.order, n) \in Seq(Nodes) /\ Members(Append(k.order, n)) = k.done \cup {n}
       /\ NoRepeats(Append(k.order, n)) /\ Len(Append(k.order, n)) = Len(k.order) + 1
       /\ \A j \in 1..Len(k.order) : Append(k.order, n)[j] = k.order[j]
       /\ Append(k.order, n)[Len(k.order) + 1] = n
  BY <1>4, <1>5, <1>6, <1>7, <1>11, Appended
<1>18. i \in [Nodes -> Int]
  BY <1>2, <1>5
<1>19. /\ d \in KahnState
       /\ d.order = Append(k.order, n) /\ d.done = k.done \cup {n} /\ d.indegree = i /\ d.ready = q
       /\ d.cycles = {} /\ d.returned = k.returned
  <2>1. k.done \cup {n} \in SUBSET Nodes
    BY <1>5, <1>7
  <2> QED
    <3> DEFINE o == Append(k.order, n)
               D == k.done \cup {n}
    <3>1. d = [k EXCEPT !.order = o, !.done = D, !.indegree = i, !.ready = q]
      BY <1>9
    <3>2. k \in KahnState /\ q \in Seq(Nodes) /\ o \in Seq(Nodes) /\ D \in SUBSET Nodes
      BY <1>4, <1>16, <1>17, <2>1
    <3> HIDE DEF o, D
    <3>3. /\ d \in KahnState
          /\ d.order = o /\ d.done = D /\ d.indegree = i /\ d.ready = q
          /\ d.cycles = k.cycles /\ d.returned = k.returned
      BY <1>18, <3>1, <3>2 DEF KahnState
    <3> QED
      BY <1>6, <3>3 DEF o, D
<1>20. Follows(edges, d)
  <2>1. edges[n] \subseteq k.done
    BY <1>7, <1>11, <1>13
  <2>2. \A p \in k.done : \E j \in 1..Len(k.order) : k.order[j] = p
    BY <1>5, <1>6 DEF Members
  <2>3. \A j \in DOMAIN k.order : \A p \in edges[k.order[j]] : \E h \in 1..(j - 1) : k.order[h] = p
    BY <1>4, <1>6 DEF Follows
  <2>4. DOMAIN k.order = 1..Len(k.order) /\ DOMAIN d.order = 1..(Len(k.order) + 1) /\ Len(k.order) \in Nat
    BY <1>5, <1>17, <1>19
  <2>5. ASSUME NEW j \in 1..(Len(k.order) + 1), NEW p \in edges[d.order[j]]
        PROVE  \E h \in 1..(j - 1) : d.order[h] = p
    <3>1. CASE j \in 1..Len(k.order)
      <4>0. d.order[j] = k.order[j]
        BY <1>17, <1>19, <3>1
      <4>1. PICK h \in 1..(j - 1) : k.order[h] = p
        BY <2>3, <2>4, <2>5, <3>1, <4>0
      <4>2. h \in 1..Len(k.order)
        BY <2>4, <3>1
      <4> QED
        BY <1>17, <1>19, <4>1, <4>2
    <3>2. CASE j = Len(k.order) + 1
      <4>1. p \in k.done
        BY <1>17, <1>19, <2>1, <2>5, <3>2
      <4>2. PICK h \in 1..Len(k.order) : k.order[h] = p
        BY <2>2, <4>1
      <4>3. h \in 1..(j - 1)
        BY <2>4, <3>2
      <4> QED
        BY <1>17, <1>19, <4>2, <4>3
    <3> QED
      BY <2>4, <3>1, <3>2
  <2> QED
    BY <2>4, <2>5 DEF Follows
<1>21. Working(edges, d)
  <2>1. Members(q) \cap (k.done \cup {n}) = {}
    BY <1>6, <1>7, <1>14, <1>16
  <2>2. ASSUME NEW m \in Nodes \ (k.done \cup {n})
        PROVE  m \in Members(q) <=> edges[m] \subseteq k.done \cup {n}
    <3>1. CASE n \in edges[m]
      <4>1. m \notin Members(rest)
        BY <1>7, <1>11, <1>13, <2>2, <3>1
      <4> QED
        BY <1>12, <1>16, <2>2, <3>1, <4>1
    <3>2. CASE n \notin edges[m]
      <4>1. edges[m] \subseteq k.done \cup {n} <=> edges[m] \subseteq k.done
        BY <3>2
      <4>2. m \in Members(rest) <=> edges[m] \subseteq k.done
        BY <1>7, <1>13, <2>2
      <4> QED
        BY <1>12, <1>16, <2>2, <3>2, <4>1, <4>2
    <3> QED
      BY <3>1, <3>2
  <2>3. ASSUME NEW m \in Nodes \ (k.done \cup {n})
        PROVE  i[m] = Cardinality(edges[m] \ (k.done \cup {n}))
    <3>1. k.indegree[m] = Cardinality(edges[m] \ k.done)
      BY <1>4, <2>3 DEF Working
    <3>2. edges[m] \ k.done \in SUBSET Nodes
      BY <2>3, EdgesType
    <3>3. CASE n \in edges[m]
      <4>1. edges[m] \ (k.done \cup {n}) = (edges[m] \ k.done) \ {n} /\ n \in edges[m] \ k.done
        BY <1>11, <3>3
      <4>2. Cardinality((edges[m] \ k.done) \ {n}) = Cardinality(edges[m] \ k.done) - 1
        BY <3>2, <4>1, OneLess
      <4> QED
        BY <1>2, <2>3, <3>1, <3>3, <4>1, <4>2
    <3>4. CASE n \notin edges[m]
      <4>1. edges[m] \ (k.done \cup {n}) = edges[m] \ k.done
        BY <3>4
      <4> QED
        BY <1>2, <2>3, <3>1, <3>4, <4>1
    <3> QED
      BY <3>3, <3>4
  <2>4. ASSUME NEW S \in SUBSET Nodes, WaitFor(edges, S) PROVE S \cap (k.done \cup {n}) = {}
    <3>1. S \cap k.done = {}
      BY <1>4, <2>4 DEF Working
    <3>2. edges[n] \subseteq k.done
      BY <1>7, <1>11, <1>13
    <3>3. n \notin S
      BY <2>4, <3>1, <3>2 DEF WaitFor
    <3> QED
      BY <3>1, <3>3
  <2> QED
    BY <1>16, <1>17, <1>19, <2>1, <2>2, <2>3, <2>4 DEF Working
<1>22. KahnInv(edges, d)
  BY <1>4, <1>17, <1>19, <1>20, <1>21 DEF KahnInv
<1> QED
  BY <1>10, <1>22

LEMMA ReturnIsWell ==
  ASSUME NEW a \in Algorithms, OrderInv, Return(a)
  PROVE  KahnInv(edges, kahn'[a])
<1>1. PICK k : k = kahn[a]
  OBVIOUS
<1>2. PICK C : C = Nodes \ k.done
  OBVIOUS
<1>3. PICK o : o = k.order \o InDeclarationOrder(C)
  OBVIOUS
<1>4. PICK d : d = [k EXCEPT !.order = o, !.cycles = C, !.returned = TRUE]
  OBVIOUS
<1>5. kahn'[a] = d
  <2>1. a \in DOMAIN kahn
    BY DEF OrderInv
  <2>2. kahn'[a] = [kahn[a] EXCEPT !.order = kahn[a].order \o InDeclarationOrder(Nodes \ kahn[a].done),
                                   !.cycles = Nodes \ kahn[a].done, !.returned = TRUE]
    BY <2>1, Zenon DEF Return
  <2> QED
    BY <1>1, <1>2, <1>3, <1>4, <2>2
<1>6. /\ k \in KahnState /\ NoRepeats(k.order) /\ Follows(edges, k)
      /\ Working(edges, k) /\ k.ready = <<>>
  BY <1>1 DEF OrderInv, KahnInv, Return
<1>7. k.order \in Seq(Nodes) /\ k.done \in SUBSET Nodes /\ C \in SUBSET Nodes
  BY <1>2, <1>6 DEF KahnState
<1>8. /\ InDeclarationOrder(C) \in Seq(Nodes) /\ Members(InDeclarationOrder(C)) = C
      /\ NoRepeats(InDeclarationOrder(C))
  BY <1>7, Sorted
<1>9. Members(k.order) = k.done /\ Members(k.ready) = {} /\ k.cycles = {}
  BY <1>6 DEF Working, Members
<1>10. o \in Seq(Nodes) /\ Members(o) = Nodes /\ NoRepeats(o)
  <2> DEFINE t == InDeclarationOrder(C)
  <2>1. t \in Seq(Nodes) /\ Members(t) = C /\ NoRepeats(t)
    BY <1>8
  <2>2. Members(k.order) \cap Members(t) = {} /\ Members(k.order) \cup Members(t) = Nodes
    BY <1>2, <1>7, <1>9, <2>1
  <2> HIDE DEF t
  <2>3. k.order \o t \in Seq(Nodes) /\ Members(k.order \o t) = Nodes /\ NoRepeats(k.order \o t)
    BY <1>6, <1>7, <2>1, <2>2, Joined
  <2> QED
    BY <1>3, <2>3 DEF t
<1>11. /\ d \in KahnState
       /\ d.order = o /\ d.cycles = C /\ d.returned
  <2>1. k \in KahnState /\ o \in Seq(Nodes) /\ C \in SUBSET Nodes
    BY <1>6, <1>7, <1>10
  <2> QED
    BY <1>4, <2>1 DEF KahnState
<1>12. Len(o) = N
  <2>1. o \in [1..Len(o) -> Nodes] /\ Len(o) \in Nat /\ DOMAIN o = 1..Len(o)
    BY <1>10
  <2>2. o \in Injection(1..Len(o), Nodes)
    BY <1>10, <2>1 DEF NoRepeats, Injection, IsInjective
  <2>3. o \in Surjection(1..Len(o), Nodes)
    BY <1>10, <2>1 DEF Members, Surjection
  <2>4. o \in Bijection(1..Len(o), Nodes)
    BY <2>2, <2>3 DEF Bijection
  <2>5. Cardinality(Nodes) = Len(o)
    BY <2>1, <2>4, FS_CountingElements DEF ExistsBijection
  <2>6. Cardinality(Nodes) = N
    BY OrderAssumption, FS_Interval DEF Nodes
  <2> QED
    BY <2>5, <2>6
<1>13. Follows(edges, d)
  <2>1. \A i \in DOMAIN k.order : \A p \in edges[k.order[i]] : \E j \in 1..(i - 1) : k.order[j] = p
    BY <1>6, <1>9 DEF Follows
  <2>2. DOMAIN o = 1..Len(o) /\ DOMAIN k.order = 1..Len(k.order) /\ Len(k.order) \in Nat
    BY <1>7, <1>10
  <2>3. \A i \in 1..Len(k.order) : o[i] = k.order[i]
    BY <1>3, <1>7, <1>8
  <2>4. \A i \in 1..Len(o) : i \notin 1..Len(k.order) => o[i] \in C
    <3>1. \A i \in 1..Len(o) : i \notin 1..Len(k.order) =>
            /\ i - Len(k.order) \in DOMAIN InDeclarationOrder(C)
            /\ o[i] = InDeclarationOrder(C)[i - Len(k.order)]
      BY <1>3, <1>7, <1>8
    <3> QED
      BY <1>8, <3>1 DEF Members
  <2>5. ASSUME NEW i \in 1..Len(o), o[i] \notin C, NEW p \in edges[o[i]]
        PROVE  \E j \in 1..(i - 1) : o[j] = p
    <3>1. i \in 1..Len(k.order) /\ o[i] = k.order[i]
      BY <2>3, <2>4, <2>5
    <3>2. PICK j \in 1..(i - 1) : k.order[j] = p
      BY <2>1, <2>2, <2>5, <3>1
    <3>3. j \in 1..Len(k.order)
      BY <2>2, <3>1
    <3> QED
      BY <2>3, <3>2, <3>3
  <2> QED
    BY <1>11, <2>2, <2>5 DEF Follows
<1>14. \A n \in C : edges[n] \cap C # {}
  <2>1. \A n \in Nodes \ k.done : n \in Members(k.ready) <=> edges[n] \subseteq k.done
    BY <1>6 DEF Working
  <2>2. \A n \in C : ~(edges[n] \subseteq k.done) /\ edges[n] \subseteq Nodes
    BY <1>2, <1>9, <2>1, EdgesType
  <2> QED
    BY <1>2, <2>2
<1>15. C = UNION {S \in SUBSET Nodes : WaitFor(edges, S)}
  <2>1. WaitFor(edges, C)
    BY <1>14 DEF WaitFor
  <2>2. \A S \in SUBSET Nodes : WaitFor(edges, S) => S \subseteq C
    BY <1>2, <1>6 DEF Working
  <2> QED
    BY <1>7, <2>1, <2>2
<1>16. KahnInv(edges, d)
  BY <1>10, <1>11, <1>12, <1>13, <1>15 DEF KahnInv, Complete
<1> QED
  BY <1>5, <1>16

LEMMA OrderTurns ==
  ASSUME NEW a \in Algorithms, OrderInv, Pop(a) \/ Return(a)
  PROVE  OrderInv'
<1>1. KahnInv(edges, kahn'[a])
  BY PopIsWell, ReturnIsWell
<1>2. app' = app
  BY DEF Pop, Return
<1>3. edges' = edges
  BY <1>2 DEF edges
<1>4. kahn' = [b \in Algorithms |-> kahn'[b]] /\ \A b \in Algorithms \ {a} : kahn'[b] = kahn[b]
  <2>1. kahn = [b \in Algorithms |-> kahn[b]]
    BY DEF OrderInv
  <2>2. PICK d : kahn' = [kahn EXCEPT ![a] = d]
    BY Zenon DEF Pop, Return
  <2> QED
    BY <2>1, <2>2
<1>5. ASSUME NEW b \in Algorithms PROVE KahnInv(edges, kahn'[b])
  BY <1>1, <1>4 DEF OrderInv
<1>6. (\A b \in Algorithms : KahnInv(edges, kahn[b]))'
  <2>1. \A b \in Algorithms : KahnInv(edges', kahn'[b])
    BY <1>3, <1>5
  <2> QED
    BY <2>1 DEF KahnInv, Follows, Working, WaitFor, Complete, NoRepeats, Members
<1> QED
  BY <1>2, <1>4, <1>6 DEF OrderInv

LEMMA OrderStarts == OrderInit => OrderInv
<1> SUFFICES ASSUME OrderInit PROVE OrderInv
  OBVIOUS
<1>1. app \in [provides: [Nodes -> SUBSET Names], consumes: [Nodes -> SUBSET Names]]
  BY OrderAssumption DEF OrderInit
<1>2. kahn = [a \in Algorithms |-> Begun]
  BY DEF OrderInit
<1> QED
  BY <1>1, <1>2, BegunIsWell DEF OrderInv

\* The invariant is enough for what the order owes its callers.
LEMMA OrderIsEnough == OrderInv => OrderIsRight
<1> SUFFICES ASSUME OrderInv PROVE OrderIsRight
  OBVIOUS
<1>1. OrderTypeOK
  BY DEF OrderInv, OrderTypeOK, KahnInv
<1>2. ProvidersFirst
  BY DEF OrderInv, KahnInv, Follows, ProvidersFirst
<1>3. OrderIsComplete
  BY DEF OrderInv, KahnInv, Complete, OrderIsComplete
<1>4. CyclesAreReal
  BY DEF OrderInv, KahnInv, Complete, CyclesAreReal, Deadlocked, WaitFor
<1> QED
  BY <1>1, <1>2, <1>3, <1>4 DEF OrderIsRight

-----------------------------------------------------------------------------
(* What holds of an application.                                             *)

\* The transitions that end in Finalized.
ShutDowns == {"unconfiguredShutdown", "inactiveShutdown", "activeShutdown"}

\* A node is in at most one transition, and moves while it is in one.
Held ==
  /\ state \in [Nodes -> Primary \cup {"moving"}]
  /\ call \in [Callers -> Calls]
  /\ \A n \in Nodes : state[n] = "moving" <=> \E c \in Callers : call[c].node = n
  /\ call["run"] # NoCall => call["run"].node # call["tool"].node

Phases == {"order", "bringUp", "running", "check", "deactivate", "choose", "shutdown", "stopped"}

Typed ==
  /\ pc \in Phases
  /\ at \in 0..(N + 1)
  /\ chosen \in Transitions \cup {"none"}
  /\ asked \in 0..MaxAsked
  /\ touched \subseteq Nodes /\ failed \subseteq Nodes

\* The node a tool is at is touched.
ToolTouches == call["tool"] # NoCall => call["tool"].node \in touched

InShutDown == pc \in {"check", "deactivate", "choose", "shutdown"}

\* Where Run is, and what it is about to ask for.
RunPlace ==
  /\ pc # "order" => kahn["bringup"].returned
  /\ pc = "bringUp" => at # 0 /\ chosen \in {"configure", "activate"}
  /\ InShutDown => at \in 1..N
  /\ pc = "stopped" => at = N + 1
  /\ pc = "deactivate" => chosen = "deactivate"
  /\ pc = "shutdown" => chosen \in ShutDowns

\* The call Run is in is the one it was about to make.
RunCall ==
  call["run"] # NoCall =>
    /\ pc \in {"bringUp", "deactivate", "shutdown"}
    /\ at \in 1..N
    /\ call["run"].node = Here
    /\ call["run"].t = chosen

Excused(n) == n \in touched \cup failed

\* What is behind bringUp is active.
Up ==
  pc = "bringUp" =>
    \A j \in 1..N : j < at => state[order[j]] = "Active" \/ order[j] \in touched

\* What is behind shutDown is finalized.
Down ==
  InShutDown \/ pc = "stopped" =>
    \A j \in 1..N : j < at =>
      state[order[N + 1 - j]] = "Finalized" \/ Excused(order[N + 1 - j])

\* What shutDown is about to ask for is what the node's state allows.
Suited ==
  call["run"] = NoCall =>
    /\ pc = "deactivate" => state[Here] = "Active" \/ Excused(Here)
    /\ pc = "shutdown" =>
         (state[Here] \in Primary /\ shutdownFor(state[Here]) = chosen) \/ Excused(Here)

AppInv ==
  /\ OrderInv /\ Held /\ Typed
  /\ ToolTouches /\ RunPlace /\ RunCall
  /\ Up /\ Down /\ Suited

-----------------------------------------------------------------------------
(* Transitions.                                                              *)

LEMMA Table ==
  /\ \A row \in transitionTable : /\ row.from \in Primary /\ row.goal \in Primary
                                  /\ row.t \in Transitions
                                  /\ row.t = "activate" => row.goal = "Active"
                                  /\ row.t \in ShutDowns => row.goal = "Finalized"
  /\ \E row \in transitionTable : row.from = "Active" /\ row.t = "deactivate"
  /\ {"configure", "activate", "deactivate"} \cup ShutDowns \subseteq Transitions
  /\ "none" \notin Transitions
BY DEF transitionTable, Transitions, Primary, ShutDowns

LEMMA ShutDownValid ==
  ASSUME NEW s \in Primary
  PROVE  /\ shutdownFor(s) \in ShutDowns \cup {"none"}
         /\ shutdownFor(s) = "none" => s = "Finalized"
         /\ shutdownFor(s) # "none" =>
              \E row \in transitionTable : row.from = s /\ row.t = shutdownFor(s)
BY DEF shutdownFor, transitionTable, Primary, ShutDowns

LEMMA ACall ==
  ASSUME NEW x \in Calls
  PROVE  /\ NoCall \in Calls /\ NoCall.node = 0 /\ 0 \notin Nodes
         /\ x # NoCall => /\ x.node \in Nodes
                          /\ x.from \in Primary /\ x.goal \in Primary /\ x.t \in Transitions
                          /\ x.t = "activate" => x.goal = "Active"
                          /\ x.t \in ShutDowns => x.goal = "Finalized"
<1>1. NoCall \in Calls /\ NoCall.node = 0 /\ 0 \notin Nodes
  BY OrderAssumption DEF Calls, NoCall, Nodes
<1>2. ASSUME x # NoCall
      PROVE  \E n \in Nodes, row \in transitionTable :
               x = [node |-> n, from |-> row.from, goal |-> row.goal, t |-> row.t]
  BY <1>2 DEF Calls
<1>3. ASSUME x # NoCall
      PROVE  /\ x.node \in Nodes
             /\ x.from \in Primary /\ x.goal \in Primary /\ x.t \in Transitions
             /\ x.t = "activate" => x.goal = "Active"
             /\ x.t \in ShutDowns => x.goal = "Finalized"
  <2>1. PICK n \in Nodes, row \in transitionTable :
               x = [node |-> n, from |-> row.from, goal |-> row.goal, t |-> row.t]
    BY <1>2, <1>3
  <2> QED
    BY <2>1, Table
<1> QED
  BY <1>1, <1>3

Other(c) == IF c = "run" THEN "tool" ELSE "run"

LEMMA Begins ==
  ASSUME Held, NEW c \in Callers, NEW n \in Nodes, NEW t, Begin(c, n, t)
  PROVE  /\ Held'
         /\ state[n] \in Primary /\ t \in Transitions
         /\ state' = [state EXCEPT ![n] = "moving"]
         /\ call[c] = NoCall /\ call'[c] # NoCall
         /\ call'[c].node = n /\ call'[c].t = t
         /\ call'[Other(c)] = call[Other(c)] /\ call[Other(c)].node # n
<1>1. PICK row \in transitionTable :
        /\ row.from = state[n] /\ row.t = t
        /\ call' = [call EXCEPT ![c] = [node |-> n, from |-> row.from, goal |-> row.goal, t |-> t]]
  BY DEF Begin
<1> DEFINE x == [node |-> n, from |-> row.from, goal |-> row.goal, t |-> t]
<1>2. x \in Calls /\ x # NoCall /\ x.node = n /\ x.t = t /\ t \in Transitions
  <2>1. x \in Calls /\ x.node = n /\ x.t = t
    BY <1>1 DEF Calls
  <2>2. NoCall.node = 0 /\ 0 \notin Nodes
    BY <2>1, ACall
  <2>3. t \in Transitions
    BY <1>1, Table
  <2> QED
    BY <2>1, <2>2, <2>3
<1>3. state[n] \in Primary /\ state[n] # "moving"
  BY <1>1, Table DEF Primary
<1>4. state' = [state EXCEPT ![n] = "moving"] /\ call[c] = NoCall
  BY DEF Begin
<1>5. call' = [call EXCEPT ![c] = x]
  BY <1>1
<1> HIDE DEF x
<1>6. state \in [Nodes -> Primary \cup {"moving"}] /\ call \in [Callers -> Calls]
  BY DEF Held
<1>7. Other(c) \in Callers /\ Other(c) # c /\ \A b \in Callers : b = c \/ b = Other(c)
  BY DEF Other, Callers
<1>8. call'[c] = x /\ call'[Other(c)] = call[Other(c)]
  BY <1>5, <1>6, <1>7
<1>9. call[Other(c)].node # n
  BY <1>3, <1>7 DEF Held
<1>10. state' \in [Nodes -> Primary \cup {"moving"}] /\ call' \in [Callers -> Calls]
  BY <1>2, <1>4, <1>5, <1>6
<1>11. ASSUME NEW m \in Nodes
       PROVE  state'[m] = "moving" <=> \E b \in Callers : call'[b].node = m
  <2>1. state[m] = "moving" <=> call[c].node = m \/ call[Other(c)].node = m
    BY <1>7 DEF Held
  <2>2. call[c].node = 0 /\ m # 0
    BY <1>4, <1>6, ACall
  <2>3. state'[m] = IF m = n THEN "moving" ELSE state[m]
    BY <1>4, <1>6
  <2>4. (\E b \in Callers : call'[b].node = m) <=> n = m \/ call[Other(c)].node = m
    BY <1>2, <1>7, <1>8
  <2> QED
    BY <2>1, <2>2, <2>3, <2>4
<1>12. call'["run"].node # call'["tool"].node
  BY <1>2, <1>7, <1>8, <1>9 DEF Other, Callers
<1>13. Held'
  BY <1>10, <1>11, <1>12 DEF Held
<1> QED
  BY <1>2, <1>3, <1>4, <1>8, <1>9, <1>13

LEMMA Settles ==
  ASSUME Held, NEW c \in Callers, NEW ok \in BOOLEAN, Settle(c, ok)
  PROVE  /\ Held'
         /\ call[c] # NoCall /\ call'[c] = NoCall
         /\ call'[Other(c)] = call[Other(c)]
         /\ call[c].node \in Nodes
         /\ state'[call[c].node] = (IF ok THEN call[c].goal ELSE call[c].from)
         /\ \A m \in Nodes \ {call[c].node} : state'[m] = state[m]
<1>1. PICK x : x = call[c]
  OBVIOUS
<1>2. state \in [Nodes -> Primary \cup {"moving"}] /\ call \in [Callers -> Calls]
  BY DEF Held
<1>3. PICK s : s = IF ok THEN x.goal ELSE x.from
  OBVIOUS
<1>4. /\ x # NoCall /\ call' = [call EXCEPT ![c] = NoCall]
      /\ state' = [state EXCEPT ![x.node] = s]
  BY <1>1, <1>3 DEF Settle
<1>5. /\ x \in Calls /\ x.node \in Nodes /\ s \in Primary
      /\ NoCall \in Calls /\ NoCall.node = 0 /\ 0 \notin Nodes
  BY <1>1, <1>2, <1>3, <1>4, ACall
<1>6. Other(c) \in Callers /\ Other(c) # c /\ \A b \in Callers : b = c \/ b = Other(c)
  BY DEF Other, Callers
<1>7. call'[c] = NoCall /\ call'[Other(c)] = call[Other(c)]
  BY <1>2, <1>4, <1>6
<1>8. call[Other(c)].node # x.node
  <2>1. CASE c = "run"
    BY <1>1, <1>4, <2>1 DEF Held, Other
  <2>2. CASE c = "tool"
    <3>1. CASE call["run"] # NoCall
      BY <1>1, <2>2, <3>1 DEF Held, Other
    <3>2. CASE call["run"] = NoCall
      BY <1>5, <2>2, <3>2 DEF Other
    <3> QED
      BY <3>1, <3>2
  <2> QED
    BY <2>1, <2>2 DEF Callers
<1>9. state' \in [Nodes -> Primary \cup {"moving"}] /\ call' \in [Callers -> Calls]
  BY <1>2, <1>4, <1>5
<1>10. ASSUME NEW m \in Nodes
       PROVE  state'[m] = "moving" <=> \E b \in Callers : call'[b].node = m
  <2>1. state[m] = "moving" <=> x.node = m \/ call[Other(c)].node = m
    BY <1>1, <1>6 DEF Held
  <2>2. state'[m] = IF m = x.node THEN s ELSE state[m]
    BY <1>2, <1>4
  <2>3. s # "moving"
    BY <1>5 DEF Primary
  <2>4. (\E b \in Callers : call'[b].node = m) <=> call[Other(c)].node = m
    BY <1>5, <1>6, <1>7
  <2> QED
    BY <1>8, <2>1, <2>2, <2>3, <2>4
<1>11. call'["run"] # NoCall => call'["run"].node # call'["tool"].node
  BY <1>5, <1>6, <1>7, <1>9, ACall DEF Other, Callers
<1>12. Held'
  BY <1>9, <1>10, <1>11 DEF Held
<1>13. state'[x.node] = s /\ \A m \in Nodes \ {x.node} : state'[m] = state[m]
  BY <1>2, <1>4, <1>5
<1> QED
  BY <1>1, <1>3, <1>4, <1>5, <1>7, <1>12, <1>13

-----------------------------------------------------------------------------
(* Where Run goes.                                                           *)

\* The order, once it is there, names every node once.
LEMMA Places ==
  ASSUME OrderInv, kahn["bringup"].returned
  PROVE  /\ DOMAIN order = 1..N /\ Len(order) = N
         /\ \A i \in 1..N : order[i] \in Nodes
         /\ \A i, j \in 1..N : order[i] = order[j] => i = j
         /\ \A n \in Nodes : \E i \in 1..N : order[i] = n
         /\ \A p, i : NodeAt(p, i) = IF p = "bringUp" THEN order[i] ELSE order[N + 1 - i]
<1>1. KahnInv(edges, kahn["bringup"])
  BY DEF OrderInv, Algorithms
<1>2. order \in Seq(Nodes) /\ NoRepeats(order) /\ Members(order) = Nodes /\ Len(order) = N
  BY <1>1 DEF KahnInv, KahnState, Complete, order
<1>3. DOMAIN order = 1..N /\ \A i \in 1..N : order[i] \in Nodes
  BY <1>2
<1> QED
  BY <1>2, <1>3 DEF NoRepeats, Members, NodeAt

LEMMA OrderFrame ==
  ASSUME OrderInv, UNCHANGED orderVars
  PROVE  OrderInv' /\ order' = order /\ edges' = edges /\ kahn' = kahn
<1>1. app' = app /\ kahn' = kahn /\ edges' = edges
  BY DEF orderVars, edges
<1>2. \A b \in Algorithms : KahnInv(edges', kahn'[b])
  BY <1>1 DEF OrderInv
<1>3. (\A b \in Algorithms : KahnInv(edges, kahn[b]))'
  BY <1>2 DEF KahnInv, Follows, Working, WaitFor, Complete, NoRepeats, Members
<1> QED
  BY <1>1, <1>3 DEF OrderInv, order

LEMMA HeldFrame ==
  ASSUME Held, state' = state, call' = call
  PROVE  Held'
BY DEF Held

LEMMA Comes ==
  ASSUME NEW p, NEW i, ComeTo(p, i)
  PROVE  /\ pc' = p /\ at' = i
         /\ touched' \subseteq touched
         /\ \A n \in touched : n \in touched' \/ (i \in DOMAIN order /\ n = NodeAt(p, i))
         /\ call["tool"].node \in touched => call["tool"].node \in touched'
BY DEF ComeTo

\* shutDown begins with the last node of the order.
LEMMA Enters ==
  ASSUME AppInv, OrderInv', Held', kahn' = kahn, order' = order, pc # "order",
         EnterShutDown, call'["run"] = NoCall, call'["tool"] = call["tool"],
         asked' = asked, failed' = failed
  PROVE  AppInv'
<1>1. /\ pc' = "check" /\ at' = 1 /\ chosen' = "none" /\ touched' \subseteq touched
      /\ call["tool"].node \in touched => call["tool"].node \in touched'
  BY Comes DEF EnterShutDown
<1>2. N \in Nat /\ N # 0
  BY OrderAssumption, AppAssumption
<1>3. Typed'
  BY <1>1, <1>2 DEF AppInv, Typed, Phases
<1>4. ToolTouches'
  BY <1>1 DEF AppInv, ToolTouches
<1>5. RunPlace'
  BY <1>1, <1>2 DEF AppInv, RunPlace, InShutDown
<1>6. RunCall' /\ Up' /\ Suited'
  BY <1>1 DEF RunCall, Up, Suited
<1>7. Down'
  <2>1. \A j \in 1..N : ~(j < at')
    BY <1>1, <1>2
  <2> QED
    BY <2>1 DEF Down
<1> QED
  BY <1>3, <1>4, <1>5, <1>6, <1>7 DEF AppInv

\* shutDown leaves a node that is finalized, or excused, for the next.
LEMMA GoesDown ==
  ASSUME AppInv, OrderInv', Held', kahn' = kahn, order' = order, pc \in {"choose", "shutdown"},
         NextDown, call'["run"] = NoCall, call'["tool"] = call["tool"], chosen' = "none",
         asked' = asked, failed \subseteq failed', failed' \subseteq Nodes,
         \A n \in Nodes \ {Here} : state'[n] = state[n],
         state'[Here] = "Finalized" \/ Here \in touched \cup failed'
  PROVE  AppInv'
<1>0. N \in Nat /\ N # 0
  BY OrderAssumption, AppAssumption
<1>1. /\ pc' = (IF at = N THEN "stopped" ELSE "check") /\ at' = at + 1
      /\ touched' \subseteq touched
      /\ \A n \in touched : n \in touched' \/ (at + 1 \in DOMAIN order /\ n = NodeAt(pc', at + 1))
      /\ call["tool"].node \in touched => call["tool"].node \in touched'
  BY Comes DEF NextDown
<1>2. at \in 1..N /\ kahn["bringup"].returned
  BY DEF AppInv, RunPlace, InShutDown
<1>3. Typed'
  BY <1>0, <1>1, <1>2 DEF AppInv, Typed, Phases
<1>4. ToolTouches'
  BY <1>1 DEF AppInv, ToolTouches
<1>5. RunPlace'
  BY <1>0, <1>1, <1>2 DEF AppInv, RunPlace, InShutDown
<1>6. RunCall' /\ Up' /\ Suited'
  BY <1>1 DEF RunCall, Up, Suited
<1>7. Down'
  <2>1. /\ DOMAIN order = 1..N
        /\ \A i \in 1..N : order[i] \in Nodes
        /\ \A i, j \in 1..N : order[i] = order[j] => i = j
        /\ Here = order[N + 1 - at] /\ NodeAt(pc', at + 1) = order[N + 1 - (at + 1)]
    <3>1. /\ DOMAIN order = 1..N /\ Len(order) = N
          /\ \A i \in 1..N : order[i] \in Nodes
          /\ \A i, j \in 1..N : order[i] = order[j] => i = j
      BY <1>2, Places DEF AppInv
    <3>2. pc # "bringUp" /\ pc' # "bringUp"
      BY <1>1
    <3> QED
      BY <3>1, <3>2 DEF Here, NodeAt
  <2>2. ASSUME NEW j \in 1..N, j < at + 1
        PROVE  state'[order[N + 1 - j]] = "Finalized" \/ order[N + 1 - j] \in touched' \cup failed'
    <3> DEFINE n == order[N + 1 - j]
    <3>1. N + 1 - j \in 1..N /\ N + 1 - at \in 1..N
      BY <1>0, <1>2
    <3>2. n \in Nodes
      BY <2>1, <3>1
    <3>3. at + 1 \in 1..N => n # order[N + 1 - (at + 1)]
      <4>1. at + 1 \in 1..N => N + 1 - (at + 1) \in 1..N /\ N + 1 - (at + 1) # N + 1 - j
        BY <1>0, <1>2, <2>2
      <4> QED
        BY <2>1, <3>1, <4>1
    <3>4. n \in touched => n \in touched'
      BY <1>1, <2>1, <3>3
    <3>5. CASE j = at
      BY <2>1, <3>4, <3>5
    <3>6. CASE j # at
      <4>1. j < at
        BY <1>2, <2>2, <3>6
      <4>2. state[n] = "Finalized" \/ n \in touched \cup failed
        BY <4>1 DEF AppInv, Down, InShutDown, Excused
      <4>3. N + 1 - j # N + 1 - at
        BY <1>0, <1>2, <4>1
      <4>4. n # Here
        BY <2>1, <3>1, <4>3
      <4>5. state'[n] = state[n]
        BY <3>2, <4>4
      <4> QED
        BY <3>4, <4>2, <4>5
    <3> QED
      BY <3>5, <3>6
  <2> QED
    BY <1>1, <2>2 DEF Down, Excused
<1> QED
  BY <1>3, <1>4, <1>5, <1>6, <1>7 DEF AppInv

-----------------------------------------------------------------------------
(* The actions.                                                              *)

LEMMA OrderStep == AppInv /\ (CheckOrder \/ ComputeOrder) => AppInv'
<1> SUFFICES ASSUME AppInv, CheckOrder \/ ComputeOrder PROVE AppInv'
  OBVIOUS
<1>1. UNCHANGED <<state, pc, at, chosen, call, asked, touched, failed>>
  BY DEF CheckOrder, ComputeOrder, appVars
<1>2. PICK a \in Algorithms : Pop(a) \/ Return(a)
  BY DEF CheckOrder, ComputeOrder, Algorithms
<1>3. OrderInv'
  BY <1>2, OrderTurns DEF AppInv
<1>4. Held' /\ Typed' /\ ToolTouches'
  BY <1>1 DEF AppInv, Held, Typed, ToolTouches
<1>5. CASE kahn["bringup"].returned
  <2>1. kahn'["bringup"] = kahn["bringup"]
    <3>1. Pop("graph") \/ Return("graph")
      BY <1>5 DEF CheckOrder, ComputeOrder, Pop, Return
    <3>2. kahn = [b \in Algorithms |-> kahn[b]]
      BY DEF AppInv, OrderInv
    <3>3. PICK d : kahn' = [kahn EXCEPT !["graph"] = d]
      BY <3>1, Zenon DEF Pop, Return
    <3> QED
      BY <3>2, <3>3 DEF Algorithms
  <2>2. order' = order
    BY <2>1 DEF order
  <2>3. Here' = Here
    BY <1>1, <2>2 DEF Here, NodeAt
  <2>4. RunPlace' /\ RunCall'
    BY <1>1, <2>1, <2>3 DEF AppInv, RunPlace, RunCall, InShutDown
  <2>5. Up' /\ Down' /\ Suited'
    BY <1>1, <2>2, <2>3 DEF AppInv, Up, Down, Suited, InShutDown, Excused
  <2> QED
    BY <1>3, <1>4, <2>4, <2>5 DEF AppInv
<1>6. CASE ~kahn["bringup"].returned
  <2>1. pc = "order" /\ call["run"] = NoCall
    BY <1>6 DEF AppInv, RunPlace, RunCall
  <2>2. RunPlace' /\ RunCall' /\ Up' /\ Down' /\ Suited'
    BY <1>1, <2>1 DEF RunPlace, RunCall, Up, Down, Suited, InShutDown
  <2> QED
    BY <1>3, <1>4, <2>2 DEF AppInv
<1> QED
  BY <1>5, <1>6

LEMMA StartStep == AppInv /\ Start => AppInv'
<1> SUFFICES ASSUME AppInv, Start PROVE AppInv'
  OBVIOUS
<1>1. /\ OrderInv' /\ order' = order /\ kahn' = kahn /\ Held'
      /\ state' = state /\ call' = call /\ asked' = asked /\ failed' = failed
  BY OrderFrame, HeldFrame DEF AppInv, Start
<1>2. pc = "order" /\ kahn["bringup"].returned /\ call["run"] = NoCall
  BY DEF AppInv, Start, RunCall
<1>3. N \in Nat /\ "configure" \in Transitions
  BY OrderAssumption, Table
<1>4. CASE ComeTo("bringUp", 1) /\ chosen' = "configure"
  <2>1. /\ pc' = "bringUp" /\ at' = 1 /\ touched' \subseteq touched
        /\ call["tool"].node \in touched => call["tool"].node \in touched'
    BY <1>4, Comes
  <2>2. Typed' /\ ToolTouches'
    BY <1>1, <1>3, <1>4, <2>1 DEF AppInv, Typed, Phases, ToolTouches
  <2>3. RunPlace' /\ RunCall' /\ Down' /\ Suited'
    BY <1>1, <1>2, <1>4, <2>1 DEF RunPlace, RunCall, Down, Suited, InShutDown
  <2>4. Up'
    <3>1. \A j \in 1..N : ~(j < at')
      BY <1>3, <2>1
    <3> QED
      BY <3>1 DEF Up
  <2> QED
    BY <1>1, <2>2, <2>3, <2>4 DEF AppInv
<1>5. CASE pc' = "running" /\ UNCHANGED <<at, chosen, touched>>
  <2>1. Typed' /\ ToolTouches'
    BY <1>1, <1>5 DEF AppInv, Typed, Phases, ToolTouches
  <2>2. RunPlace' /\ RunCall' /\ Up' /\ Down' /\ Suited'
    BY <1>1, <1>2, <1>5 DEF RunPlace, RunCall, Up, Down, Suited, InShutDown
  <2> QED
    BY <1>1, <2>1, <2>2 DEF AppInv
<1> QED
  BY <1>4, <1>5 DEF Start

\* Run asks for a transition of the node it is at.
LEMMA AsksStep == AppInv /\ (BringUpAsks \/ ShutDownAsks) => AppInv'
<1> SUFFICES ASSUME AppInv, BringUpAsks \/ ShutDownAsks PROVE AppInv'
  OBVIOUS
<1>1. /\ OrderInv' /\ order' = order /\ kahn' = kahn
      /\ UNCHANGED <<pc, at, chosen, asked, touched, failed>>
  BY OrderFrame DEF AppInv, BringUpAsks, ShutDownAsks
<1>2. N \in Nat
  BY OrderAssumption
<1>3. /\ pc \in {"bringUp", "deactivate", "shutdown"} /\ at \in 1..N /\ kahn["bringup"].returned
  <2>1. CASE BringUpAsks
    BY <1>2, <2>1 DEF AppInv, BringUpAsks, RunPlace, Typed
  <2>2. CASE ShutDownAsks
    BY <2>2 DEF AppInv, ShutDownAsks, RunPlace, InShutDown
  <2> QED
    BY <2>1, <2>2
<1>4. /\ \A i \in 1..N : order[i] \in Nodes
      /\ \A i, j \in 1..N : order[i] = order[j] => i = j
      /\ Here = IF pc = "bringUp" THEN order[at] ELSE order[N + 1 - at]
  BY <1>3, Places DEF AppInv, Here
<1>5. Here \in Nodes
  <2>1. N + 1 - at \in 1..N
    BY <1>2, <1>3
  <2> QED
    BY <1>3, <1>4, <2>1
<1>6. Begin("run", Here, chosen)
  BY DEF BringUpAsks, ShutDownAsks
<1>7. /\ Held'
      /\ state' = [state EXCEPT ![Here] = "moving"]
      /\ call'["run"] # NoCall /\ call'["run"].node = Here /\ call'["run"].t = chosen
      /\ call'["tool"] = call["tool"]
  BY <1>5, <1>6, Begins DEF AppInv, Other, Callers
<1>8. \A m \in Nodes \ {Here} : state'[m] = state[m]
  BY <1>5, <1>7 DEF AppInv, Held
<1>9. Typed' /\ ToolTouches'
  BY <1>1, <1>7 DEF AppInv, Typed, ToolTouches
<1>10. RunPlace' /\ RunCall' /\ Suited'
  <2>1. Here' = Here
    BY <1>1 DEF Here, NodeAt
  <2> QED
    BY <1>1, <1>3, <1>7, <2>1 DEF AppInv, RunPlace, RunCall, Suited, InShutDown
<1>11. Up'
  <2> SUFFICES ASSUME pc = "bringUp", NEW j \in 1..N, j < at
               PROVE  state'[order[j]] = "Active" \/ order[j] \in touched
    BY <1>1 DEF Up
  <2>1. order[j] \in Nodes \ {Here}
    BY <1>3, <1>4
  <2> QED
    BY <1>8, <2>1 DEF AppInv, Up
<1>12. Down'
  <2> SUFFICES ASSUME InShutDown \/ pc = "stopped", NEW j \in 1..N, j < at
               PROVE  state'[order[N + 1 - j]] = "Finalized" \/ Excused(order[N + 1 - j])
    BY <1>1 DEF Down, InShutDown, Excused
  <2>1. N + 1 - j \in 1..N /\ N + 1 - at \in 1..N /\ N + 1 - j # N + 1 - at
    BY <1>2, <1>3
  <2>2. pc # "bringUp"
    BY DEF InShutDown
  <2>3. order[N + 1 - j] \in Nodes \ {Here}
    BY <1>4, <2>1, <2>2
  <2> QED
    BY <1>8, <2>3 DEF AppInv, Down
<1> QED
  BY <1>1, <1>7, <1>9, <1>10, <1>11, <1>12 DEF AppInv

LEMMA BringUpRefusedStep == AppInv /\ BringUpRefused => AppInv'
<1> SUFFICES ASSUME AppInv, BringUpRefused PROVE AppInv'
  OBVIOUS
<1>1. /\ OrderInv' /\ order' = order /\ kahn' = kahn /\ Held'
      /\ state' = state /\ call' = call /\ asked' = asked /\ failed' = failed
  BY OrderFrame, HeldFrame DEF AppInv, BringUpRefused
<1> QED
  BY <1>1, Enters DEF BringUpRefused

LEMMA StopStep == AppInv /\ Stop => AppInv'
<1> SUFFICES ASSUME AppInv, Stop PROVE AppInv'
  OBVIOUS
<1>1. /\ OrderInv' /\ order' = order /\ kahn' = kahn /\ Held'
      /\ state' = state /\ call' = call /\ asked' = asked /\ failed' = failed
  BY OrderFrame, HeldFrame DEF AppInv, Stop
<1>2. call["run"] = NoCall
  BY DEF AppInv, Stop, RunCall
<1> QED
  BY <1>1, <1>2, Enters DEF Stop

LEMMA BringUpAnsweredStep ==
  ASSUME AppInv, NEW ok \in BOOLEAN, BringUpAnswered(ok)
  PROVE  AppInv'
<1>1. OrderInv' /\ order' = order /\ kahn' = kahn /\ asked' = asked /\ failed' = failed
  BY OrderFrame DEF AppInv, BringUpAnswered
<1>2. /\ Held' /\ call["run"] # NoCall /\ call'["run"] = NoCall /\ call'["tool"] = call["tool"]
      /\ state'[call["run"].node] = (IF ok THEN call["run"].goal ELSE call["run"].from)
      /\ \A m \in Nodes \ {call["run"].node} : state'[m] = state[m]
  BY Settles DEF AppInv, BringUpAnswered, Other, Callers
<1>3. /\ pc = "bringUp" /\ kahn["bringup"].returned /\ at \in 1..N
      /\ call["run"].node = Here /\ call["run"].t = chosen
      /\ chosen \in {"configure", "activate"}
  BY <1>2 DEF AppInv, BringUpAnswered, RunPlace, RunCall
<1>4. /\ DOMAIN order = 1..N
      /\ \A i \in 1..N : order[i] \in Nodes
      /\ \A i, j \in 1..N : order[i] = order[j] => i = j
      /\ Here = order[at]
  BY <1>3, Places DEF AppInv, Here
<1>5. N \in Nat /\ {"configure", "activate"} \subseteq Transitions
  BY OrderAssumption, Table
<1>6. ASSUME NEW j \in 1..N, j < at
      PROVE  state'[order[j]] = "Active" \/ order[j] \in touched
  <2>1. order[j] \in Nodes \ {Here}
    BY <1>3, <1>4, <1>6
  <2> QED
    BY <1>2, <1>3, <1>6, <2>1 DEF AppInv, Up
<1>7. CASE ~ok
  <2>1. EnterShutDown
    BY <1>7 DEF BringUpAnswered
  <2> QED
    BY <1>1, <1>2, <1>3, <2>1, Enters
<1>8. CASE ok /\ chosen = "configure"
  <2>1. chosen' = "activate" /\ UNCHANGED <<pc, at, touched>>
    BY <1>8 DEF BringUpAnswered
  <2>2. Typed' /\ ToolTouches'
    BY <1>1, <1>2, <1>5, <2>1 DEF AppInv, Typed, ToolTouches
  <2>3. RunPlace' /\ RunCall' /\ Down' /\ Suited'
    BY <1>1, <1>2, <1>3, <2>1 DEF RunPlace, RunCall, Down, Suited, InShutDown
  <2>4. Up'
    BY <1>1, <1>6, <2>1 DEF Up
  <2> QED
    BY <1>1, <1>2, <2>2, <2>3, <2>4 DEF AppInv
<1>9. CASE ok /\ chosen = "activate"
  <2>1. chosen' = "configure" /\ ComeTo("bringUp", at + 1)
    BY <1>9 DEF BringUpAnswered
  <2>2. /\ pc' = "bringUp" /\ at' = at + 1 /\ touched' \subseteq touched
        /\ \A n \in touched :
             n \in touched' \/ (at + 1 \in DOMAIN order /\ n = NodeAt("bringUp", at + 1))
        /\ call["tool"].node \in touched => call["tool"].node \in touched'
    BY <2>1, Comes
  <2>3. Typed' /\ ToolTouches'
    BY <1>1, <1>2, <1>3, <1>5, <2>1, <2>2 DEF AppInv, Typed, ToolTouches, Phases
  <2>4. RunPlace' /\ RunCall' /\ Down' /\ Suited'
    BY <1>1, <1>2, <1>3, <1>5, <2>1, <2>2 DEF RunPlace, RunCall, Down, Suited, InShutDown
  <2>5. state'[Here] = "Active"
    <3>1. call["run"] \in Calls
      BY DEF AppInv, Held, Callers
    <3> QED
      BY <1>2, <1>3, <1>9, <3>1, ACall
  <2>6. ASSUME NEW j \in 1..N, j < at + 1
        PROVE  state'[order[j]] = "Active" \/ order[j] \in touched'
    <3>1. CASE j = at
      BY <1>4, <2>5, <3>1
    <3>2. CASE j # at
      <4>1. j < at
        BY <1>3, <2>6, <3>2
      <4>2. state'[order[j]] = "Active" \/ order[j] \in touched
        BY <1>6, <4>1
      <4>3. at + 1 \in DOMAIN order => order[j] # NodeAt("bringUp", at + 1)
        BY <1>3, <1>4, <4>1 DEF NodeAt
      <4> QED
        BY <2>2, <4>2, <4>3
    <3> QED
      BY <3>1, <3>2
  <2>7. Up'
    BY <1>1, <2>2, <2>6 DEF Up
  <2> QED
    BY <1>1, <1>2, <2>3, <2>4, <2>7 DEF AppInv
<1> QED
  BY <1>3, <1>7, <1>8, <1>9

LEMMA BringUpDoneStep == AppInv /\ BringUpDone => AppInv'
<1> SUFFICES ASSUME AppInv, BringUpDone PROVE AppInv'
  OBVIOUS
<1>1. /\ OrderInv' /\ order' = order /\ kahn' = kahn /\ Held'
      /\ state' = state /\ call' = call /\ asked' = asked /\ failed' = failed
      /\ at' = at /\ touched' = touched /\ pc' = "running" /\ chosen' = "none"
  BY OrderFrame, HeldFrame DEF AppInv, BringUpDone
<1>2. call["run"] = NoCall /\ kahn["bringup"].returned
  <2>1. at \notin 1..N
    BY OrderAssumption DEF BringUpDone
  <2> QED
    BY <2>1 DEF AppInv, BringUpDone, RunCall, RunPlace
<1>3. Typed' /\ ToolTouches'
  BY <1>1 DEF AppInv, Typed, Phases, ToolTouches
<1>4. RunPlace' /\ RunCall' /\ Up' /\ Down' /\ Suited'
  BY <1>1, <1>2 DEF RunPlace, RunCall, Up, Down, Suited, InShutDown
<1> QED
  BY <1>1, <1>3, <1>4 DEF AppInv

\* A node that moves while Run is in no call is a tool's.
LEMMA Idle ==
  ASSUME AppInv, call["run"] = NoCall, InShutDown
  PROVE  /\ Here \in Nodes
         /\ state[Here] \in Primary \/ Here \in touched
<1>1. at \in 1..N /\ kahn["bringup"].returned
  BY DEF AppInv, RunPlace, InShutDown
<1>2. N + 1 - at \in 1..N
  BY <1>1, OrderAssumption
<1>3. Here \in Nodes
  BY <1>1, <1>2, Places DEF AppInv, Here, InShutDown
<1>4. CASE state[Here] = "moving"
  <2>1. \E c \in Callers : call[c].node = Here
    BY <1>3, <1>4 DEF AppInv, Held
  <2>2. NoCall.node = 0 /\ 0 \notin Nodes
    BY OrderAssumption DEF NoCall, Nodes
  <2>3. call["tool"].node = Here /\ call["tool"] # NoCall
    BY <1>3, <2>1, <2>2 DEF Callers
  <2> QED
    BY <1>3, <2>3 DEF AppInv, ToolTouches
<1>5. CASE state[Here] # "moving"
  BY <1>3, <1>5 DEF AppInv, Held
<1> QED
  BY <1>3, <1>4, <1>5

LEMMA ReadActiveStep == AppInv /\ ReadActive => AppInv'
<1> SUFFICES ASSUME AppInv, ReadActive PROVE AppInv'
  OBVIOUS
<1>1. /\ OrderInv' /\ order' = order /\ kahn' = kahn /\ Held'
      /\ state' = state /\ call' = call /\ asked' = asked /\ failed' = failed
      /\ at' = at /\ touched' = touched
  BY OrderFrame, HeldFrame DEF AppInv, ReadActive
<1>2. pc = "check" /\ call["run"] = NoCall /\ kahn["bringup"].returned /\ at \in 1..N
  BY DEF AppInv, ReadActive, RunCall, RunPlace, InShutDown
<1>3. \/ pc' = "deactivate" /\ chosen' = "deactivate" /\ state[Here] = "Active"
      \/ pc' = "choose" /\ chosen' = "none"
  BY DEF ReadActive
<1>4. "deactivate" \in Transitions
  BY Table
<1>5. Here' = Here
  BY <1>1, <1>2, <1>3 DEF Here, NodeAt
<1>6. Typed' /\ ToolTouches'
  BY <1>1, <1>3, <1>4 DEF AppInv, Typed, Phases, ToolTouches
<1>7. RunPlace' /\ RunCall' /\ Up' /\ Suited'
  BY <1>1, <1>2, <1>3, <1>5 DEF RunPlace, RunCall, Up, Suited, InShutDown
<1>8. Down'
  BY <1>1, <1>2 DEF AppInv, Down, Excused, InShutDown
<1> QED
  BY <1>1, <1>6, <1>7, <1>8 DEF AppInv

LEMMA ReadShutdownStep == AppInv /\ ReadShutdown => AppInv'
<1> SUFFICES ASSUME AppInv, ReadShutdown PROVE AppInv'
  OBVIOUS
<1>1. /\ OrderInv' /\ order' = order /\ kahn' = kahn /\ Held'
      /\ state' = state /\ call' = call /\ asked' = asked /\ failed' = failed
  BY OrderFrame, HeldFrame DEF AppInv, ReadShutdown
<1>2. pc = "choose" /\ call["run"] = NoCall /\ kahn["bringup"].returned /\ at \in 1..N
  BY DEF AppInv, ReadShutdown, RunCall, RunPlace, InShutDown
<1>3. Here \in Nodes /\ (state[Here] \in Primary \/ Here \in touched)
  BY <1>2, Idle DEF InShutDown
<1>4. chosen' = shutdownFor(state[Here]) /\ shutdownFor(state[Here]) \in ShutDowns \cup {"none"}
  BY DEF ReadShutdown, shutdownFor, ShutDowns
<1>5. failed \subseteq Nodes
  BY DEF AppInv, Typed
<1>6. CASE chosen' = "none"
  <2>1. NextDown
    BY <1>6 DEF ReadShutdown
  <2>2. state'[Here] = "Finalized" \/ Here \in touched \cup failed'
    BY <1>1, <1>3, <1>4, <1>6, ShutDownValid
  <2> QED
    BY <1>1, <1>2, <1>5, <1>6, <2>1, <2>2, GoesDown
<1>7. CASE chosen' # "none"
  <2>1. pc' = "shutdown" /\ UNCHANGED <<at, touched>> /\ chosen' \in ShutDowns
    BY <1>4, <1>7 DEF ReadShutdown
  <2>2. Here' = Here
    BY <1>1, <1>2, <2>1 DEF Here, NodeAt
  <2>3. ShutDowns \subseteq Transitions
    BY Table
  <2>4. Typed' /\ ToolTouches'
    BY <1>1, <2>1, <2>3 DEF AppInv, Typed, Phases, ToolTouches
  <2>5. RunPlace' /\ RunCall' /\ Up'
    BY <1>1, <1>2, <2>1 DEF RunPlace, RunCall, Up, InShutDown
  <2>6. Suited'
    BY <1>1, <1>3, <1>4, <2>1, <2>2 DEF Suited, Excused
  <2>7. Down'
    BY <1>1, <1>2, <2>1 DEF AppInv, Down, Excused, InShutDown
  <2> QED
    BY <1>1, <2>4, <2>5, <2>6, <2>7 DEF AppInv
<1> QED
  BY <1>6, <1>7

\* After deactivate, whatever came of it, shutDown looks at the state again.
LEMMA Looks ==
  ASSUME AppInv, OrderInv', Held', kahn' = kahn, order' = order, pc = "deactivate",
         pc' = "choose", at' = at, touched' = touched, chosen' = "none", asked' = asked,
         failed \subseteq failed', failed' \subseteq Nodes,
         call'["run"] = NoCall, call'["tool"] = call["tool"],
         \A n \in Nodes \ {Here} : state'[n] = state[n]
  PROVE  AppInv'
<1>1. at \in 1..N /\ kahn["bringup"].returned /\ N \in Nat
  BY OrderAssumption DEF AppInv, RunPlace, InShutDown
<1>2. Typed' /\ ToolTouches'
  BY DEF AppInv, Typed, Phases, ToolTouches
<1>3. RunPlace' /\ RunCall' /\ Up' /\ Suited'
  BY <1>1 DEF RunPlace, RunCall, Up, Suited, InShutDown
<1>4. Down'
  <2>1. ASSUME NEW j \in 1..N, j < at
        PROVE  state'[order[N + 1 - j]] = "Finalized" \/ order[N + 1 - j] \in touched \cup failed'
    <3>1. N + 1 - j \in 1..N /\ N + 1 - at \in 1..N /\ N + 1 - j # N + 1 - at
      BY <1>1, <2>1
    <3>2. Here = order[N + 1 - at]
      BY <1>1, Places DEF AppInv, Here
    <3>3. order[N + 1 - j] \in Nodes /\ order[N + 1 - j] # Here
      BY <1>1, <3>1, <3>2, Places DEF AppInv
    <3>4. state[order[N + 1 - j]] = "Finalized" \/ Excused(order[N + 1 - j])
      BY <2>1 DEF AppInv, Down, InShutDown
    <3> QED
      BY <3>3, <3>4 DEF Excused
  <2> QED
    BY <2>1 DEF Down, Excused
<1> QED
  BY <1>2, <1>3, <1>4 DEF AppInv

LEMMA ShutDownRefusedStep == AppInv /\ ShutDownRefused => AppInv'
<1> SUFFICES ASSUME AppInv, ShutDownRefused PROVE AppInv'
  OBVIOUS
<1>1. /\ OrderInv' /\ order' = order /\ kahn' = kahn /\ Held'
      /\ state' = state /\ call' = call /\ asked' = asked /\ failed' = failed
  BY OrderFrame, HeldFrame DEF AppInv, ShutDownRefused
<1>2. /\ pc \in {"deactivate", "shutdown"} /\ call["run"] = NoCall /\ chosen' = "none"
      /\ ~Valid(Here, chosen) /\ failed \subseteq Nodes
  BY DEF AppInv, ShutDownRefused, Typed
<1>3. CASE pc = "deactivate"
  <2>1. pc' = "choose" /\ UNCHANGED <<at, touched>>
    BY <1>3 DEF ShutDownRefused, ShutDownMovesOn
  <2> QED
    BY <1>1, <1>2, <1>3, <2>1, Looks
<1>4. CASE pc = "shutdown"
  <2>1. NextDown
    BY <1>4 DEF ShutDownRefused, ShutDownMovesOn
  <2>2. Here \in touched \cup failed
    <3>1. CASE Excused(Here)
      BY <3>1 DEF Excused
    <3>2. CASE state[Here] \in Primary /\ shutdownFor(state[Here]) = chosen
      <4>1. chosen # "none"
        BY <1>4 DEF AppInv, RunPlace, ShutDowns
      <4> QED
        BY <1>2, <3>2, <4>1, ShutDownValid DEF Valid
    <3> QED
      BY <1>2, <1>4, <3>1, <3>2 DEF AppInv, Suited
  <2> QED
    BY <1>1, <1>2, <1>4, <2>1, <2>2, GoesDown
<1> QED
  BY <1>2, <1>3, <1>4

LEMMA ShutDownAnsweredStep ==
  ASSUME AppInv, NEW ok \in BOOLEAN, ShutDownAnswered(ok)
  PROVE  AppInv'
<1>1. OrderInv' /\ order' = order /\ kahn' = kahn /\ asked' = asked
  BY OrderFrame DEF AppInv, ShutDownAnswered
<1>2. /\ Held' /\ call["run"] # NoCall /\ call'["run"] = NoCall /\ call'["tool"] = call["tool"]
      /\ state'[call["run"].node] = (IF ok THEN call["run"].goal ELSE call["run"].from)
      /\ \A m \in Nodes \ {call["run"].node} : state'[m] = state[m]
      /\ call["run"].node \in Nodes
  BY Settles DEF AppInv, ShutDownAnswered, Other, Callers
<1>3. call["run"].node = Here /\ call["run"].t = chosen
  BY <1>2 DEF AppInv, RunCall
<1>4. /\ pc \in {"deactivate", "shutdown"} /\ chosen' = "none"
      /\ failed' = IF ok THEN failed ELSE failed \cup {Here}
  BY DEF ShutDownAnswered
<1>5. failed \subseteq failed' /\ failed' \subseteq Nodes
  BY <1>2, <1>3, <1>4 DEF AppInv, Typed
<1>6. CASE pc = "deactivate"
  <2>1. pc' = "choose" /\ UNCHANGED <<at, touched>>
    BY <1>6 DEF ShutDownAnswered, ShutDownMovesOn
  <2> QED
    BY <1>1, <1>2, <1>3, <1>4, <1>5, <1>6, <2>1, Looks
<1>7. CASE pc = "shutdown"
  <2>1. NextDown
    BY <1>7 DEF ShutDownAnswered, ShutDownMovesOn
  <2>2. state'[Here] = "Finalized" \/ Here \in touched \cup failed'
    <3>1. CASE ok
      <4>1. call["run"] \in Calls /\ chosen \in ShutDowns
        BY <1>7 DEF AppInv, Held, Callers, RunPlace
      <4> QED
        BY <1>2, <1>3, <3>1, <4>1, ACall
    <3>2. CASE ~ok
      BY <1>4, <3>2
    <3> QED
      BY <3>1, <3>2
  <2> QED
    BY <1>1, <1>2, <1>3, <1>4, <1>5, <1>7, <2>1, <2>2, GoesDown
<1> QED
  BY <1>4, <1>6, <1>7

\* A tool excuses the node it drives, and touches no other.
LEMMA Tool ==
  ASSUME AppInv, OrderInv', Held', kahn' = kahn, order' = order,
         UNCHANGED <<pc, at, chosen, failed>>, asked' \in 0..MaxAsked,
         NEW n \in Nodes, touched' = touched \cup {n},
         call'["run"] = call["run"], call'["tool"] # NoCall => call'["tool"].node = n,
         \A m \in Nodes \ {n} : state'[m] = state[m]
  PROVE  AppInv'
<1>1. Here' = Here
  BY DEF Here, NodeAt
<1>2. Typed' /\ ToolTouches'
  BY DEF AppInv, Typed, ToolTouches
<1>3. RunPlace' /\ RunCall'
  BY <1>1 DEF AppInv, RunPlace, RunCall, InShutDown
<1>4. N \in Nat
  BY OrderAssumption
<1>5. ASSUME pc # "order", NEW j \in 1..N
      PROVE  order[j] \in Nodes /\ order[N + 1 - j] \in Nodes
  <2>1. N + 1 - j \in 1..N /\ kahn["bringup"].returned
    BY <1>4, <1>5 DEF AppInv, RunPlace
  <2> QED
    BY <2>1, Places DEF AppInv
<1>6. ASSUME NEW m \in Nodes
      PROVE  /\ state[m] = "Active" \/ m \in touched => state'[m] = "Active" \/ m \in touched'
             /\ state[m] = "Finalized" \/ Excused(m) =>
                  state'[m] = "Finalized" \/ m \in touched' \cup failed
             /\ state[m] = "Active" \/ Excused(m) =>
                  state'[m] = "Active" \/ m \in touched' \cup failed
             /\ Excused(m) => m \in touched' \cup failed
             /\ state'[m] = state[m] \/ m \in touched'
  BY DEF Excused
<1>7. Up'
  BY <1>5, <1>6 DEF AppInv, Up
<1>8. Down'
  BY <1>5, <1>6 DEF AppInv, Down, InShutDown, Excused
<1>9. Suited'
  <2>1. ASSUME InShutDown PROVE Here \in Nodes
    <3>1. at \in 1..N /\ kahn["bringup"].returned
      BY <2>1 DEF AppInv, RunPlace, InShutDown
    <3> QED
      BY <1>5, <2>1, <3>1, Places DEF AppInv, Here, InShutDown
  <2>2. ASSUME call["run"] = NoCall, pc = "deactivate"
        PROVE  state'[Here] = "Active" \/ Here \in touched' \cup failed
    BY <1>6, <2>1, <2>2 DEF AppInv, Suited, InShutDown
  <2>3. ASSUME call["run"] = NoCall, pc = "shutdown"
        PROVE  \/ state'[Here] \in Primary /\ shutdownFor(state'[Here]) = chosen
               \/ Here \in touched' \cup failed
    <3>1. \/ state[Here] \in Primary /\ shutdownFor(state[Here]) = chosen
          \/ Excused(Here)
      BY <2>3 DEF AppInv, Suited
    <3> QED
      BY <1>6, <2>1, <2>3, <3>1 DEF InShutDown
  <2> QED
    BY <1>1, <2>2, <2>3 DEF Suited, Excused
<1> QED
  BY <1>2, <1>3, <1>7, <1>8, <1>9 DEF AppInv

LEMMA ToolAsksStep ==
  ASSUME AppInv, NEW n \in Nodes, NEW t \in Transitions, ToolAsks(n, t)
  PROVE  AppInv'
<1>1. OrderInv' /\ order' = order /\ kahn' = kahn /\ UNCHANGED <<pc, at, chosen, failed>>
  BY OrderFrame DEF AppInv, ToolAsks
<1>2. /\ Held'
      /\ state' = [state EXCEPT ![n] = "moving"]
      /\ call'["tool"].node = n /\ call'["run"] = call["run"]
  BY Begins DEF AppInv, ToolAsks, Other, Callers
<1>3. \A m \in Nodes \ {n} : state'[m] = state[m]
  BY <1>2 DEF AppInv, Held
<1>4. asked' \in 0..MaxAsked /\ touched' = touched \cup {n}
  BY AppAssumption DEF AppInv, Typed, ToolAsks
<1> QED
  BY <1>1, <1>2, <1>3, <1>4, Tool

LEMMA ToolAnsweredStep ==
  ASSUME AppInv, NEW ok \in BOOLEAN, ToolAnswered(ok)
  PROVE  AppInv'
<1>1. OrderInv' /\ order' = order /\ kahn' = kahn /\ UNCHANGED <<pc, at, chosen, failed>>
  BY OrderFrame DEF AppInv, ToolAnswered
<1>2. /\ Held' /\ call'["tool"] = NoCall /\ call'["run"] = call["run"]
      /\ \A m \in Nodes \ {call["tool"].node} : state'[m] = state[m]
      /\ call["tool"].node \in Nodes
  BY Settles DEF AppInv, ToolAnswered, Other, Callers
<1>3. asked' \in 0..MaxAsked /\ touched' = touched \cup {call["tool"].node}
  BY DEF AppInv, Typed, ToolAnswered
<1> QED
  BY <1>1, <1>2, <1>3, Tool

-----------------------------------------------------------------------------
(* The theorems.                                                             *)

LEMMA AppStarts == AppInit => AppInv
<1> SUFFICES ASSUME AppInit PROVE AppInv
  OBVIOUS
<1>1. OrderInv
  BY OrderStarts DEF AppInit
<1>2. N \in Nat /\ MaxAsked \in Nat /\ 0 \notin Nodes
  BY OrderAssumption, AppAssumption DEF Nodes
<1>3. Held
  <2>1. state = [n \in Nodes |-> "Unconfigured"] /\ call = [c \in Callers |-> NoCall]
    BY DEF AppInit
  <2>2. NoCall \in Calls /\ NoCall.node = 0
    BY DEF Calls, NoCall
  <2> QED
    BY <1>2, <2>1, <2>2 DEF Held, Primary, Callers
<1>4. Typed /\ ToolTouches /\ RunPlace /\ RunCall /\ Up /\ Down /\ Suited
  BY <1>2 DEF AppInit, Typed, Phases, ToolTouches, RunPlace, RunCall, Up, Down, Suited,
              InShutDown, Callers
<1> QED
  BY <1>1, <1>3, <1>4 DEF AppInv

LEMMA AppStep == AppInv /\ [AppNext]_lifeVars => AppInv'
<1> SUFFICES ASSUME AppInv, [AppNext]_lifeVars PROVE AppInv'
  OBVIOUS
<1>1. CASE AppNext
  BY <1>1, OrderStep, StartStep, AsksStep, BringUpRefusedStep, BringUpDoneStep, StopStep,
     ReadActiveStep, ReadShutdownStep, ShutDownRefusedStep, BringUpAnsweredStep,
     ShutDownAnsweredStep, ToolAnsweredStep, ToolAsksStep DEF AppNext
<1>2. CASE UNCHANGED lifeVars
  <2>1. /\ OrderInv' /\ order' = order /\ kahn' = kahn
        /\ UNCHANGED <<state, pc, at, chosen, call, asked, touched, failed>>
    BY <1>2, OrderFrame DEF AppInv, lifeVars, appVars
  <2>2. Held' /\ Here' = Here
    BY <2>1, HeldFrame DEF AppInv, Here, NodeAt
  <2>3. Typed' /\ ToolTouches' /\ RunPlace' /\ RunCall' /\ Up' /\ Down' /\ Suited'
    BY <2>1, <2>2 DEF AppInv, Typed, ToolTouches, RunPlace, RunCall, Up, Down, Suited,
                      InShutDown, Excused
  <2> QED
    BY <2>1, <2>2, <2>3 DEF AppInv
<1> QED
  BY <1>1, <1>2

LEMMA AppIsEnough == AppInv => AppTypeOK /\ OrderIsRight /\ ExitsFinalized
<1> SUFFICES ASSUME AppInv PROVE AppTypeOK /\ OrderIsRight /\ ExitsFinalized
  OBVIOUS
<1>1. OrderIsRight
  BY OrderIsEnough DEF AppInv
<1>2. AppTypeOK
  BY <1>1 DEF AppInv, AppTypeOK, OrderIsRight, Held, Typed, Phases
<1>3. ASSUME pc = "stopped", NEW n \in Nodes
      PROVE  state[n] = "Finalized" \/ n \in touched \cup failed
  <2>1. at = N + 1 /\ kahn["bringup"].returned
    BY <1>3 DEF AppInv, RunPlace
  <2>2. PICK i \in 1..N : order[i] = n
    BY <2>1, Places DEF AppInv
  <2>3. N + 1 - i \in 1..N /\ N + 1 - i < at /\ N + 1 - (N + 1 - i) = i
    BY <2>1, OrderAssumption
  <2> QED
    BY <1>3, <2>2, <2>3 DEF AppInv, Down, Excused
<1> QED
  BY <1>1, <1>2, <1>3 DEF ExitsFinalized

\* Only Run's own two steps begin a transition of Run's.
LEMMA Asking ==
  ASSUME AppInv, [AppNext]_lifeVars, NEW t \in Transitions, Asks(t)
  PROVE  /\ BringUpAsks \/ ShutDownAsks
         /\ call'["run"].node = Here /\ t = chosen /\ at \in 1..N /\ kahn["bringup"].returned
<1>1. call["run"] = NoCall /\ call'["run"].t = t /\ t # "none" /\ NoCall.t = "none"
  BY Table DEF Asks, NoCall
<1>2. call \in [Callers -> Calls] /\ N \in Nat
  BY OrderAssumption DEF AppInv, Held
<1>3. call' # call
  BY <1>1
<1>4. BringUpAsks \/ ShutDownAsks
  <2>1. ~UNCHANGED lifeVars
    BY <1>3 DEF lifeVars, appVars
  <2>2. ASSUME NEW n, NEW u, ToolAsks(n, u) PROVE FALSE
    <3>1. PICK x : call' = [call EXCEPT !["tool"] = x]
      BY <2>2, Zenon DEF ToolAsks, Begin
    <3> QED
      BY <1>1, <1>2, <3>1 DEF Callers
  <2>3. ASSUME NEW ok, ToolAnswered(ok) PROVE FALSE
    BY <1>1, <1>2, <2>3 DEF ToolAnswered, Settle, Callers
  <2>4. ASSUME NEW ok, BringUpAnswered(ok) \/ ShutDownAnswered(ok) PROVE FALSE
    BY <1>1, <2>4 DEF BringUpAnswered, ShutDownAnswered, Settle
  <2>5. ~CheckOrder /\ ~ComputeOrder
    BY <1>3 DEF CheckOrder, ComputeOrder, appVars
  <2>6. ~Start /\ ~BringUpRefused /\ ~BringUpDone /\ ~Stop
    BY <1>3 DEF Start, BringUpRefused, BringUpDone, Stop
  <2>7. ~ReadActive /\ ~ReadShutdown /\ ~ShutDownRefused
    BY <1>3 DEF ReadActive, ReadShutdown, ShutDownRefused
  <2> QED
    BY <2>1, <2>2, <2>3, <2>4, <2>5, <2>6, <2>7 DEF AppNext
<1>5. Begin("run", Here, chosen)
  BY <1>4 DEF BringUpAsks, ShutDownAsks
<1>6. call'["run"].node = Here /\ call'["run"].t = chosen
  BY <1>2, <1>5 DEF Begin, Callers
<1>7. at \in 1..N /\ kahn["bringup"].returned
  <2>1. CASE BringUpAsks
    BY <1>2, <2>1 DEF AppInv, BringUpAsks, RunPlace, Typed
  <2>2. CASE ShutDownAsks
    BY <2>2 DEF AppInv, ShutDownAsks, RunPlace, InShutDown
  <2> QED
    BY <1>4, <2>1, <2>2
<1> QED
  BY <1>1, <1>4, <1>6, <1>7

\* What a node outside cycles consumes from comes before it in the order.
LEMMA Before ==
  ASSUME AppInv, kahn["bringup"].returned,
         NEW n \in Nodes \ cycles, NEW i \in 1..N, order[i] = n, NEW p \in edges[n]
  PROVE  \E j \in 1..N : j < i /\ order[j] = p
<1>1. Follows(edges, kahn["bringup"])
  BY DEF AppInv, OrderInv, KahnInv, Algorithms
<1>2. DOMAIN order = 1..N /\ N \in Nat
  BY Places, OrderAssumption DEF AppInv
<1>3. PICK j \in 1..(i - 1) : order[j] = p
  BY <1>1, <1>2 DEF Follows, order, cycles
<1>4. j \in 1..N /\ j < i
  BY <1>2
<1> QED
  BY <1>3, <1>4

LEMMA UpInOrder ==
  ASSUME AppInv, [AppNext]_lifeVars, NEW n \in Nodes \ cycles,
         Asks("activate"), call'["run"].node = n, NEW p \in edges[n]
  PROVE  state[p] = "Active" \/ p \in touched
<1>1. "activate" \in Transitions /\ "activate" \notin ShutDowns
  BY Table DEF ShutDowns
<1>2. /\ BringUpAsks \/ ShutDownAsks
      /\ n = Here /\ chosen = "activate" /\ at \in 1..N /\ kahn["bringup"].returned
  BY <1>1, Asking
<1>3. pc = "bringUp"
  BY <1>1, <1>2 DEF AppInv, BringUpAsks, ShutDownAsks, RunPlace
<1>4. n = order[at]
  BY <1>2, <1>3 DEF Here, NodeAt
<1>5. PICK j \in 1..N : j < at /\ order[j] = p
  BY <1>2, <1>4, Before
<1> QED
  BY <1>3, <1>5 DEF AppInv, Up

LEMMA DownInOrder ==
  ASSUME AppInv, [AppNext]_lifeVars, NEW c \in Nodes \ cycles, NEW t \in Transitions,
         Asks(t), pc \in {"deactivate", "shutdown"}, call'["run"].node \in edges[c]
  PROVE  state[c] # "Active" \/ c \in touched \cup failed
<1>1. call'["run"].node = Here /\ at \in 1..N /\ kahn["bringup"].returned
  BY Asking
<1>2. /\ \A i, j \in 1..N : order[i] = order[j] => i = j
      /\ Here = order[N + 1 - at]
  BY <1>1, Places DEF AppInv, Here
<1>3. PICK i \in 1..N : order[i] = c
  BY <1>1, Places DEF AppInv
<1>4. PICK j \in 1..N : j < i /\ order[j] = Here
  BY <1>1, <1>3, Before
<1>5. N + 1 - at \in 1..N /\ N \in Nat
  BY <1>1, OrderAssumption
<1>6. j = N + 1 - at
  BY <1>2, <1>4, <1>5
<1>7. N + 1 - i \in 1..N /\ N + 1 - i < at /\ N + 1 - (N + 1 - i) = i
  BY <1>1, <1>4, <1>5, <1>6
<1>8. state[c] = "Finalized" \/ Excused(c)
  BY <1>3, <1>7 DEF AppInv, Down, InShutDown
<1> QED
  BY <1>8 DEF Excused

LEMMA AppSafe == AppSpec => []AppInv
BY AppStarts, AppStep, PTL DEF AppSpec

\* Every reachable state of an application has its type.
THEOREM AppTypes == AppSpec => []AppTypeOK
BY AppSafe, AppIsEnough, PTL

\* Whatever the graph, the order that conductor check reports and the one the
\* application follows put providers first and lose no node, and what they name
\* in cycles waits for others named there (BringupOrder in bringup.go,
\* Graph.BringupOrder in internal/graph/graph.go).
THEOREM Ordered == AppSpec => []OrderIsRight
BY AppSafe, AppIsEnough, PTL

\* When Run is over every node is Finalized, unless a hook of it failed or a tool
\* drove it while shutDown was at it (app.shutDown, run.go).
THEOREM Exits == AppSpec => []ExitsFinalized
BY AppSafe, AppIsEnough, PTL

\* Nodes come up along the edges and go down against them (app.bringUp and
\* app.shutDown, run.go), whatever tools and failing hooks do in between.
THEOREM UpAndDown == AppSpec => UpAndDownInOrder
<1>1. AppInv /\ [AppNext]_lifeVars =>
        (\A n \in Nodes \ cycles :
           Asks("activate") /\ call'["run"].node = n =>
             \A p \in edges[n] : state[p] = "Active" \/ p \in touched)
  BY UpInOrder
<1>2. AppInv /\ [AppNext]_lifeVars =>
        (\A c \in Nodes \ cycles :
           (\E t \in Transitions : Asks(t)) /\ pc \in {"deactivate", "shutdown"}
           /\ call'["run"].node \in edges[c] =>
             state[c] # "Active" \/ c \in touched \cup failed)
  BY DownInOrder
<1>3. AppSpec => ActivatedAfterProviders
  BY <1>1, AppSafe, PTL DEF AppSpec, ActivatedAfterProviders
<1>4. AppSpec => ConsumersStopFirst
  BY <1>2, AppSafe, PTL DEF AppSpec, ConsumersStopFirst
<1> QED
  BY <1>3, <1>4 DEF UpAndDownInOrder

-----------------------------------------------------------------------------
(***************************************************************************)
(* The action protocol (ActionProtocol).                                   *)
(***************************************************************************)

USE DEF Terminal, Statuses

\* The record of a goal follows the goroutine that serves it.
RecordFollows ==
  \A g \in Goals :
    /\ server[g] \in {"idle", "request"} => status[g] = "none" /\ g \notin known
    /\ server[g] \in {"snap", "publish", "handler"} => status[g] \in {"executing", "canceling"} /\ g \in known
    /\ server[g] \in {"endSnap", "endPublish", "grace", "dropped"} => status[g] \in Terminal

\* Until a goal ends its context is canceled exactly when its status says so.
CancelMarks ==
  \A g \in Goals : /\ status[g] \in {"none", "executing"} => g \notin ctx
                   /\ status[g] = "canceling" => g \in ctx

\* A client that has not sent its goal has not been heard of.
NotSentYet == \A g \in Ours : handle[g] = "idle" => server[g] = "idle"

\* An array that is on its way says nothing untrue of the end of a goal.
SnapshotsTrue == \A p \in Publishers, g \in Goals : snapshot[p][g] \in Terminal => status[g] = snapshot[p][g]

\* An answer to get_result is no answer, or what the server recorded.
RepliesTrue == \A g \in Goals : reply[g] # "none" => reply[g] \in Terminal /\ reply[g] = status[g]

ActionInv ==
  /\ ActionTypeOK
  /\ RecordFollows
  /\ CancelMarks
  /\ NotSentYet
  /\ SnapshotsTrue
  /\ EndingsToldAreTrue
  /\ RepliesTrue
  /\ ResultIsFinal
  /\ NoLeakedFeedback

-----------------------------------------------------------------------------
(* What has been said stays true as long as what has ended stays ended.      *)

\* No terminal status changes.
EndingsStay == \A g \in Goals : status[g] \in Terminal => status'[g] = status[g]

LEMMA SaidStaysTrue ==
  ASSUME ActionInv, ActionTypeOK', EndingsStay, UNCHANGED <<snapshot, latest, reply, result>>
  PROVE  SnapshotsTrue' /\ EndingsToldAreTrue' /\ RepliesTrue' /\ ResultIsFinal'
<1>1. SnapshotsTrue /\ EndingsToldAreTrue /\ RepliesTrue /\ ResultIsFinal
  BY DEF ActionInv
<1>2. SnapshotsTrue' /\ EndingsToldAreTrue'
  BY <1>1 DEF EndingsStay, SnapshotsTrue, EndingsToldAreTrue
<1>3. RepliesTrue' /\ ResultIsFinal'
  BY <1>1 DEF EndingsStay, RepliesTrue, ResultIsFinal
<1> QED
  BY <1>2, <1>3

\* A snapshot taken under the lock is true, and so is one that is published.
LEMMA SnapshotTaken ==
  ASSUME ActionInv, NEW p \in Publishers, TakeSnapshot(p), UNCHANGED <<known, status, latest, reply, result>>
  PROVE  /\ snapshot' \in [Publishers -> Arrays]
         /\ SnapshotsTrue' /\ EndingsToldAreTrue' /\ RepliesTrue' /\ ResultIsFinal'
<1> DEFINE array == [g \in Goals |-> IF g \in known THEN status[g] ELSE "none"]
<1>1. /\ snapshot \in [Publishers -> Arrays] /\ status \in [Goals -> Statuses]
      /\ SnapshotsTrue /\ EndingsToldAreTrue /\ RepliesTrue /\ ResultIsFinal
  BY DEF ActionInv, ActionTypeOK
<1>2. array \in Arrays /\ \A g \in Goals : array[g] \in Terminal => status[g] = array[g]
  BY <1>1 DEF Arrays
<1>3. snapshot' = [snapshot EXCEPT ![p] = array]
  BY DEF TakeSnapshot
<1> HIDE DEF array
<1>4. snapshot' \in [Publishers -> Arrays] /\ SnapshotsTrue'
  BY <1>1, <1>2, <1>3 DEF SnapshotsTrue
<1>5. EndingsToldAreTrue' /\ RepliesTrue' /\ ResultIsFinal'
  BY <1>1 DEF EndingsToldAreTrue, RepliesTrue, ResultIsFinal
<1> QED
  BY <1>4, <1>5

LEMMA SnapshotPublished ==
  ASSUME ActionInv, NEW p \in Publishers, PublishSnapshot(p), UNCHANGED <<status, reply, result>>
  PROVE  /\ snapshot' \in [Publishers -> Arrays] /\ latest' \in Arrays
         /\ SnapshotsTrue' /\ EndingsToldAreTrue' /\ RepliesTrue' /\ ResultIsFinal'
<1>1. /\ snapshot \in [Publishers -> Arrays]
      /\ SnapshotsTrue /\ EndingsToldAreTrue /\ RepliesTrue /\ ResultIsFinal
  BY DEF ActionInv, ActionTypeOK
<1>2. NoArray \in Arrays /\ \A g \in Goals : NoArray[g] = "none"
  BY DEF NoArray, Arrays
<1>3. snapshot' = [snapshot EXCEPT ![p] = NoArray] /\ latest' = snapshot[p]
  BY DEF PublishSnapshot
<1>4. snapshot' \in [Publishers -> Arrays] /\ SnapshotsTrue'
  BY <1>1, <1>2, <1>3 DEF SnapshotsTrue
<1>5. latest' \in Arrays /\ EndingsToldAreTrue'
  BY <1>1, <1>3 DEF SnapshotsTrue, EndingsToldAreTrue
<1>6. RepliesTrue' /\ ResultIsFinal'
  BY <1>1 DEF RepliesTrue, ResultIsFinal
<1> QED
  BY <1>4, <1>5, <1>6

-----------------------------------------------------------------------------
(* The invariant is inductive: one lemma per group of actions that touch the *)
(* same state.                                                               *)

LEMMA ActionStarts == ActionInit => ActionInv
<1> SUFFICES ASSUME ActionInit PROVE ActionInv
  OBVIOUS
<1>1. NoArray \in Arrays /\ \A g \in Goals : NoArray[g] = "none"
  BY DEF NoArray, Arrays
<1>2. ActionTypeOK
  BY <1>1, ActionAssumption DEF ActionInit, ActionTypeOK, NoResult
<1>3. SnapshotsTrue /\ EndingsToldAreTrue
  BY <1>1 DEF ActionInit, SnapshotsTrue, EndingsToldAreTrue
<1>4. RecordFollows /\ CancelMarks /\ NotSentYet /\ RepliesTrue
  BY ActionAssumption DEF ActionInit, RecordFollows, CancelMarks, NotSentYet, RepliesTrue
<1>5. ResultIsFinal /\ NoLeakedFeedback
  BY DEF ActionInit, ResultIsFinal, NoLeakedFeedback, NoResult
<1> QED
  BY <1>2, <1>3, <1>4, <1>5 DEF ActionInv

\* The steps of the server that move a goal's status.
LEMMA StatusKeepsInv ==
  ASSUME ActionInv, NEW g \in Goals,
         HandleSendGoal(g) \/ HandlerReturns(g, TRUE) \/ HandlerReturns(g, FALSE)
  PROVE  ActionInv' /\ [Life!Next]_status
<1> USE DEF clientVars
<1>1. ActionTypeOK /\ RecordFollows /\ CancelMarks /\ NotSentYet /\ NoLeakedFeedback
  BY DEF ActionInv
<1>2. /\ UNCHANGED <<ctx, canceler, snapshot, latest, clientVars>>
      /\ UNCHANGED <<handle, getResult, reply, result, pending, feedback>>
  BY DEF HandleSendGoal, HandlerReturns
<1>3. PICK new \in Statuses :
        /\ status' = [status EXCEPT ![g] = new]
        /\ \/ /\ server[g] = "request" /\ new = "executing"
              /\ known' = known \cup {g} /\ server' = [server EXCEPT ![g] = "snap"]
           \/ /\ server[g] = "handler" /\ new \in Terminal
              /\ new = "canceled" => g \in ctx
              /\ new = "aborted" => g \notin ctx
              /\ known' = known /\ server' = [server EXCEPT ![g] = "endSnap"]
  <2>1. CASE HandleSendGoal(g)
    BY <2>1 DEF HandleSendGoal
  <2>2. CASE HandlerReturns(g, TRUE)
    <3>1. CASE g \in ctx
      BY <2>2, <3>1 DEF HandlerReturns
    <3>2. CASE g \notin ctx
      BY <2>2, <3>2 DEF HandlerReturns
    <3> QED
      BY <3>1, <3>2
  <2>3. CASE HandlerReturns(g, FALSE)
    BY <2>3 DEF HandlerReturns
  <2> QED
    BY <2>1, <2>2, <2>3
<1>4. ActionTypeOK'
  BY <1>1, <1>2, <1>3 DEF ActionTypeOK
<1>5. /\ status[g] \notin Terminal
      /\ <<status[g], new>> \in Life!Arcs
  BY <1>1, <1>3 DEF RecordFollows, CancelMarks, Life!Arcs
<1>6. EndingsStay
  BY <1>1, <1>3, <1>5 DEF EndingsStay, ActionTypeOK
<1>7. Life!Next
  BY <1>1, <1>3, <1>5 DEF Life!Next, ActionTypeOK
<1>8. RecordFollows'
  BY <1>1, <1>3 DEF RecordFollows, ActionTypeOK
<1>9. CancelMarks'
  <2>1. new = "executing" => g \notin ctx
    BY <1>1, <1>3 DEF RecordFollows, CancelMarks
  <2> QED
    BY <1>1, <1>2, <1>3, <2>1 DEF CancelMarks, ActionTypeOK
<1>10. NotSentYet'
  BY <1>1, <1>2, <1>3, ActionAssumption DEF NotSentYet, ActionTypeOK
<1>11. NoLeakedFeedback'
  BY <1>1, <1>2 DEF NoLeakedFeedback
<1> QED
  BY <1>2, <1>4, <1>6, <1>7, <1>8, <1>9, <1>10, <1>11, SaidStaysTrue DEF ActionInv

\* A cancel request, for one goal or for all.
LEMMA CancelKeepsInv ==
  ASSUME ActionInv, NEW c \in Cancelers, NEW named \in SUBSET Goals, HandleCancel(c, named)
  PROVE  ActionInv' /\ [Life!Next]_status
<1> USE DEF clientVars
<1> DEFINE marked == Cancelable(named)
<1>1. ActionTypeOK /\ RecordFollows /\ CancelMarks /\ NotSentYet /\ NoLeakedFeedback
  BY DEF ActionInv
<1>2. /\ UNCHANGED <<known, server, snapshot, latest, handle, getResult, reply, result, pending, feedback>>
      /\ status' = [g \in Goals |-> IF g \in marked THEN "canceling" ELSE status[g]]
      /\ ctx' = ctx \cup marked
      /\ canceler' = [canceler EXCEPT ![c] = "snap"]
  BY DEF HandleCancel
<1>3. marked \subseteq Goals /\ \A g \in marked : g \in known /\ status[g] \notin Terminal
  BY DEF Cancelable
<1> HIDE DEF marked
<1>4. \A g \in marked : status[g] \in {"executing", "canceling"} /\ server[g] \in {"snap", "publish", "handler"}
  BY <1>1, <1>3 DEF RecordFollows, ActionTypeOK
<1>5. ActionTypeOK'
  BY <1>1, <1>2, <1>3 DEF ActionTypeOK
<1>6. EndingsStay
  BY <1>1, <1>2, <1>3 DEF EndingsStay
<1>7. Life!Next
  BY <1>1, <1>2, <1>4 DEF Life!Next, Life!Arcs
<1>8. RecordFollows' /\ CancelMarks'
  BY <1>1, <1>2, <1>3, <1>4 DEF RecordFollows, CancelMarks
<1>9. NotSentYet' /\ NoLeakedFeedback'
  BY <1>1, <1>2 DEF NotSentYet, NoLeakedFeedback
<1> QED
  BY <1>2, <1>5, <1>6, <1>7, <1>8, <1>9, SaidStaysTrue DEF ActionInv

\* What stays when no status, no context and no place in the map changes.
LEMMA RecordStays ==
  ASSUME ActionInv, UNCHANGED <<status, ctx>>,
         \A g \in Goals :
           \/ server'[g] = server[g] /\ (g \in known' <=> g \in known)
           \/ server[g] \in {"idle", "request"} /\ server'[g] \in {"idle", "request"} /\ (g \in known' <=> g \in known)
           \/ server[g] \in {"snap", "publish", "handler"} /\ server'[g] \in {"snap", "publish", "handler"}
                /\ (g \in known' <=> g \in known)
           \/ server[g] \in {"endSnap", "endPublish", "grace"} /\ server'[g] \in {"endPublish", "grace", "dropped"}
  PROVE  RecordFollows' /\ CancelMarks' /\ EndingsStay /\ [Life!Next]_status
<1>1. RecordFollows /\ CancelMarks
  BY DEF ActionInv
<1> QED
  BY <1>1 DEF RecordFollows, CancelMarks, EndingsStay

\* Taking and publishing the status array: after a send_goal, at the end of a
\* goal and after a cancel.
LEMMA PublishKeepsInv ==
  ASSUME ActionInv, NEW p \in Publishers,
         \/ p \in Goals /\ (AcceptSnapshot(p) \/ EndSnapshot(p) \/ AcceptPublish(p) \/ EndPublish(p))
         \/ p \in Cancelers /\ (CancelSnapshot(p) \/ CancelPublish(p))
  PROVE  ActionInv' /\ [Life!Next]_status
<1> USE DEF clientVars
<1>1. ActionTypeOK /\ NotSentYet /\ NoLeakedFeedback
  BY DEF ActionInv
<1>2. /\ UNCHANGED <<known, status, ctx, handle, getResult, reply, result, pending, feedback>>
      /\ (TakeSnapshot(p) /\ latest' = latest) \/ PublishSnapshot(p)
  BY DEF AcceptSnapshot, EndSnapshot, AcceptPublish, EndPublish, CancelSnapshot, CancelPublish
<1>3. /\ canceler' \in [Cancelers -> {"idle", "snap", "publish"}]
      /\ \/ server' = server
         \/ p \in Goals /\ server[p] = "snap" /\ server' = [server EXCEPT ![p] = "publish"]
         \/ p \in Goals /\ server[p] = "publish" /\ server' = [server EXCEPT ![p] = "handler"]
         \/ p \in Goals /\ server[p] = "endSnap" /\ server' = [server EXCEPT ![p] = "endPublish"]
         \/ p \in Goals /\ server[p] = "endPublish" /\ server' = [server EXCEPT ![p] = "grace"]
  BY <1>1 DEF AcceptSnapshot, EndSnapshot, AcceptPublish, EndPublish, CancelSnapshot, CancelPublish,
     ActionTypeOK
<1>4. /\ snapshot' \in [Publishers -> Arrays] /\ latest' \in Arrays
      /\ SnapshotsTrue' /\ EndingsToldAreTrue' /\ RepliesTrue' /\ ResultIsFinal'
  BY <1>1, <1>2, SnapshotTaken, SnapshotPublished DEF ActionTypeOK
<1>5. ActionTypeOK'
  BY <1>1, <1>2, <1>3, <1>4 DEF ActionTypeOK
<1>6. RecordFollows' /\ CancelMarks' /\ [Life!Next]_status
  BY <1>1, <1>2, <1>3, RecordStays DEF ActionTypeOK
<1>7. NotSentYet' /\ NoLeakedFeedback'
  BY <1>1, <1>2, <1>3, ActionAssumption DEF NotSentYet, NoLeakedFeedback, ActionTypeOK
<1> QED
  BY <1>4, <1>5, <1>6, <1>7 DEF ActionInv

\* The server's other steps: feedback, dropping a record, a request for a result.
LEMMA ServeKeepsInv ==
  ASSUME ActionInv, NEW g \in Goals, SendFeedback(g) \/ DropGoal(g) \/ HandleGetResult(g) \/ ReceiveFeedback(g)
  PROVE  ActionInv' /\ [Life!Next]_status
<1> USE DEF clientVars, serverVars
<1>1. ActionTypeOK /\ NotSentYet /\ NoLeakedFeedback
  BY DEF ActionInv
<1>2. /\ UNCHANGED <<status, ctx, canceler, snapshot, latest, handle, reply, result, pending>>
      /\ \/ UNCHANGED <<server, known>>
         \/ server[g] = "grace" /\ server' = [server EXCEPT ![g] = "dropped"] /\ known' = known \ {g}
  BY DEF SendFeedback, DropGoal, HandleGetResult, ReceiveFeedback
<1>3. feedback' \in [Goals -> 0..FeedbackCap]
  <2>1. feedback \in [Goals -> 0..FeedbackCap] /\ FeedbackCap \in Nat
    BY <1>1, ActionAssumption DEF ActionTypeOK
  <2>2. feedback[g] + 1 \in 0..FeedbackCap \/ ~(feedback[g] < FeedbackCap)
    BY <2>1
  <2>3. feedback[g] > 0 => feedback[g] - 1 \in 0..FeedbackCap
    BY <2>1
  <2> QED
    BY <2>1, <2>2, <2>3 DEF SendFeedback, DropGoal, HandleGetResult, ReceiveFeedback
<1>4. getResult' \in [Goals -> {"idle", "request", "blocked", "answered"}]
  BY <1>1 DEF SendFeedback, DropGoal, HandleGetResult, ReceiveFeedback, ActionTypeOK
<1>5. ActionTypeOK'
  BY <1>1, <1>2, <1>3, <1>4 DEF ActionTypeOK
<1>6. RecordFollows' /\ CancelMarks' /\ EndingsStay /\ [Life!Next]_status
  BY <1>1, <1>2, RecordStays DEF ActionTypeOK
<1>7. NotSentYet' /\ NoLeakedFeedback'
  BY <1>1, <1>2, ActionAssumption DEF NotSentYet, NoLeakedFeedback, ActionTypeOK
<1> QED
  BY <1>2, <1>5, <1>6, <1>7, SaidStaysTrue DEF ActionInv

LEMMA AnswerKeepsInv ==
  ASSUME ActionInv, NEW g \in Goals, AnswerResult(g)
  PROVE  ActionInv' /\ [Life!Next]_status
<1> USE DEF serverVars
<1>1. /\ ActionTypeOK /\ NotSentYet /\ NoLeakedFeedback
      /\ SnapshotsTrue /\ EndingsToldAreTrue /\ RepliesTrue /\ ResultIsFinal
  BY DEF ActionInv
<1>2. /\ UNCHANGED <<known, status, ctx, server, canceler, snapshot, latest, handle, result, pending, feedback>>
      /\ status[g] \in Terminal
      /\ reply' = [reply EXCEPT ![g] = status[g]]
      /\ getResult' = [getResult EXCEPT ![g] = "answered"]
  BY DEF AnswerResult
<1>3. ActionTypeOK'
  BY <1>1, <1>2 DEF ActionTypeOK
<1>4. RecordFollows' /\ CancelMarks' /\ [Life!Next]_status
  BY <1>2, RecordStays
<1>5. RepliesTrue'
  BY <1>1, <1>2 DEF RepliesTrue, ActionTypeOK
<1>6. SnapshotsTrue' /\ EndingsToldAreTrue' /\ ResultIsFinal' /\ NotSentYet' /\ NoLeakedFeedback'
  BY <1>1, <1>2 DEF SnapshotsTrue, EndingsToldAreTrue, ResultIsFinal, NotSentYet, NoLeakedFeedback
<1> QED
  BY <1>3, <1>4, <1>5, <1>6 DEF ActionInv

\* The client sends, gives up, gets its handle, asks for the result.
LEMMA HandleKeepsInv ==
  ASSUME ActionInv, NEW g \in Goals,
         SendGoal(g) \/ ForeignGoal(g) \/ SendTimeout(g) \/ Accepted(g) \/ Result(g)
  PROVE  ActionInv' /\ [Life!Next]_status
<1> USE DEF clientVars, serverVars
<1>1. ActionTypeOK /\ NotSentYet /\ NoLeakedFeedback
  BY DEF ActionInv
<1>2. /\ UNCHANGED <<known, status, ctx, canceler, snapshot, latest, reply, result, feedback>>
      /\ \/ UNCHANGED server
         \/ server[g] = "idle" /\ server' = [server EXCEPT ![g] = "request"]
  BY <1>1 DEF SendGoal, ForeignGoal, SendTimeout, Accepted, Result, NotSentYet
<1>3. /\ handle' \in [Goals -> {"idle", "sending", "accepted", "waiting", "released"}]
      /\ getResult' \in [Goals -> {"idle", "request", "blocked", "answered"}]
      /\ pending' \subseteq Goals
  BY <1>1 DEF SendGoal, ForeignGoal, SendTimeout, Accepted, Result, Release, ActionTypeOK
<1>4. ActionTypeOK'
  BY <1>1, <1>2, <1>3 DEF ActionTypeOK
<1>5. RecordFollows' /\ CancelMarks' /\ EndingsStay /\ [Life!Next]_status
  BY <1>1, <1>2, RecordStays DEF ActionTypeOK
<1>6. NotSentYet'
  BY <1>1, ActionAssumption
  DEF NotSentYet, SendGoal, ForeignGoal, SendTimeout, Accepted, Result, ActionTypeOK
<1>7. NoLeakedFeedback'
  BY <1>1 DEF NoLeakedFeedback, SendGoal, ForeignGoal, SendTimeout, Accepted, Result, Release, ActionTypeOK
<1> QED
  BY <1>2, <1>4, <1>5, <1>6, <1>7, SaidStaysTrue DEF ActionInv

LEMMA ResultKeepsInv ==
  ASSUME ActionInv, NEW g \in Goals, ResultAnswered(g) \/ ResultTimeout(g)
  PROVE  ActionInv' /\ [Life!Next]_status
<1> USE DEF serverVars
<1>1. /\ ActionTypeOK /\ NotSentYet /\ NoLeakedFeedback
      /\ SnapshotsTrue /\ EndingsToldAreTrue /\ RepliesTrue /\ ResultIsFinal
  BY DEF ActionInv
<1>2. PICK told \in Statuses, ok \in BOOLEAN :
        /\ ResultReturns(g, told, ok)
        /\ told = reply[g] \/ told = "none"
  <2>1. reply[g] \in Statuses /\ "none" \in Statuses
    BY <1>1 DEF ActionTypeOK
  <2> QED
    BY <2>1 DEF ResultAnswered, ResultTimeout
<1>3. /\ UNCHANGED <<known, status, ctx, server, canceler, snapshot, latest, getResult, reply, feedback>>
      /\ handle[g] = "waiting" /\ handle' = [handle EXCEPT ![g] = "released"]
      /\ result' = [result EXCEPT ![g] = [status |-> told, ok |-> ok]]
      /\ pending' = pending \ {g}
  BY <1>2 DEF ResultReturns, Release
<1>4. ActionTypeOK'
  <2>1. result' \in [Goals -> [status: Statuses, ok: BOOLEAN]]
    BY <1>1, <1>3 DEF ActionTypeOK
  <2> QED
    BY <1>1, <1>3, <2>1 DEF ActionTypeOK
<1>5. RecordFollows' /\ CancelMarks' /\ [Life!Next]_status
  BY <1>3, RecordStays
<1>6. ResultIsFinal'
  <2>1. told # "none" => told \in Terminal /\ told = status[g]
    BY <1>1, <1>2 DEF RepliesTrue
  <2>2. result'[g].status = told /\ \A h \in Goals \ {g} : result'[h] = result[h]
    BY <1>1, <1>3 DEF ActionTypeOK
  <2> QED
    BY <1>1, <1>3, <2>1, <2>2 DEF ResultIsFinal
<1>7. SnapshotsTrue' /\ EndingsToldAreTrue' /\ RepliesTrue'
  BY <1>1, <1>3 DEF SnapshotsTrue, EndingsToldAreTrue, RepliesTrue
<1>8. NotSentYet' /\ NoLeakedFeedback'
  BY <1>1, <1>3, ActionAssumption DEF NotSentYet, NoLeakedFeedback, ActionTypeOK
<1> QED
  BY <1>4, <1>5, <1>6, <1>7, <1>8 DEF ActionInv

LEMMA StepKeepsInv ==
  ASSUME ActionInv, [ActionNext]_actionVars
  PROVE  ActionInv' /\ [Life!Next]_status
<1>1. ASSUME NEW g \in Goals, ServerNext(g)
      PROVE  ActionInv' /\ [Life!Next]_status
  BY <1>1, StatusKeepsInv, PublishKeepsInv, ServeKeepsInv, AnswerKeepsInv DEF ServerNext, Publishers
<1>2. ASSUME NEW c \in Cancelers, CancelNext(c)
      PROVE  ActionInv' /\ [Life!Next]_status
  <2>1. ASSUME NEW named \in SUBSET Goals, HandleCancel(c, named)
        PROVE  ActionInv' /\ [Life!Next]_status
    BY <2>1, CancelKeepsInv
  <2>2. Goals \in SUBSET Goals /\ \A g \in Goals : {g} \in SUBSET Goals
    OBVIOUS
  <2>3. CASE CancelSnapshot(c) \/ CancelPublish(c)
    BY <2>3, PublishKeepsInv DEF Publishers
  <2> QED
    BY <1>2, <2>1, <2>2, <2>3 DEF CancelNext
<1>3. ASSUME NEW g \in Goals, ClientNext(g)
      PROVE  ActionInv' /\ [Life!Next]_status
  BY <1>3, HandleKeepsInv, ResultKeepsInv, ServeKeepsInv DEF ClientNext
<1>4. CASE UNCHANGED actionVars
  BY <1>4 DEF actionVars, ActionInv, ActionTypeOK, RecordFollows, CancelMarks, NotSentYet, SnapshotsTrue,
     EndingsToldAreTrue, RepliesTrue, ResultIsFinal, NoLeakedFeedback
<1> QED
  BY <1>1, <1>2, <1>3, <1>4 DEF ActionNext

-----------------------------------------------------------------------------
(* What follows.                                                             *)

\* In every reachable state the inductive invariant holds: what the other
\* theorems rest on.
THEOREM ActionInvariance == ActionSpec => []ActionInv
<1>1. ActionInv /\ [ActionNext]_actionVars => ActionInv'
  BY StepKeepsInv
<1> QED
  BY ActionStarts, <1>1, PTL DEF ActionSpec

\* What a get_result answer or the latched status array says of the end of a goal
\* is what the server's record says, then and ever after.
THEOREM Told == ActionSpec => []ToldIsTrue
<1>1. ActionInv => ToldIsTrue
  BY DEF ActionInv, ToldIsTrue
<1> QED
  BY ActionInvariance, <1>1, PTL

\* SendGoal's and Result's early returns leave no feedback channel behind.
THEOREM NoLeak == ActionSpec => []NoLeakedFeedback
<1>1. ActionInv => NoLeakedFeedback
  BY DEF ActionInv
<1> QED
  BY ActionInvariance, <1>1, PTL

\* The server's goals live the life the action protocol gives them, however
\* cancel requests race with the handlers' returns.
THEOREM Refinement == ActionSpec => GoalsImplementLife
<1>1. ActionInit => Life!Init
  BY DEF ActionInit, Life!Init
<1>2. ActionInv /\ [ActionNext]_actionVars => [Life!Next]_status
  BY StepKeepsInv
<1> QED
  BY ActionInvariance, <1>1, <1>2, PTL DEF ActionSpec, GoalsImplementLife, Life!Spec
=============================================================================
