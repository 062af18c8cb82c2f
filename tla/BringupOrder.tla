---------------------------- MODULE BringupOrder ----------------------------
(***************************************************************************)
(* The bringup order, computed twice: by `conductor check` and the         *)
(* generators from the scanned graph (Graph.BringupOrder,                  *)
(* internal/graph/graph.go) and by the application as it starts            *)
(* (BringupOrder, bringup.go).  Both run Kahn's algorithm; they differ in  *)
(* when they sort the nodes that are ready.  A node is its position in the *)
(* declaration.  One step is one turn of the loop.                         *)
(***************************************************************************)
EXTENDS Integers, Sequences, FiniteSets

CONSTANTS
  N,       \* how many nodes are declared
  Names,   \* topics, services and actions
  Apps     \* the applications: what each node provides and consumes

Nodes == 1..N

ASSUME OrderAssumption ==
  /\ N \in Nat
  /\ Apps \subseteq [provides: [Nodes -> SUBSET Names], consumes: [Nodes -> SUBSET Names]]

VARIABLES
  app,     \* the application's provides and consumes
  kahn     \* algorithm |-> its locals

orderVars == <<app, kahn>>

Algorithms == {"graph", "bringup"}

\* node |-> the nodes that provide something it consumes.
edges == [n \in Nodes |-> {p \in Nodes \ {n} : app.consumes[n] \cap app.provides[p] # {}}]

\* sort.Slice by position: the k-th node of S has k nodes of S up to itself.
InDeclarationOrder(S) ==
  [k \in 1..Cardinality(S) |-> CHOOSE n \in S : Cardinality({m \in S : m <= n}) = k]

Members(s) == {s[i] : i \in DOMAIN s}

KahnState ==
  [ready: Seq(Nodes), order: Seq(Nodes), done: SUBSET Nodes, indegree: [Nodes -> Int],
   cycles: SUBSET Nodes, returned: BOOLEAN]

OrderTypeOK ==
  /\ app \in [provides: [Nodes -> SUBSET Names], consumes: [Nodes -> SUBSET Names]]
  /\ kahn \in [Algorithms -> KahnState]

\* The state before the loop.
Begun ==
  [ready    |-> InDeclarationOrder({n \in Nodes : edges[n] = {}}),
   order    |-> <<>>,
   done     |-> {},
   indegree |-> [n \in Nodes |-> Cardinality(edges[n])],
   cycles   |-> {},
   returned |-> FALSE]

OrderInit ==
  /\ app \in Apps
  /\ kahn = [a \in Algorithms |-> Begun]

\* Mutant: a node is unlocked by the first of its providers.
UnlockedByAny(k, n) == {m \in Nodes \ (k.done \cup {n}) : n \in edges[m] /\ k.indegree[m] > 0}

\* The nodes whose last provider is n.
Unlocked(k, n) == {m \in Nodes \ (k.done \cup {n}) : n \in edges[m] /\ k.indegree[m] = 1}

\* bringup.go sorts what a node unlocked and puts it behind what was ready;
\* graph.go sorts all that is ready.
Queue(a, rest, unlocked) ==
  IF a = "graph" THEN InDeclarationOrder(Members(rest) \cup unlocked)
                 ELSE rest \o InDeclarationOrder(unlocked)

\* One turn of the loop.
Pop(a) ==
  LET k == kahn[a]
      n == Head(k.ready)
  IN  /\ ~k.returned
      /\ k.ready # <<>>
      /\ kahn' = [kahn EXCEPT ![a] =
           [k EXCEPT !.order = Append(k.order, n),
                     !.done = k.done \cup {n},
                     !.indegree = [m \in Nodes |-> IF m \notin k.done \cup {n} /\ n \in edges[m]
                                                   THEN k.indegree[m] - 1 ELSE k.indegree[m]],
                     !.ready = Queue(a, Tail(k.ready), Unlocked(k, n))]]
      /\ UNCHANGED app

\* The loop is over: what it has not reached follows in declaration order.
Return(a) ==
  LET k == kahn[a]
  IN  /\ ~k.returned
      /\ k.ready = <<>>
      /\ kahn' = [kahn EXCEPT ![a] =
           [k EXCEPT !.order = k.order \o InDeclarationOrder(Nodes \ k.done),
                     !.cycles = Nodes \ k.done,
                     !.returned = TRUE]]
      /\ UNCHANGED app

-----------------------------------------------------------------------------
(* Properties.                                                               *)

\* A node of the order follows every node it consumes from, except those the
\* algorithm could not order and names in cycles.
ProvidersFirst ==
  \A a \in Algorithms :
    LET order == kahn[a].order IN
    \A i \in DOMAIN order :
      order[i] \notin kahn[a].cycles =>
        \A p \in edges[order[i]] : \E j \in 1..(i - 1) : order[j] = p

\* Every declared node is brought up, once.
OrderIsComplete ==
  \A a \in Algorithms : kahn[a].returned =>
    /\ Members(kahn[a].order) = Nodes
    /\ Len(kahn[a].order) = N

\* Nodes that wait for one another: none of them can be the first.
Deadlocked(S) == \A n \in S : edges[n] \cap S # {}

\* What is named in cycles is what depends, at whatever distance, on a node that
\* depends on itself: the largest set of nodes that wait for one another.
\* Nothing that could have been ordered is given up on.
CyclesAreReal ==
  \A a \in Algorithms : kahn[a].returned =>
    kahn[a].cycles = UNION {S \in SUBSET Nodes : Deadlocked(S)}

\* What both computations of the order owe their callers.
OrderIsRight == OrderTypeOK /\ ProvidersFirst /\ OrderIsComplete /\ CyclesAreReal

\* The order conductor check reports is the one the application follows
\* ("the static mirror of the runtime's ordering", internal/graph/graph.go:374).
MirrorsRuntime ==
  (\A a \in Algorithms : kahn[a].returned) => kahn["graph"].order = kahn["bringup"].order
=============================================================================
