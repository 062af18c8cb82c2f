----------------------------- MODULE Telemetry ------------------------------
(***************************************************************************)
(* Spans: every callback of every process is recorded in the ring of its   *)
(* process when it ends (trace.go, node.go, dashboard.go), the fleet view  *)
(* polls the processes for what it has not seen (fleet_traces.go,          *)
(* spans.go), keeps it in a store of its own and stitches the causal       *)
(* chains of several processes together.                                   *)
(*                                                                         *)
(* The clock of a process is off by Offset: a span carries the time its    *)
(* own process had. Time is coarse here, so two spans may start at once.   *)
(***************************************************************************)
EXTENDS Integers, FiniteSets, SequencesExt

CONSTANTS Processes,
          Offset,      \* what each process's clock adds to the true time
          RingSize,    \* spans a process keeps
          StoreSize,   \* spans the fleet view keeps
          Limit,       \* spans in one answer
          MaxSpans,    \* bound: spans started
          Horizon,     \* bound: on time
          MaxRestarts  \* bound: of processes

\* A clock reads a time after the zero time.
ASSUME TelemetryAssumption ==
  /\ RingSize \in Nat \ {0} /\ StoreSize \in Nat \ {0} /\ Limit \in Nat \ {0}
  /\ MaxSpans \in Nat /\ Horizon \in Nat
  /\ \A p \in Processes : Offset[p] \in Nat

Ids == 1..MaxSpans
NoSpan == 0
\* A span: a root has no parent and a trace of its own.
Spans == [id : Ids, trace : Ids, parent : Ids \cup {NoSpan}, process : Processes, start : Int]

VARIABLES
  time,        \* the true time
  running,    \* callbacks under way: their spans
  begun,      \* the spans of all that began, in order: what a message may carry
  ring,       \* what each process keeps, in the order it was recorded
  store,      \* what the fleet view keeps
  cursor,     \* the latest start seen, by process
  poll,       \* the poll of each process in this round
  collected,  \* every span the store was ever given, and how often
  restarts

telemetryVars == <<time, running, begun, ring, store, cursor, poll, collected, restarts>>

Never == -1    \* the zero time
Polls == {"asked", "answered", "over"}

TelemetryTypeOK ==
  /\ time \in 0..Horizon
  /\ running \subseteq Spans
  /\ begun \in Seq(Spans)
  /\ ring \in [Processes -> Seq(Spans)] /\ store \in Seq(Spans)
  /\ cursor \in [Processes -> Int]
  /\ \A p \in Processes : poll[p].at \in Polls /\ poll[p].spans \in Seq(Spans)
  /\ collected \in [Ids -> Nat]

Asked(since) == [at |-> "asked", since |-> since, spans |-> <<>>]
Answered(spans) == [at |-> "answered", since |-> Never, spans |-> spans]
Over == [at |-> "over", since |-> Never, spans |-> <<>>]

TelemetryInit ==
  /\ time = 0 /\ running = {} /\ begun = <<>> /\ restarts = 0
  /\ ring = [p \in Processes |-> <<>>]
  /\ store = <<>>
  /\ cursor = [p \in Processes |-> Never]
  /\ poll = [p \in Processes |-> Asked(Never)]
  /\ collected = [s \in Ids |-> 0]

\* The last n of a sequence: a ring that writes over its oldest element.
Latest(s, n) == IF Len(s) <= n THEN s ELSE SubSeq(s, Len(s) - n + 1, Len(s))

NotAfter(a, b) == a.start < b.start \/ (a.start = b.start /\ a.id <= b.id)

\* Oldest first; of those that start at once the code puts any first, here the one
\* that began first. The k-th span of S has k spans of S up to itself.
ByStart(S) ==
  [k \in 1..Cardinality(S) |-> CHOOSE s \in S : Cardinality({r \in S : NotAfter(r, s)}) = k]

-----------------------------------------------------------------------------
(* The processes.                                                          *)

Tick == /\ time < Horizon
        /\ time' = time + 1
        /\ UNCHANGED <<running, begun, ring, store, cursor, poll, collected, restarts>>

\* startSpan: caused by a message of an earlier span, of whichever process, or
\* by nothing: a timer, a call from outside, a step.
startSpan(p) ==
  /\ Len(begun) < MaxSpans
  /\ LET id == Len(begun) + 1 IN
     \E cause \in DOMAIN begun \cup {NoSpan} :
       LET s == [id |-> id, process |-> p, start |-> time + Offset[p], parent |-> cause,
                 trace |-> IF cause = NoSpan THEN id ELSE begun[cause].trace]
       IN  running' = running \cup {s} /\ begun' = Append(begun, s)
  /\ UNCHANGED <<time, ring, store, cursor, poll, collected, restarts>>

\* finish and the ring's Export: a span is recorded when it ends.
finish(s) ==
  /\ s \in running
  /\ running' = running \ {s}
  /\ ring' = [ring EXCEPT ![s.process] = Latest(Append(@, s), RingSize)]
  /\ UNCHANGED <<time, begun, store, cursor, poll, collected, restarts>>

\* A process that starts over begins with an empty ring.
Restart(p) ==
  /\ restarts < MaxRestarts
  /\ restarts' = restarts + 1
  /\ ring' = [ring EXCEPT ![p] = <<>>]
  /\ running' = {s \in running : s.process # p}
  /\ UNCHANGED <<time, begun, store, cursor, poll, collected>>

-----------------------------------------------------------------------------
(* A round of the collector: every process is asked, all answers awaited.  *)

\* What started after the cursor; when that is too much, the most recent.
records(p, since) ==
  Latest(ByStart({s \in ToSet(ring[p]) : since = Never \/ s.start > since}), Limit)

Answer(p) ==
  /\ poll[p].at = "asked"
  /\ poll' = [poll EXCEPT ![p] = Answered(records(p, poll[p].since))]
  /\ UNCHANGED <<time, running, begun, ring, store, cursor, collected, restarts>>

\* A process that is down, or too slow: its poll fails, without a word.
NoAnswer(p) ==
  /\ poll[p].at \in {"asked", "answered"}
  /\ poll' = [poll EXCEPT ![p] = Over]
  /\ UNCHANGED <<time, running, begun, ring, store, cursor, collected, restarts>>

Starts(spans) == {spans[i].start : i \in DOMAIN spans}

\* Mutant: the cursor is set to when the answer is read.
collectNow(p) ==
  /\ poll[p].at = "answered"
  /\ store' = Latest(store \o poll[p].spans, StoreSize)
  /\ collected' = [s \in Ids |-> collected[s] + Cardinality({i \in DOMAIN poll[p].spans :
                                                               poll[p].spans[i].id = s})]
  /\ poll' = [poll EXCEPT ![p] = Over]
  /\ cursor' = [cursor EXCEPT ![p] = time + Offset[p]]
  /\ UNCHANGED <<time, running, begun, ring, restarts>>

\* add, then advance.
collect(p) ==
  /\ poll[p].at = "answered"
  /\ store' = Latest(store \o poll[p].spans, StoreSize)
  /\ collected' = [s \in Ids |-> collected[s] + Cardinality({i \in DOMAIN poll[p].spans :
                                                               poll[p].spans[i].id = s})]
  /\ cursor' = [cursor EXCEPT ![p] = Max(Starts(poll[p].spans) \cup {@})]
  /\ poll' = [poll EXCEPT ![p] = Over]
  /\ UNCHANGED <<time, running, begun, ring, restarts>>

\* wg.Wait, then the ticker: each process is asked for what is after its cursor,
\* which its own poll alone moves.
NextRound ==
  /\ \A p \in Processes : poll[p].at = "over"
  /\ poll' = [p \in Processes |-> Asked(cursor[p])]
  /\ UNCHANGED <<time, running, begun, ring, store, cursor, collected, restarts>>

Poll(p) == Answer(p) \/ NoAnswer(p) \/ collect(p)

TelemetryNext ==
  \/ Tick
  \/ \E p \in Processes : startSpan(p) \/ Restart(p) \/ Poll(p)
  \/ \E s \in running : finish(s)
  \/ NextRound

TelemetrySpec == TelemetryInit /\ [][TelemetryNext]_telemetryVars

-----------------------------------------------------------------------------
(* The view of the store (traces, stitch).                                 *)

Of(S, id) == CHOOSE s \in S : s.id = id
IdsOf(S) == {s.id : s \in S}
Group(trace) == {s \in ToSet(store) : s.trace = trace}

Orphan(S, s) == s.parent # NoSpan /\ s.parent \notin IdsOf(S)

\* A span whose parent is not in the store begins a tree of its own.
roots(S) == {s \in S : s.parent = NoSpan \/ Orphan(S, s)}
children(S, s) == {k \in S : k.parent = s.id}

\* walk: depth first, children by their start; a stack of what is to come.
Walked(S) ==
  LET Down[stack \in Seq([span : S, depth : Nat])] ==
        IF stack = <<>> THEN <<>>
        ELSE LET top == Head(stack)
                 kids == ByStart(children(S, top.span))
             IN  <<top>> \o Down[[i \in DOMAIN kids |-> [span |-> kids[i], depth |-> top.depth + 1]]
                                 \o Tail(stack)]
      all == ByStart(roots(S))
  IN Down[[i \in DOMAIN all |-> [span |-> all[i], depth |-> 0]]]

\* The line a span is drawn as.
View(S, w) ==
  LET s == w.span IN
  [span |-> s, depth |-> w.depth, orphan |-> Orphan(S, s),
   handover |-> s.parent \in IdsOf(S) /\ Of(S, s.parent).process # s.process]
stitch(S) == [i \in DOMAIN Walked(S) |-> View(S, Walked(S)[i])]

Crosses(S) == Cardinality({s.process : s \in S}) > 1

\* How far a span seems to start before its cause, between two processes.
Skew(S, p, q) ==
  Max({0} \cup {Of(S, k.parent).start - k.start :
                k \in {s \in S : s.process = q /\ s.parent \in IdsOf(S) /\ Of(S, s.parent).process = p}})

-----------------------------------------------------------------------------
(* Properties.                                                             *)

\* The cursor asks for each span once: none is in the store twice.
NoSpanTwice == \A s \in Ids : collected[s] <= 1

\* A chain is shown whole and causally: every stored span of the trace once, a
\* cause before and one level above what it caused; what lacks its cause is
\* marked ("marked, not hidden", README.md:822).
ChainsAreCausal ==
  \A t \in Ids : Group(t) # {} =>
    LET v == stitch(Group(t)) IN
    /\ Len(v) = Cardinality(Group(t)) /\ {v[i].span : i \in DOMAIN v} = Group(t)
    /\ \A i \in DOMAIN v : v[i].depth > 0 =>
         \E j \in 1..(i - 1) : v[j].span.id = v[i].span.parent /\ v[j].depth = v[i].depth - 1
    /\ \A i \in DOMAIN v : v[i].orphan \/ v[i].depth > 0 \/ v[i].span.parent = NoSpan

\* FLEET07 tells of clocks that do disagree, by as much as it says or more
\* ("those clocks disagree", fleet_traces.go:212).
SkewIsReal ==
  \A t \in Ids : \A p, q \in Processes : Skew(Group(t), p, q) > 0 =>
    p # q /\ Offset[p] - Offset[q] >= Skew(Group(t), p, q)

\* "Returns only what it has recorded since the last poll" (README.md:816): a
\* span of the ring is collected, or in the answer of the next poll.
NothingSkipped ==
  \A p \in Processes : \A s \in ToSet(ring[p]) :
    collected[s.id] = 0 => s.start > cursor[p]

\* What the cursor passes over was late: a span that started no earlier ended
\* before it and was collected. When all of a ring fits an answer, nothing else
\* of it is lost.
OnlyTheLateAreSkipped ==
  Limit >= RingSize =>
    \A p \in Processes : \A i \in DOMAIN ring[p] :
      LET s == ring[p][i] IN
      collected[s.id] = 0 /\ s.start <= cursor[p] =>
        \E c \in ToSet(begun) : /\ collected[c.id] > 0
                                /\ c.process = p /\ c.start >= s.start
                                /\ \A j \in i..Len(ring[p]) : ring[p][j] # c

\* What the portal is told of spans: none twice, no disagreement of clocks that
\* is not one, and nothing passed over but what is late.
TracesAreTrue == TelemetryTypeOK /\ NoSpanTwice /\ SkewIsReal /\ OnlyTheLateAreSkipped
=============================================================================
