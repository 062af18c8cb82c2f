------------------------------ MODULE SimClock ------------------------------
(***************************************************************************)
(* The simulated clock (simClock, clock.go): timers, step timeouts,        *)
(* backoffs and Task.Sleep under -use-sim-time.  Nothing moves it but the  *)
(* messages on /clock, which the transport may deliver on several          *)
(* goroutines.  Set decides under c.mu what fires and sends after the      *)
(* unlock, to channels with room for one value, without blocking.          *)
(***************************************************************************)
EXTENDS Integers

CONSTANTS
  Waiters,   \* the After and Ticker calls that may be made
  Tickers,   \* those of them that are Ticker calls
  Wait,      \* waiter |-> its duration or period
  Setters,   \* goroutines that deliver /clock
  MaxTime    \* bound: the times a simulator publishes

ASSUME ClockAssumption ==
  /\ Tickers \subseteq Waiters
  /\ Wait \in [Waiters -> Nat]
  /\ \A w \in Tickers : Wait[w] > 0
  /\ MaxTime \in Nat

VARIABLES
  now, started,   \* the clock
  waiter,         \* waiter |-> the simWaiter; "held": it is in c.waiters
  setter,         \* setter |-> the waiters its Set has yet to send to
  chan,           \* waiter |-> values in its channel
  got,            \* the waiters whose channel has been received from
  since           \* history: waiter |-> the time its wait counts from

vars == <<now, started, waiter, setter, chan, got, since>>

WaiterState == [pc: {"none", "held", "gone"}, at: Int, anchored: BOOLEAN, stopped: BOOLEAN]

TypeOK ==
  /\ now \in 0..MaxTime
  /\ started \in BOOLEAN
  /\ waiter \in [Waiters -> WaiterState]
  /\ setter \in [Setters -> SUBSET Waiters]
  /\ chan \in [Waiters -> {0, 1}]
  /\ got \subseteq Waiters
  /\ since \in [Waiters -> 0..MaxTime]

Init ==
  /\ now = 0 /\ started = FALSE
  /\ waiter = [w \in Waiters |->
                 [pc |-> "none", at |-> 0, anchored |-> FALSE, stopped |-> FALSE]]
  /\ setter = [s \in Setters |-> {}]
  /\ chan = [w \in Waiters |-> 0]
  /\ got = {}
  /\ since = [w \in Waiters |-> 0]

\* After and Ticker.
Create(w) ==
  /\ waiter[w].pc = "none"
  /\ waiter' = [waiter EXCEPT ![w] = [pc |-> "held", at |-> now + Wait[w],
                                      anchored |-> started, stopped |-> FALSE]]
  /\ since' = [since EXCEPT ![w] = now]
  /\ UNCHANGED <<now, started, setter, chan, got>>

\* The stop function Ticker returns: the waiter goes at the next Set.
StopTicker(w) ==
  /\ w \in Tickers
  /\ waiter[w].pc = "held"
  /\ ~waiter[w].stopped
  /\ waiter' = [waiter EXCEPT ![w].stopped = TRUE]
  /\ UNCHANGED <<now, started, setter, chan, got, since>>

\* Mutant: a reset leaves the deadlines where they are.
DeadlineUnreset(w, t) ==
  IF started \/ waiter[w].anchored THEN waiter[w].at ELSE t + Wait[w]

\* Mutant: a wait from before time began ends as time begins.
DeadlineAtOnce(w, t) ==
  LET at == IF started \/ waiter[w].anchored THEN waiter[w].at ELSE t
  IN  IF started /\ t < now /\ at > t THEN t ELSE at

\* Set's first two loops: a wait becomes a deadline when time begins, and a
\* reset drops a deadline to the new time.
Deadline(w, t) ==
  LET at == IF started \/ waiter[w].anchored THEN waiter[w].at ELSE t + Wait[w]
  IN  IF started /\ t < now /\ at > t THEN t ELSE at

\* Set's third loop: what fires.
Due(w, t) ==
  /\ waiter[w].pc = "held" /\ ~waiter[w].stopped
  /\ waiter[w].anchored \/ ~started
  /\ Deadline(w, t) <= t

\* ... and what becomes of a waiter.  A ticker that fires counts from t, however
\* many periods the jump to t has passed.
Moved(w, t) ==
  LET u == waiter[w] IN
  CASE u.pc # "held"                   -> u
    [] u.pc = "held" /\ u.stopped      -> [u EXCEPT !.pc = "gone", !.at = 0]
    [] Due(w, t) /\ w \in Tickers      -> [u EXCEPT !.at = t + Wait[w], !.anchored = TRUE]
    [] Due(w, t) /\ w \notin Tickers   -> [u EXCEPT !.pc = "gone", !.at = 0]
    [] OTHER                           -> [u EXCEPT !.at = Deadline(w, t),
                                                    !.anchored = @ \/ ~started]

\* Set(t), up to its unlock.
Set(s, t) ==
  /\ setter[s] = {}
  /\ now' = t
  /\ started' = TRUE
  /\ waiter' = [w \in Waiters |-> Moved(w, t)]
  /\ setter' = [setter EXCEPT ![s] = {w \in Waiters : Due(w, t)}]
  /\ since' = [w \in Waiters |-> IF waiter[w].pc = "held" /\ (~started \/ Due(w, t) \/ t < now)
                                 THEN t ELSE since[w]]
  /\ UNCHANGED <<chan, got>>

\* Mutant: the channel has no room, and nobody is receiving just now.
SendUnbuffered(s, w) ==
  /\ w \in setter[s]
  /\ setter' = [setter EXCEPT ![s] = @ \ {w}]
  /\ UNCHANGED <<now, started, waiter, chan, got, since>>

\* Set, after its unlock: a value that finds the channel full is dropped.
Send(s, w) ==
  /\ w \in setter[s]
  /\ setter' = [setter EXCEPT ![s] = @ \ {w}]
  /\ chan' = [chan EXCEPT ![w] = 1]
  /\ UNCHANGED <<now, started, waiter, got, since>>

Receive(w) ==
  /\ chan[w] = 1
  /\ chan' = [chan EXCEPT ![w] = 0]
  /\ got' = got \cup {w}
  /\ UNCHANGED <<now, started, waiter, setter, since>>

Next ==
  \/ \E w \in Waiters : Create(w) \/ StopTicker(w) \/ Receive(w)
  \/ \E s \in Setters :
       \/ \E t \in 0..MaxTime : Set(s, t)
       \/ \E w \in Waiters : Send(s, w)

Spec == Init /\ [][Next]_vars

-----------------------------------------------------------------------------
(* Properties.                                                               *)

\* Nobody waits for a time that will not come: whatever jumps and resets the
\* clock has made, what is held fires within its own wait of the present.
NeverBehindNorBeyond ==
  \A w \in Waiters :
    waiter[w].pc = "held" /\ ~waiter[w].stopped =>
      /\ waiter[w].anchored = started
      /\ started => waiter[w].at \in now..(now + Wait[w])

\* The step puts w on some Set's list of what to send.
Fires(w) == \E s \in Setters : w \in setter'[s] \ setter[s]

\* Nothing fires before its wait has passed on the simulator's clock, counted
\* from when it was created, last fired, or the clock got its first time;
\* except that a reset fires everything.
NothingEarly ==
  [][\A w \in Waiters :
       Fires(w) => \/ started /\ now' < now
                   \/ now' >= (IF started THEN since[w] ELSE now') + Wait[w]]_vars

\* A one-shot wait that has left the clock's list is on its way to the channel,
\* in it, or received: a step's timeout, backoff or sleep cannot be lost to the
\* non-blocking send.
AfterNeverLost ==
  \A w \in Waiters \ Tickers :
    waiter[w].pc = "gone" =>
      w \in got \/ chan[w] = 1 \/ \E s \in Setters : w \in setter[s]

\* A one-shot wait fires once.
AfterFiresOnce ==
  \A w \in Waiters \ Tickers :
    /\ waiter[w].pc # "gone" => w \notin got /\ chan[w] = 0 /\ \A s \in Setters : w \notin setter[s]
    /\ w \in got => chan[w] = 0 /\ \A s \in Setters : w \notin setter[s]

\* ... so between them, however many goroutines deliver /clock, every one-shot
\* wait that is over has been answered exactly once.
AfterFiresExactlyOnce == TypeOK /\ AfterNeverLost /\ AfterFiresOnce
=============================================================================
