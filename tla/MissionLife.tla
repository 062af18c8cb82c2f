---------------------------- MODULE MissionLife ----------------------------
(***************************************************************************)
(* What a mission promises whoever watches it: it is started, it is        *)
(* perhaps asked to stop, and it ends once.  It is never started while it  *)
(* runs, never ends twice, and ends canceled only if somebody asked.       *)
(***************************************************************************)
EXTENDS Integers

VARIABLES
  status,   \* "idle", "running", "done", "failed" or "canceled"
  gen,      \* how many times it has been started
  asked     \* the current run has been asked to stop

vars == <<status, gen, asked>>

Init == status = "idle" /\ gen = 0 /\ asked = FALSE

Begin ==
  /\ status # "running"
  /\ status' = "running"
  /\ gen' = gen + 1
  /\ asked' = FALSE

Ask ==
  /\ gen > 0
  /\ asked' = TRUE
  /\ UNCHANGED <<status, gen>>

End ==
  /\ status = "running"
  /\ status' \in {"done", "failed", "canceled"}
  /\ status' = "canceled" => asked
  /\ UNCHANGED <<gen, asked>>

Next == Begin \/ Ask \/ End

Spec == Init /\ [][Next]_vars
=============================================================================
