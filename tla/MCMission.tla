----------------------------- MODULE MCMission -----------------------------
(* A two-step mission: fetch retries with a backoff and a timeout, then      *)
(* fails over to recover, which retries at once and goes back to fetch.      *)
EXTENDS MissionRunner, TLC

MCDef ==
  [s \in {"fetch", "recover"} |->
     IF s = "fetch"
     THEN [next |-> "done", fail |-> "recover", retry |-> 1,
           timeout |-> TRUE, backoff |-> TRUE]
     ELSE [next |-> "fetch", fail |-> "", retry |-> 1,
           timeout |-> FALSE, backoff |-> FALSE]]

Sym == Permutations(Callers)
=============================================================================
