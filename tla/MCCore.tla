------------------------------- MODULE MCCore -------------------------------
(* Two parts of the runtime that share nothing, one of them in each          *)
(* behaviour: the action protocol and the life of an application.            *)
EXTENDS ActionProtocol, AppLife

VARIABLE system

coreVars == <<actionVars, lifeVars, system>>

\* Every graph of four nodes in which each provides one thing is checked; a
\* few are run.
Own == [n \in 1..4 |-> {n}]
Others == {f \in [1..4 -> SUBSET (1..4)] : \A n \in 1..4 : n \notin f[n]}

\* A diamond with its sink declared first, and a loop with a node below it.
MCLaunched ==
  {[provides |-> Own, consumes |-> f] :
     f \in {<<{2, 3}, {4}, {4}, {}>>, <<{2}, {1, 4}, {1}, {}>>}}

\* Two providers of one name, and a node that hears itself.
Odd ==
  {[provides |-> <<{1}, {1}, {3}, {3, 4}>>, consumes |-> <<{1, 3}, {}, {1}, {4}>>]}

MCApps == {[provides |-> Own, consumes |-> f] : f \in Others} \cup Odd

CoreInit ==
  /\ system \in {"action", "app"}
  /\ ActionInit /\ AppInit
  /\ system # "app" => app = CHOOSE a \in Odd : TRUE

CoreNext ==
  /\ UNCHANGED system
  /\ \/ system = "action" /\ ActionNext /\ UNCHANGED lifeVars
     \/ system = "app" /\ AppNext /\ UNCHANGED actionVars

CoreSpec == CoreInit /\ [][CoreNext]_coreVars /\ ActionFairness
=============================================================================
