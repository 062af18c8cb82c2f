------------------------------- MODULE MCNode -------------------------------
(* A node with a latched subscription and hooks around Active.               *)
EXTENDS ManagedNode, TLC

LeaveHooks == {"activate", "deactivate", "activeShutdown"}
Sym == Permutations(Threads)
=============================================================================
