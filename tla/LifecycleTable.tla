--------------------------- MODULE LifecycleTable ---------------------------
(* The states and transitions of a managed node (lifecycle_wire.go).         *)

\* What may be asked for in which state, and where it leads.
transitionTable ==
  {[from |-> "Unconfigured", t |-> "configure",            goal |-> "Inactive"],
   [from |-> "Unconfigured", t |-> "unconfiguredShutdown", goal |-> "Finalized"],
   [from |-> "Inactive",     t |-> "activate",             goal |-> "Active"],
   [from |-> "Inactive",     t |-> "cleanup",              goal |-> "Unconfigured"],
   [from |-> "Inactive",     t |-> "inactiveShutdown",     goal |-> "Finalized"],
   [from |-> "Active",       t |-> "deactivate",           goal |-> "Inactive"],
   [from |-> "Active",       t |-> "activeShutdown",       goal |-> "Finalized"]}

Transitions == {row.t : row \in transitionTable}
Primary == {"Unconfigured", "Inactive", "Active", "Finalized"}

\* Mutant: a node that was never configured has nothing to shut down.
shutdownForConfigured(s) ==
  CASE s = "Inactive"     -> "inactiveShutdown"
    [] s = "Active"       -> "activeShutdown"
    [] OTHER              -> "none"

\* The shutdown that is valid in a primary state.
shutdownFor(s) ==
  CASE s = "Unconfigured" -> "unconfiguredShutdown"
    [] s = "Inactive"     -> "inactiveShutdown"
    [] s = "Active"       -> "activeShutdown"
    [] OTHER              -> "none"
=============================================================================
