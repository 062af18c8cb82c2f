--------------------------- MODULE MCMissionNode ---------------------------
(* A mission of a single step, retried with a backoff, on a node with a hook *)
(* for leaving Active.                                                       *)
EXTENDS MissionNode

MCDef == [s \in {"fetch"} |->
            [next |-> "done", fail |-> "", retry |-> 1,
             timeout |-> FALSE, backoff |-> TRUE]]
LeaveHook == {"deactivate"}
=============================================================================
