------------------------------ MODULE GoalLife ------------------------------
(***************************************************************************)
(* The lives of the goals of a ROS 2 action, as their statuses tell them.  *)
(* A goal that has been asked to cancel may still succeed, but it is not   *)
(* reported as aborted, and only a goal that was asked to cancel ends      *)
(* canceled.  One request may cancel several goals at once.                *)
(***************************************************************************)
CONSTANT Goals
VARIABLE status

Arcs == {<<"none", "executing">>,
         <<"executing", "canceling">>, <<"executing", "succeeded">>,
         <<"executing", "aborted">>,
         <<"canceling", "succeeded">>, <<"canceling", "canceled">>}

Init == status = [g \in Goals |-> "none"]
Next ==
  /\ DOMAIN status' = Goals
  /\ \A g \in Goals : status'[g] = status[g] \/ <<status[g], status'[g]>> \in Arcs
Spec == Init /\ [][Next]_status
=============================================================================
