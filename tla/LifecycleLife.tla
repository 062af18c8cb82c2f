--------------------------- MODULE LifecycleLife ---------------------------
(***************************************************************************)
(* The ROS 2 managed-node design as an observer of primary states sees it: *)
(* a node moves along the design's arcs, one whole transition at a time,   *)
(* and a finalized node stays finalized.                                   *)
(***************************************************************************)
VARIABLE primary

Arcs == {<<"Unconfigured", "Inactive">>, <<"Unconfigured", "Finalized">>,
         <<"Inactive", "Active">>, <<"Inactive", "Unconfigured">>,
         <<"Inactive", "Finalized">>,
         <<"Active", "Inactive">>, <<"Active", "Finalized">>}

Init == primary = "Unconfigured"
Next == <<primary, primary'>> \in Arcs
Spec == Init /\ [][Next]_primary
=============================================================================
