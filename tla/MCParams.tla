------------------------------ MODULE MCParams ------------------------------
(* A node in real time, whose string and use_sim_time one request sets.      *)
EXTENDS ParamServices

MCKind == [s |-> "string"]
MCDefault == [s |-> "y"]
Both == <<[name |-> "s", type |-> "string", value |-> "w"],
          [name |-> "use_sim_time", type |-> "bool", value |-> "true"]>>
MCRequests == {[atomic |-> a, params |-> Both] : a \in BOOLEAN}
MCFiles == {<<>>}
=============================================================================
