---------------------------- MODULE MCOperations ----------------------------
(* Three programs that drive processes, one of them in each behaviour: the   *)
(* development runner, the rollout to a fleet, and a mission's client of the *)
(* lifecycle of other nodes.                                                 *)
EXTENDS Supervisor, Rollout, LifecycleClient

VARIABLE system

operationsVars == <<supVars, rolloutVars, clientVars, system>>

\* Every kind of readiness, the first to come up and the last.  What comes behind
\* it does not look at it again, so a split run has one of them.
MCReady == {<<"probe", "none">>, <<"delay", "probe">>}

MCRobots == <<"r1", "r2">>
MCNodes == <<"a", "b">>
\* A node more, and then a node less.
MCNodesOf == [v1 |-> {"a"}, v2 |-> {"a", "b"}, v3 |-> {"b"}]
MCHistories == {<<"v1", "v2">>}
\* A gated rollout, and one that leaves the processes alone.
MCModes == {[restart |-> TRUE, systemd |-> TRUE, gate |-> TRUE],
            [restart |-> FALSE, systemd |-> TRUE, gate |-> FALSE]}
MCDeclared == <<"map", "nav">>

OperationsInit ==
  /\ system \in {"supervisor", "rollout", "client"}
  /\ SupInit /\ RolloutInit /\ ClientInit
  /\ system # "supervisor" => ~split /\ foreign = {} /\ \A p \in Requires : ready[p] = "none"
  /\ system = "supervisor" => /\ ready \in MCReady /\ foreign \subseteq {1}
                              /\ split => ready[1] = "probe" /\ foreign = {}
  /\ bad \in {{}, {"v2"}}
  /\ system # "rollout" => bad = {} /\ \A r \in Machines : disk[r] = NewDisk

OperationsNext ==
  /\ UNCHANGED system
  /\ \/ system = "supervisor" /\ SupNext /\ UNCHANGED <<rolloutVars, clientVars>>
     \/ system = "rollout" /\ RolloutNext /\ UNCHANGED <<supVars, clientVars>>
     \/ system = "client" /\ ClientNext /\ UNCHANGED <<supVars, rolloutVars>>

OperationsSpec ==
  /\ OperationsInit /\ [][OperationsNext]_operationsVars
  /\ WF_supVars(system = "supervisor" /\ SessionStep)
  /\ WF_supVars(system = "supervisor" /\ OpenWhenUp)
  /\ ClientFairness
=============================================================================
