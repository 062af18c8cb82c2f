------------------------------ MODULE Rollout ------------------------------
(***************************************************************************)
(* `conductor deploy` (internal/deploy) and the install.sh it generates    *)
(* (internal/gen/install.go): one release at a time is shipped to the      *)
(* robots of an environment in order, the script of the release installs   *)
(* it there step by step, and the rollout goes on to the next robot once   *)
(* every process of this one has reported its nodes active.                *)
(*                                                                         *)
(* The script can be cut off between any two of its steps, by the network, *)
(* by a full disk or by the power: that is Cut.                            *)
(***************************************************************************)
EXTENDS Integers, Sequences, FiniteSets, SequencesExt

CONSTANTS Robots,     \* a sequence, in declaration order
          Versions,   \* releases
          Nodes,      \* a sequence: the order the units are listed in
          NodesOf,    \* the nodes of each release: its units, but for the target
          Keep,       \* KEEP of the script
          Histories,  \* pairs of releases the robots may have had deployed before
          Modes,      \* the flags a deploy can be given: restart, systemd, gate
          MaxOps      \* bound: invocations of conductor deploy

None == "none"
Target == "target"
NodeSet == ToSet(Nodes)
Units == NodeSet \cup {Target}
UnitsOf(v) == NodesOf[v] \cup {Target}
Machines == ToSet(Robots)

ASSUME RolloutAssumption ==
  /\ Robots \in Seq(Machines) /\ Robots # <<>>
  /\ Target \notin NodeSet
  /\ Versions \cap {None, ""} = {}
  /\ NodesOf \in [Versions -> (SUBSET NodeSet) \ {{}}]
  /\ Histories \subseteq {h \in Versions \X Versions : h[1] # h[2]}
  /\ Modes \subseteq [restart : BOOLEAN, systemd : BOOLEAN, gate : BOOLEAN]
  /\ Keep \in Nat /\ MaxOps \in Nat

VARIABLES
  disk,     \* each robot's releases, links and unit files
  procs,    \* the release every node's process runs on each robot
  up,       \* the processes that report their nodes active
  op,       \* the invocation under way
  bad,      \* releases that never come up
  ops       \* invocations so far

rolloutVars == <<disk, procs, up, op, bad, ops>>

Disk == [releases : Seq(Versions),             \* by age, oldest first
         partial : SUBSET Versions,            \* unpacked in part
         redone : SUBSET Versions,             \* overwritten in place
         current : Versions \cup {None},
         previous : Versions \cup {None, ""},  \* "" is a file cut off before its line
         units : [Units -> Versions \cup {None}]]

Idle == [kind |-> "idle"]
NoUnits == [u \in Units |-> None]

Steps == {"ship", "unpack", "mark", "switch", "forget", "record", "units", "stale",
          "restart", "prune", "gate"}
Invocation == [kind : {"install", "rollback"}, version : Versions,
               mode : [restart : BOOLEAN, systemd : BOOLEAN, gate : BOOLEAN],
               at : 1..Len(Robots), pc : Steps,
               script : Versions,                \* whose install.sh runs
               displaced : Versions \cup {None}, \* what switch_to moved current from
               units : SUBSET Units,             \* still to be installed
               silent : SUBSET NodeSet]          \* not heard in this poll

RolloutTypeOK ==
  /\ disk \in [Machines -> Disk]
  /\ \A r \in Machines : IsInjective(disk[r].releases)
  /\ procs \in [Machines -> [NodeSet -> Versions \cup {None}]]
  /\ up \in [Machines -> SUBSET NodeSet]
  /\ op = Idle \/ op \in Invocation
  /\ ops \in 0..MaxOps

NewDisk == [releases |-> <<>>, partial |-> {}, redone |-> {}, current |-> None,
            previous |-> None, units |-> NoUnits]
\* A robot that had v and then w deployed to it.
OldDisk(v, w) ==
  [NewDisk EXCEPT !.releases = <<v, w>>, !.current = w, !.previous = v,
                  !.units = [u \in Units |-> IF u \in UnitsOf(w) THEN w ELSE None]]

RolloutInit ==
  /\ \/ disk = [r \in Machines |-> NewDisk]
     \/ \E h \in Histories : disk = [r \in Machines |-> OldDisk(h[1], h[2])]
  /\ procs = [r \in Machines |-> [n \in NodeSet |-> disk[r].units[n]]]
  /\ up = [r \in Machines |-> {}]
  /\ op = Idle
  /\ bad \in {{}} \cup {{v} : v \in Versions}
  /\ ops = 0

-----------------------------------------------------------------------------
(* The invocation.                                                         *)

Here == Robots[op.at]
Goto(pc) == op' = [op EXCEPT !.pc = pc]
OnDisk(d) == disk' = [disk EXCEPT ![Here] = d]

\* A rollback passes neither --no-restart nor --no-systemd on.
Flagged(kind, mode) ==
  IF kind = "rollback" THEN [mode EXCEPT !.restart = TRUE, !.systemd = TRUE] ELSE mode

\* RunFleet with -rollback or with a release; the version is one word for the
\* whole fleet, and may be one that was deployed before.
Invoke ==
  /\ op = Idle /\ ops < MaxOps
  /\ ops' = ops + 1
  /\ \E v \in Versions, mode \in Modes, kind \in {"install", "rollback"} :
       op' = [kind |-> kind, version |-> v, mode |-> Flagged(kind, mode), at |-> 1,
              pc |-> "ship", script |-> v, displaced |-> None, units |-> {}, silent |-> {}]
  /\ UNCHANGED <<disk, procs, up, bad>>

\* A robot whose configuration is wrong, a build that fails, a copy that does
\* not arrive, a script that is cut off or stops at a failing command: the
\* rollout ends with an error.
Fail ==
  /\ op # Idle
  /\ op' = Idle
  /\ UNCHANGED <<disk, procs, up, bad, ops>>

\* A rollback runs the installed copy of the script, that of the current
\* release; an install the one it brought.
Ship ==
  /\ op.pc = "ship"
  /\ LET d == disk[Here]
     IN \/ /\ op.kind = "install"
           /\ Goto("unpack")
        \/ /\ op.kind = "rollback"
           /\ d.current # None
           /\ d.previous \in ToSet(d.releases)
           /\ op' = [op EXCEPT !.pc = "switch", !.script = d.current]
  /\ UNCHANGED <<disk, procs, up, bad, ops>>

\* tar | tar, from here over whatever is there.
Unpack ==
  /\ op.pc = "unpack"
  /\ LET d == disk[Here]
         v == op.version
     IN OnDisk([d EXCEPT !.releases = Append(RemoveFirst(@, v), v),
                         !.partial = @ \cup {v},
                         !.redone = IF v \in ToSet(d.releases) THEN @ \cup {v} ELSE @])
  /\ Goto("mark")
  /\ UNCHANGED <<procs, up, bad, ops>>

Unpacked ==
  /\ op.pc = "mark"
  /\ OnDisk([disk[Here] EXCEPT !.partial = @ \ {op.version}])
  /\ Goto("switch")
  /\ UNCHANGED <<procs, up, bad, ops>>

\* switch_to: the link is moved in one rename, and only then is the release it
\* displaced written down, in a file that is truncated first.
Switched == IF op.mode.systemd THEN "units" ELSE "prune"
Dest == IF op.kind = "install" THEN op.version ELSE disk[Here].previous

Switch ==
  /\ op.pc = "switch"
  /\ LET d == disk[Here]
         shifts == d.current \notin {None, Dest}
     IN /\ OnDisk([d EXCEPT !.current = Dest])
        /\ op' = [op EXCEPT !.pc = IF shifts THEN "forget" ELSE Switched,
                            !.displaced = d.current,
                            !.units = UnitsOf(op.script)]
  /\ UNCHANGED <<procs, up, bad, ops>>

Forget ==
  /\ op.pc = "forget"
  /\ OnDisk([disk[Here] EXCEPT !.previous = ""])
  /\ Goto("record")
  /\ UNCHANGED <<procs, up, bad, ops>>

Record ==
  /\ op.pc = "record"
  /\ OnDisk([disk[Here] EXCEPT !.previous = op.displaced])
  /\ Goto(Switched)
  /\ UNCHANGED <<procs, up, bad, ops>>

\* The order in which a script lists its units.
Listing == Append(Nodes, Target)

\* The units the script lists are copied in that order from the release that is
\* current; a unit the release does not have fails the script (then only Fail is
\* left).
InstallUnit ==
  /\ op.pc = "units"
  /\ LET d == disk[Here]
     IN \/ /\ op.units = {}
           /\ Goto("stale")
           /\ UNCHANGED disk
        \/ \E i \in DOMAIN Listing :
             /\ Listing[i] \in op.units \cap UnitsOf(d.current)
             /\ \A j \in 1..(i - 1) : Listing[j] \notin op.units
             /\ OnDisk([d EXCEPT !.units[Listing[i]] = d.current])
             /\ op' = [op EXCEPT !.units = @ \ {Listing[i]}]
  /\ UNCHANGED <<procs, up, bad, ops>>

\* Units the script does not list are stopped and removed.
RemoveStale ==
  /\ op.pc = "stale"
  /\ LET stale == {u \in Units : disk[Here].units[u] # None} \ UnitsOf(op.script)
     IN \/ /\ stale = {}
           /\ Goto(IF op.mode.restart THEN "restart" ELSE "prune")
           /\ UNCHANGED <<disk, procs, up>>
        \/ \E u \in stale :
             /\ OnDisk([disk[Here] EXCEPT !.units[u] = None])
             /\ procs' = [procs EXCEPT ![Here] = [@ EXCEPT ![u] = None]]
             /\ up' = [up EXCEPT ![Here] = @ \ {u}]
             /\ UNCHANGED op
  /\ UNCHANGED <<bad, ops>>

\* systemctl restart: what is PartOf the target and runs, and what the target
\* wants and has a unit for, is started from `current`.
Restart ==
  /\ op.pc = "restart"
  /\ LET d == disk[Here]
         wanted == IF d.units[Target] = None THEN {} ELSE NodesOf[d.units[Target]]
         started == {n \in NodeSet : d.units[n] # None /\ (n \in wanted \/ procs[Here][n] # None)}
     IN /\ procs' = [procs EXCEPT ![Here] = [n \in NodeSet |->
                        IF n \in started THEN d.current ELSE None]]
        /\ up' = [up EXCEPT ![Here] = {}]
  /\ Goto("prune")
  /\ UNCHANGED <<disk, bad, ops>>

\* Mutant: the release a rollback would take is pruned like any other.
PrunableAll(d) == ToSet(SubSeq(d.releases, 1, Len(d.releases) - Keep)) \ {d.current}

\* All but the newest Keep releases go, the current one and the one rollback
\* would take excepted.
Prunable(d) ==
  LET old == SubSeq(d.releases, 1, Len(d.releases) - Keep)
  IN ToSet(old) \ {d.current, d.previous}

Prune ==
  /\ op.pc = "prune"
  /\ LET d == disk[Here]
         gone == IF op.kind = "install" THEN Prunable(d) ELSE {}
     IN \/ /\ gone = {}
           /\ op' = [op EXCEPT !.pc = "gate", !.silent = NodesOf[op.version]]
           /\ UNCHANGED disk
        \/ \E v \in gone :
             /\ OnDisk([d EXCEPT !.releases = RemoveFirst(@, v),
                                 !.partial = @ \ {v}, !.redone = @ \ {v}])
             /\ UNCHANGED op
  /\ UNCHANGED <<procs, up, bad, ops>>

-----------------------------------------------------------------------------
(* The gate.                                                               *)

\* AwaitHealthy asks the dashboards of the nodes of the release it deployed,
\* one after the other; one that is not active spoils the poll, and the next
\* poll asks all of them again.
AskHealth ==
  /\ op.pc = "gate" /\ op.mode.gate
  /\ \E n \in op.silent :
       op' = [op EXCEPT !.silent = IF n \in up[Here] THEN @ \ {n} ELSE NodesOf[op.version]]
  /\ UNCHANGED <<disk, procs, up, bad, ops>>

\* Mutant: the rollout does not wait for the robot to come up.
NextRobotUngated ==
  /\ op.pc = "gate"
  /\ op' = IF op.at = Len(Robots) THEN Idle
           ELSE [op EXCEPT !.at = @ + 1, !.pc = "ship",
                               !.displaced = None, !.silent = {}]
  /\ UNCHANGED <<disk, procs, up, bad, ops>>

NextRobot ==
  /\ op.pc = "gate"
  /\ op.mode.gate => op.silent = {}
  /\ op' = IF op.at = Len(Robots) THEN Idle
           ELSE [op EXCEPT !.at = @ + 1, !.pc = "ship",
                               !.displaced = None, !.silent = {}]
  /\ UNCHANGED <<disk, procs, up, bad, ops>>

-----------------------------------------------------------------------------
(* The robots.                                                             *)

\* A process brings its nodes up when its release can and has that node.
ComeUp(r, n) ==
  /\ procs[r][n] \in Versions \ bad
  /\ n \in NodesOf[procs[r][n]] /\ n \notin up[r]
  /\ up' = [up EXCEPT ![r] = @ \cup {n}]
  /\ UNCHANGED <<disk, procs, op, bad, ops>>

\* Restart=on-failure: a process that dies comes back from `current`, whatever
\* that has come to name.
Respawn(r, n) ==
  /\ procs[r][n] # None
  /\ procs' = [procs EXCEPT ![r] = [@ EXCEPT ![n] = disk[r].current]]
  /\ up' = [up EXCEPT ![r] = @ \ {n}]
  /\ UNCHANGED <<disk, op, bad, ops>>

ScriptStep ==
  \/ Unpack \/ Unpacked \/ Switch \/ Forget \/ Record \/ InstallUnit \/ RemoveStale
  \/ Restart \/ Prune

RolloutNext ==
  \/ Invoke
  \/ op # Idle /\ (Fail \/ Ship \/ ScriptStep \/ AskHealth \/ NextRobot)
  \/ \E r \in Machines, n \in NodeSet : ComeUp(r, n) \/ Respawn(r, n)

RolloutSpec == RolloutInit /\ [][RolloutNext]_rolloutVars

-----------------------------------------------------------------------------
\* Wherever scripts are cut off, what `current` points at is on the disk, and so
\* is the release a rollback would take: pruning removes neither.
RollbackTargetSurvives ==
  \A r \in Machines : LET d == disk[r] IN
    /\ d.current # None => d.current \in ToSet(d.releases)
    /\ d.previous \in Versions => d.previous \in ToSet(d.releases)

\* `current` never names a release that is only there in part, unless its version
\* was deployed before and is being overwritten in place.
CurrentIsWhole == \A r \in Machines : disk[r].current \notin disk[r].partial \ disk[r].redone

\* After the script of an install has run to its end, with systemd and a
\* restart, the robot runs the nodes of that release, from that release, and
\* nothing else, whatever scripts were cut off on it before.
InstalledIsRunning ==
  op # Idle /\ op.pc = "gate" /\ op.kind = "install" /\ op.mode.systemd /\ op.mode.restart =>
    /\ disk[Here].units = [u \in Units |-> IF u \in UnitsOf(op.version) THEN op.version ELSE None]
    /\ procs[Here] = [n \in NodeSet |-> IF n \in NodesOf[op.version] THEN op.version ELSE None]

\* What a robot is left with, wherever the scripts that ran on it ended: something
\* whole to run, something to go back to, and after an install what was installed.
RobotsStayWhole ==
  RolloutTypeOK /\ RollbackTargetSurvives /\ CurrentIsWhole /\ InstalledIsRunning

\* "The next robot is only touched once the last one's graph is up": a release
\* that never comes up stays on the robot it was tried on first.
BadReleaseContained ==
  op # Idle /\ op.kind = "install" /\ op.version \in bad
    /\ op.mode.gate /\ op.mode.systemd /\ op.mode.restart => op.at = 1

\* "--rollback needs a copy on the robot, and it is the same script whichever
\* release it comes from": a rollback that reports success leaves the units of
\* the release it went back to.
RollbackRestoresUnits ==
  op # Idle /\ op.pc = "gate" /\ op.kind = "rollback" /\ op.mode.systemd =>
    \A u \in UnitsOf(disk[Here].current) : disk[Here].units[u] = disk[Here].current
=============================================================================
