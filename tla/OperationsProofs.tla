-------------------------- MODULE OperationsProofs --------------------------
(***************************************************************************)
(* What holds of the programs that drive processes.  A rollout, for any    *)
(* robots, releases and nodes, any number of invocations, any release that *)
(* never comes up, and scripts that are cut off between any two of their   *)
(* steps.  A session of `conductor run`, for any number of required        *)
(* processes and nodes, and any number of signals.  What a program that    *)
(* drives other nodes may believe of what its methods return, for any      *)
(* nodes in any order, any timeouts, failures and other managers, and any  *)
(* number of calls.                                                        *)
(***************************************************************************)
EXTENDS Supervisor, Rollout, LifecycleClient, TLAPS, SequenceTheorems, WellFoundedInduction

-----------------------------------------------------------------------------
(***************************************************************************)
(* The rollout (Rollout).                                                  *)
(***************************************************************************)

(* A list of releases, as the set of what is in it.                          *)

LEMMA EndAdded ==
  ASSUME NEW S, NEW q \in Seq(S), NEW e \in S
  PROVE  /\ Append(q, e) \in Seq(S) /\ ToSet(Append(q, e)) = ToSet(q) \cup {e}
         /\ IsInjective(q) /\ e \notin ToSet(q) => IsInjective(Append(q, e))
<1> DEFINE a == Append(q, e)
<1>1. /\ a \in Seq(S) /\ Len(q) \in Nat /\ Len(a) = Len(q) + 1
      /\ DOMAIN q = 1..Len(q) /\ DOMAIN a = 1..Len(a)
      /\ \A i \in 1..Len(q) : a[i] = q[i]
      /\ a[Len(q) + 1] = e
  BY AppendProperties, LenProperties
<1> HIDE DEF a
<1>2. \A k \in 1..Len(a) : k \in 1..Len(q) \/ k = Len(q) + 1
  BY <1>1
<1>3. ToSet(a) \subseteq ToSet(q) \cup {e} /\ ToSet(q) \subseteq ToSet(a) /\ e \in ToSet(a)
  BY <1>1, <1>2 DEF ToSet
<1>4. \A k \in 1..Len(q) : q[k] \in ToSet(q)
  BY <1>1 DEF ToSet
<1>5. IsInjective(q) /\ e \notin ToSet(q) => IsInjective(a)
  BY <1>1, <1>2, <1>4 DEF IsInjective
<1> QED
  BY <1>1, <1>3, <1>5 DEF a

\* Taking a release out of the list takes out that release and no other.
LEMMA FirstRemoved ==
  ASSUME NEW S, NEW q \in Seq(S), NEW e, IsInjective(q)
  PROVE  /\ RemoveFirst(q, e) \in Seq(S) /\ ToSet(RemoveFirst(q, e)) = ToSet(q) \ {e}
         /\ IsInjective(RemoveFirst(q, e))
<1>1. /\ Len(q) \in Nat /\ DOMAIN q = 1..Len(q)
      /\ \A k \in 1..Len(q) : q[k] \in S
  BY LenProperties, ElementOfSeq
<1>2. CASE ~ \E i \in 1..Len(q) : q[i] = e
  <2>1. RemoveFirst(q, e) = q
    BY <1>2 DEF RemoveFirst
  <2> QED
    BY <1>1, <1>2, <2>1 DEF ToSet
<1>3. ASSUME NEW i \in 1..Len(q), q[i] = e
      PROVE  /\ RemoveFirst(q, e) \in Seq(S) /\ ToSet(RemoveFirst(q, e)) = ToSet(q) \ {e}
             /\ IsInjective(RemoveFirst(q, e))
  <2>1. {k \in 1..Len(q) : q[k] = e} = {i}
    BY <1>1, <1>3 DEF IsInjective
  <2>2. SelectInSeq(q, LAMBDA v : v = e) = i
    <3>1. SelectInSeq(q, LAMBDA v : v = e) = Min({i})
      BY <2>1 DEF SelectInSeq
    <3> QED
      BY <1>1, <3>1 DEF Min
  <2> DEFINE left == SubSeq(q, 1, i - 1)
             right == SubSeq(q, i + 1, Len(q))
             rest == left \o right
  <2>3. RemoveFirst(q, e) = rest
    BY <1>3, <2>2 DEF RemoveFirst, RemoveAt
  <2>4. /\ left \in Seq(S) /\ Len(left) = i - 1
        /\ \A k \in 1..(i - 1) : left[k] = q[k]
    BY <1>1, SubSeqProperties
  <2>5. /\ right \in Seq(S) /\ Len(right) = Len(q) - i
        /\ \A k \in 1..(Len(q) - i) : right[k] = q[i + k]
    <3> DEFINE m == i + 1
               n == Len(q)
    <3>1. m \in Int /\ n \in Int /\ m - 1 = i /\ \A k \in m..n : k \in 1..n
      BY <1>1
    <3>2. n - m + 1 = n - i /\ (IF m <= n THEN n - m + 1 ELSE 0) = n - i
      <4>1. n \in Int /\ i \in Int /\ i <= n /\ n - (i + 1) + 1 = n - i
        BY <1>1
      <4>2. i = n => n - i = 0
        BY <4>1
      <4> HIDE DEF n
      <4>3. ~(i + 1 <= n) => i = n
        BY <4>1
      <4> QED
        BY <4>1, <4>2, <4>3
    <3>3. \A k \in 1..(n - i) : m + k - 1 = i + k
      BY <1>1
    <3>4. \A k \in m..n : q[k] \in S
      BY <1>1, <3>1
    <3> HIDE DEF m, n
    <3>5. /\ SubSeq(q, m, n) \in Seq(S)
          /\ Len(SubSeq(q, m, n)) = IF m <= n THEN n - m + 1 ELSE 0
          /\ \A k \in 1..(n - m + 1) : SubSeq(q, m, n)[k] = q[m + k - 1]
      BY <3>1, <3>4, SubSeqProperties
    <3>6. right = SubSeq(q, m, n)
      BY DEF m, n
    <3> HIDE DEF right
    <3>7. /\ right \in Seq(S) /\ Len(right) = n - i
          /\ \A k \in 1..(n - i) : right[k] = q[i + k]
      BY <3>2, <3>3, <3>5, <3>6
    <3> QED
      BY <3>7 DEF n
  <2> HIDE DEF left, right
  <2>6. /\ rest \in Seq(S) /\ Len(rest) = Len(q) - 1
        /\ \A k \in 1..(Len(q) - 1) : rest[k] = IF k < i THEN q[k] ELSE q[k + 1]
    <3>1. /\ rest \in Seq(S) /\ Len(rest) = Len(left) + Len(right)
          /\ \A k \in 1..(Len(left) + Len(right)) :
               rest[k] = IF k <= Len(left) THEN left[k] ELSE right[k - Len(left)]
      BY <2>4, <2>5, ConcatProperties
    <3>2. Len(left) + Len(right) = Len(q) - 1
      BY <1>1, <2>4, <2>5
    <3> HIDE DEF rest
    <3>3. ASSUME NEW k \in 1..(Len(q) - 1)
          PROVE  rest[k] = IF k < i THEN q[k] ELSE q[k + 1]
      <4>1. rest[k] = IF k <= i - 1 THEN left[k] ELSE right[k - (i - 1)]
        BY <2>4, <3>1, <3>2
      <4>2. CASE k < i
        <5>1. k \in 1..(i - 1) /\ k <= i - 1
          BY <1>1, <4>2
        <5> QED
          BY <2>4, <4>1, <4>2, <5>1
      <4>3. CASE ~(k < i)
        <5>1. k - (i - 1) \in 1..(Len(q) - i) /\ i + (k - (i - 1)) = k + 1 /\ ~(k <= i - 1)
          BY <1>1, <4>3
        <5> QED
          BY <2>5, <4>1, <4>3, <5>1
      <4> QED
        BY <4>2, <4>3
    <3> QED
      BY <3>1, <3>2, <3>3
  <2>7. DOMAIN rest = 1..Len(rest)
    BY <2>6, LenProperties
  <2> HIDE DEF rest
  <2>8. ASSUME NEW k \in 1..Len(rest)
        PROVE  \E j \in 1..Len(q) : j # i /\ rest[k] = q[j]
    <3>1. k \in 1..(Len(q) - 1) /\ k \in 1..Len(q) /\ k + 1 \in 1..Len(q)
      BY <1>1, <2>6, <2>8
    <3>2. rest[k] = IF k < i THEN q[k] ELSE q[k + 1]
      BY <2>6, <3>1
    <3>3. (k < i => k # i) /\ (~(k < i) => k + 1 # i)
      BY <1>1, <3>1
    <3> QED
      BY <3>1, <3>2, <3>3
  <2>9. ASSUME NEW j \in 1..Len(q), j # i
         PROVE  \E k \in 1..Len(rest) : rest[k] = q[j]
    <3>1. CASE j < i
      <4>1. j \in 1..(Len(q) - 1)
        BY <1>1, <2>9, <3>1
      <4> QED
        BY <2>6, <3>1, <4>1
    <3>2. CASE ~(j < i)
      <4>1. j - 1 \in 1..(Len(q) - 1) /\ ~(j - 1 < i) /\ (j - 1) + 1 = j
        BY <1>1, <2>9, <3>2
      <4> QED
        BY <2>6, <4>1
    <3> QED
      BY <3>1, <3>2
  <2>10. ToSet(rest) = ToSet(q) \ {e}
    <3>1. \A j \in 1..Len(q) : q[j] = e <=> j = i
      BY <1>1, <1>3 DEF IsInjective
    <3>2. ToSet(rest) = {rest[k] : k \in 1..Len(rest)} /\ ToSet(q) = {q[j] : j \in 1..Len(q)}
      BY <1>1, <2>7 DEF ToSet
    <3>3. ASSUME NEW v \in ToSet(rest)
          PROVE  v \in ToSet(q) /\ v # e
      <4>1. PICK k \in 1..Len(rest) : v = rest[k]
        BY <3>2, <3>3
      <4>2. PICK j \in 1..Len(q) : j # i /\ rest[k] = q[j]
        BY <2>8
      <4> QED
        BY <3>1, <3>2, <4>1, <4>2
    <3>4. ASSUME NEW v \in ToSet(q), v # e
          PROVE  v \in ToSet(rest)
      <4>1. PICK j \in 1..Len(q) : v = q[j]
        BY <3>2, <3>4
      <4>2. j # i
        BY <3>1, <3>4, <4>1
      <4>3. PICK k \in 1..Len(rest) : rest[k] = q[j]
        BY <2>9, <4>2
      <4> QED
        BY <3>2, <4>1, <4>3
    <3> QED
      BY <3>3, <3>4
  <2>11. IsInjective(rest)
    BY <1>1, <2>6, <2>7 DEF IsInjective
  <2> QED
    BY <2>3, <2>6, <2>10, <2>11
<1> QED
  BY <1>2, <1>3

-----------------------------------------------------------------------------
(* What the script relies on from one step to the next.                      *)

\* A robot has all of release v, or had it until v was unpacked over itself.
Holds(d, v) == v \in ToSet(d.releases) /\ v \notin d.partial \ d.redone

\* What the links of a robot name is there to be run.
DiskSound(d) ==
  /\ d \in Disk /\ IsInjective(d.releases)
  /\ d.current # None => Holds(d, d.current)
  /\ d.previous \in Versions => Holds(d, d.previous)

UnitsAre(d, v) == d.units = [u \in Units |-> IF u \in UnitsOf(v) THEN v ELSE None]
Runs(p, v) == p = [n \in NodeSet |-> IF n \in NodesOf[v] THEN v ELSE None]

\* Where an invocation has come to on a robot with disk d and processes p.
Follows(o, d, p) ==
  /\ o.kind = "install" => o.script = o.version
  /\ o.kind = "rollback" => o.pc \notin {"unpack", "mark"}
  /\ o.pc = "mark" => o.version \in ToSet(d.releases)
  /\ o.pc = "switch" => IF o.kind = "install" THEN Holds(d, o.version) ELSE d.previous \in Versions
  /\ o.pc \in {"forget", "record"} => o.displaced \in Versions /\ Holds(d, o.displaced)
  /\ o.kind = "install" =>
       /\ o.pc \in {"forget", "record", "units", "stale", "restart", "prune", "gate"} => d.current = o.version
       /\ o.pc \in {"forget", "record"} => o.units = UnitsOf(o.version)
       /\ o.pc = "units" => \A u \in UnitsOf(o.version) \ o.units : d.units[u] = o.version
       /\ o.pc = "stale" => \A u \in UnitsOf(o.version) : d.units[u] = o.version
       /\ o.pc = "restart" => UnitsAre(d, o.version)
       /\ o.pc \in {"prune", "gate"} /\ o.mode.systemd /\ o.mode.restart =>
            UnitsAre(d, o.version) /\ Runs(p, o.version)

\* The gate hears nothing from a release that never comes up.
Waits(o, b) ==
  o.kind = "install" /\ o.version \in b /\ o.mode.gate /\ o.mode.systemd /\ o.mode.restart =>
    o.at = 1 /\ (o.pc = "gate" => o.silent = NodesOf[o.version])

\* Only a process of a release that can come up reports its nodes active.
UpSound(p, a, b) == \A n \in a : p[n] \in Versions \ b

RolloutInv ==
  /\ disk \in [Machines -> Disk] /\ \A r \in Machines : DiskSound(disk[r])
  /\ procs \in [Machines -> [NodeSet -> Versions \cup {None}]]
  /\ up \in [Machines -> SUBSET NodeSet] /\ \A r \in Machines : UpSound(procs[r], up[r], bad)
  /\ ops \in 0..MaxOps
  /\ op # Idle => op \in Invocation /\ Follows(op, disk[Here], procs[Here]) /\ Waits(op, bad)

LEMMA Constants ==
  /\ \A i \in 1..Len(Robots) : Robots[i] \in Machines
  /\ 1 \in 1..Len(Robots)
  /\ None \notin Versions /\ "" \notin Versions /\ Target \notin NodeSet
  /\ \A v \in Versions : NodesOf[v] \subseteq NodeSet /\ NodesOf[v] # {} /\ UnitsOf(v) \subseteq Units
<1>1. \A i \in 1..Len(Robots) : Robots[i] \in Machines
  BY RolloutAssumption, ElementOfSeq
<1>2. Len(Robots) \in Nat /\ Len(Robots) # 0
  BY RolloutAssumption, LenProperties, EmptySeq
<1>3. None \notin Versions /\ "" \notin Versions /\ Target \notin NodeSet
  BY RolloutAssumption
<1>4. \A v \in Versions : NodesOf[v] \in SUBSET NodeSet /\ NodesOf[v] # {}
  BY RolloutAssumption
<1>5. 1 \in 1..Len(Robots)
  BY <1>2
<1>6. \A v \in Versions : UnitsOf(v) \subseteq Units
  BY <1>4 DEF UnitsOf, Units
<1> QED
  BY <1>1, <1>3, <1>4, <1>5, <1>6

\* Where the invocation is.
LEMMA AtRobot ==
  ASSUME RolloutInv, op # Idle
  PROVE  /\ op \in Invocation /\ Here \in Machines
         /\ disk[Here] \in Disk /\ DiskSound(disk[Here])
         /\ procs[Here] \in [NodeSet -> Versions \cup {None}] /\ up[Here] \subseteq NodeSet
         /\ Follows(op, disk[Here], procs[Here]) /\ Waits(op, bad)
         /\ UpSound(procs[Here], up[Here], bad)
<1>1. op \in Invocation /\ op.at \in 1..Len(Robots)
  BY DEF RolloutInv, Invocation
<1>2. Here \in Machines
  BY <1>1, Constants DEF Here
<1> QED
  BY <1>1, <1>2 DEF RolloutInv

\* A step of the invocation at the robot where it is.
LEMMA StepHere ==
  ASSUME RolloutInv, op # Idle, UNCHANGED <<bad, ops>>,
         NEW o \in Invocation, o.at = op.at, op' = o,
         NEW d, DiskSound(d), disk' = [disk EXCEPT ![Here] = d],
         NEW p \in [NodeSet -> Versions \cup {None}], procs' = [procs EXCEPT ![Here] = p],
         NEW a \in SUBSET NodeSet, up' = [up EXCEPT ![Here] = a],
         UpSound(p, a, bad), Follows(o, d, p), Waits(o, bad)
  PROVE  RolloutInv'
<1>1. PICK r \in Machines : r = Here /\ r = Here'
  BY AtRobot DEF Here
<1>2. /\ disk'[r] = d /\ procs'[r] = p /\ up'[r] = a
      /\ \A q \in Machines \ {r} : disk'[q] = disk[q] /\ procs'[q] = procs[q] /\ up'[q] = up[q]
  BY <1>1 DEF RolloutInv
<1>3. /\ disk' \in [Machines -> Disk] /\ procs' \in [Machines -> [NodeSet -> Versions \cup {None}]]
      /\ up' \in [Machines -> SUBSET NodeSet]
  BY <1>1 DEF RolloutInv, DiskSound
<1>4. \A q \in Machines : DiskSound(disk'[q]) /\ UpSound(procs'[q], up'[q], bad)
  BY <1>2 DEF RolloutInv
<1>5. Follows(op', disk'[r], procs'[r]) /\ Waits(op', bad) /\ op' \in Invocation
  BY <1>2
<1> QED
  BY <1>1, <1>3, <1>4, <1>5 DEF RolloutInv

\* ... that leaves the processes alone.
LEMMA ScriptHere ==
  ASSUME RolloutInv, op # Idle, UNCHANGED <<procs, up, bad, ops>>,
         NEW o \in Invocation, o.at = op.at, op' = o,
         NEW d, DiskSound(d), disk' = [disk EXCEPT ![Here] = d],
         Follows(o, d, procs[Here]), Waits(o, bad)
  PROVE  RolloutInv'
<1>1. /\ Here \in Machines /\ procs[Here] \in [NodeSet -> Versions \cup {None}]
      /\ up[Here] \in SUBSET NodeSet /\ UpSound(procs[Here], up[Here], bad)
  BY AtRobot
<1>2. procs' = [procs EXCEPT ![Here] = procs[Here]] /\ up' = [up EXCEPT ![Here] = up[Here]]
  BY <1>1 DEF RolloutInv
<1> QED
  BY <1>1, <1>2, StepHere

\* ... or the disk too.
LEMMA MovesOn ==
  ASSUME RolloutInv, op # Idle, UNCHANGED <<disk, procs, up, bad, ops>>,
         NEW o \in Invocation, o.at = op.at, op' = o,
         Follows(o, disk[Here], procs[Here]), Waits(o, bad)
  PROVE  RolloutInv'
<1>1. Here \in Machines /\ DiskSound(disk[Here])
  BY AtRobot
<1>2. disk' = [disk EXCEPT ![Here] = disk[Here]]
  BY <1>1 DEF RolloutInv
<1> QED
  BY <1>1, <1>2, ScriptHere

-----------------------------------------------------------------------------
(* The invocation's steps before current is moved.                           *)

LEMMA ShipKeepsInv ==
  ASSUME RolloutInv, op # Idle, Ship
  PROVE  RolloutInv'
<1>1. PICK d : d = disk[Here]
  OBVIOUS
<1>2. /\ op \in Invocation /\ d \in Disk /\ DiskSound(d)
      /\ Follows(op, d, procs[Here]) /\ Waits(op, bad)
  BY <1>1, AtRobot
<1>3. CASE op.kind = "install" /\ Goto("unpack")
  <2>1. PICK o : o = [op EXCEPT !.pc = "unpack"]
    OBVIOUS
  <2>2. o \in Invocation /\ o.at = op.at /\ op' = o
    BY <1>2, <1>3, <2>1 DEF Goto, Invocation, Steps
  <2>3. Follows(o, d, procs[Here]) /\ Waits(o, bad)
    BY <1>2, <1>3, <2>1 DEF Follows, Waits, Invocation
  <2> QED
    BY <1>1, <2>2, <2>3, MovesOn DEF Ship
<1>4. CASE /\ op.kind = "rollback" /\ d.current # None /\ d.previous \in ToSet(d.releases)
           /\ op' = [op EXCEPT !.pc = "switch", !.script = d.current]
  <2>1. PICK o : o = [op EXCEPT !.pc = "switch", !.script = d.current]
    OBVIOUS
  <2>2. d.current \in Versions /\ d.previous \in Versions
    <3>1. d.current \in Versions /\ d.releases \in Seq(Versions)
      BY <1>2, <1>4 DEF Disk
    <3>2. \A k \in DOMAIN d.releases : d.releases[k] \in Versions
      BY <3>1, LenProperties, ElementOfSeq
    <3> QED
      BY <1>4, <3>1, <3>2 DEF ToSet
  <2>3. o \in Invocation /\ o.at = op.at /\ op' = o
    BY <1>2, <1>4, <2>1, <2>2 DEF Invocation, Steps
  <2>4. o.kind = "rollback" /\ o.pc = "switch"
    BY <1>2, <1>4, <2>1 DEF Invocation
  <2>5. Follows(o, d, procs[Here]) /\ Waits(o, bad)
    BY <2>2, <2>4 DEF Follows, Waits
  <2> QED
    BY <1>1, <1>4, <2>3, <2>5, MovesOn DEF Ship
<1> QED
  BY <1>1, <1>3, <1>4 DEF Ship

\* Unpacking over a release the robot has, or beside it, takes none away.
LEMMA UnpackKeepsInv ==
  ASSUME RolloutInv, op # Idle, Unpack
  PROVE  RolloutInv'
<1>1. PICK d, v : d = disk[Here] /\ v = op.version
  OBVIOUS
<1>2. /\ op \in Invocation /\ d \in Disk /\ DiskSound(d) /\ v \in Versions
      /\ Follows(op, d, procs[Here]) /\ Waits(op, bad) /\ op.pc = "unpack"
  BY <1>1, AtRobot DEF Unpack, Invocation
<1>3. PICK e : e = [d EXCEPT !.releases = Append(RemoveFirst(d.releases, v), v),
                             !.partial = d.partial \cup {v},
                             !.redone = IF v \in ToSet(d.releases) THEN d.redone \cup {v} ELSE d.redone]
  OBVIOUS
<1>4. /\ d.releases \in Seq(Versions) /\ IsInjective(d.releases)
      /\ d.partial \subseteq Versions /\ d.redone \subseteq Versions
  BY <1>2 DEF Disk, DiskSound
<1>5. /\ e.releases \in Seq(Versions) /\ IsInjective(e.releases)
      /\ ToSet(e.releases) = ToSet(d.releases) \cup {v}
  <2> DEFINE q == RemoveFirst(d.releases, v)
  <2>1. q \in Seq(Versions) /\ ToSet(q) = ToSet(d.releases) \ {v} /\ IsInjective(q)
    BY <1>4, FirstRemoved
  <2> HIDE DEF q
  <2>2. /\ Append(q, v) \in Seq(Versions) /\ IsInjective(Append(q, v))
        /\ ToSet(Append(q, v)) = ToSet(q) \cup {v}
    BY <1>2, <2>1, EndAdded
  <2>3. e.releases = Append(q, v)
    BY <1>2, <1>3 DEF Disk, q
  <2> QED
    BY <2>1, <2>2, <2>3
<1>6. /\ e.partial = d.partial \cup {v}
      /\ e.redone = IF v \in ToSet(d.releases) THEN d.redone \cup {v} ELSE d.redone
      /\ e.current = d.current /\ e.previous = d.previous /\ e.units = d.units
  BY <1>2, <1>3 DEF Disk
<1>7. e \in Disk
  BY <1>2, <1>3, <1>4, <1>5, <1>6 DEF Disk
<1>8. \A w : Holds(d, w) => Holds(e, w)
  BY <1>5, <1>6 DEF Holds
<1>9. DiskSound(e)
  BY <1>2, <1>5, <1>6, <1>7, <1>8 DEF DiskSound
<1>10. PICK o : o = [op EXCEPT !.pc = "mark"]
  OBVIOUS
<1>11. o \in Invocation /\ o.at = op.at /\ o.pc = "mark" /\ o.version = v /\ o.kind = op.kind /\ o.script = op.script
  BY <1>1, <1>2, <1>10 DEF Invocation, Steps
<1>12. Follows(o, e, procs[Here]) /\ Waits(o, bad)
  <2>1. Waits(o, bad)
    BY <1>2, <1>10, <1>11 DEF Waits, Invocation
  <2>2. op.kind = "install"
    BY <1>2 DEF Follows, Invocation
  <2> QED
    BY <1>1, <1>2, <1>5, <1>11, <2>1, <2>2 DEF Follows
<1>13. op' = o /\ disk' = [disk EXCEPT ![Here] = e] /\ UNCHANGED <<procs, up, bad, ops>>
  BY <1>1, <1>3, <1>10 DEF Unpack, Goto, OnDisk
<1> QED
  BY <1>9, <1>11, <1>12, <1>13, ScriptHere

LEMMA UnpackedKeepsInv ==
  ASSUME RolloutInv, op # Idle, Unpacked
  PROVE  RolloutInv'
<1>1. PICK d, v : d = disk[Here] /\ v = op.version
  OBVIOUS
<1>2. /\ op \in Invocation /\ d \in Disk /\ DiskSound(d) /\ v \in Versions
      /\ Follows(op, d, procs[Here]) /\ Waits(op, bad) /\ op.pc = "mark"
  BY <1>1, AtRobot DEF Unpacked, Invocation
<1>3. PICK e : e = [d EXCEPT !.partial = d.partial \ {v}]
  OBVIOUS
<1>4. /\ e \in Disk /\ e.releases = d.releases /\ e.partial = d.partial \ {v} /\ e.redone = d.redone
      /\ e.current = d.current /\ e.previous = d.previous
  BY <1>2, <1>3 DEF Disk
<1>5. /\ \A w : Holds(d, w) => Holds(e, w)
      /\ Holds(e, v)
  BY <1>1, <1>2, <1>4 DEF Holds, Follows
<1>6. DiskSound(e)
  BY <1>2, <1>4, <1>5 DEF DiskSound
<1>7. PICK o : o = [op EXCEPT !.pc = "switch"]
  OBVIOUS
<1>8. o \in Invocation /\ o.at = op.at /\ o.pc = "switch" /\ o.version = v /\ o.kind = op.kind /\ o.script = op.script
  BY <1>1, <1>2, <1>7 DEF Invocation, Steps
<1>9. Follows(o, e, procs[Here]) /\ Waits(o, bad)
  <2>1. Waits(o, bad)
    BY <1>2, <1>7, <1>8 DEF Waits, Invocation
  <2>2. op.kind = "install" /\ op.script = op.version
    BY <1>2 DEF Follows, Invocation
  <2> QED
    BY <1>1, <1>5, <1>8, <2>1, <2>2 DEF Follows
<1>10. op' = o /\ disk' = [disk EXCEPT ![Here] = e] /\ UNCHANGED <<procs, up, bad, ops>>
  BY <1>1, <1>3, <1>7 DEF Unpacked, Goto, OnDisk
<1> QED
  BY <1>6, <1>8, <1>9, <1>10, ScriptHere

-----------------------------------------------------------------------------
(* Moving current, and writing down what it was moved from.                  *)

LEMMA SwitchKeepsInv ==
  ASSUME RolloutInv, op # Idle, Switch
  PROVE  RolloutInv'
<1>1. PICK d, to, next : d = disk[Here] /\ to = Dest
                         /\ next = IF d.current \notin {None, to} THEN "forget" ELSE Switched
  OBVIOUS
<1>2. /\ op \in Invocation /\ d \in Disk /\ DiskSound(d)
      /\ Follows(op, d, procs[Here]) /\ Waits(op, bad) /\ op.pc = "switch"
  BY <1>1, AtRobot DEF Switch
<1>3. to \in Versions /\ Holds(d, to) /\ (op.kind = "install" => to = op.version)
  <2>1. CASE op.kind = "install"
    BY <1>1, <1>2, <2>1 DEF Dest, Follows, Invocation
  <2>2. CASE op.kind # "install"
    BY <1>1, <1>2, <2>2 DEF Dest, Follows, DiskSound
  <2> QED
    BY <2>1, <2>2
<1>4. PICK e : e = [d EXCEPT !.current = to]
  OBVIOUS
<1>5. /\ e \in Disk /\ e.releases = d.releases /\ e.partial = d.partial /\ e.redone = d.redone
      /\ e.current = to /\ e.previous = d.previous /\ e.units = d.units
  BY <1>2, <1>3, <1>4 DEF Disk
<1>6. \A w : Holds(d, w) => Holds(e, w)
  BY <1>5 DEF Holds
<1>7. DiskSound(e)
  BY <1>2, <1>3, <1>5, <1>6 DEF DiskSound
<1>8. PICK o : o = [op EXCEPT !.pc = next, !.displaced = d.current, !.units = UnitsOf(op.script)]
  OBVIOUS
<1>9. /\ next \in {"forget", "units", "prune"} /\ (next = "prune" => ~op.mode.systemd)
      /\ (next = "forget" => d.current # None)
  BY <1>1 DEF Switched
<1>10. /\ o.kind = op.kind /\ o.version = op.version /\ o.mode = op.mode /\ o.at = op.at /\ o.pc = next
       /\ o.script = op.script /\ o.displaced = d.current /\ o.units = UnitsOf(op.script)
       /\ o.silent = op.silent
  BY <1>2, <1>8 DEF Invocation
<1>11. o \in Invocation
  <2>1. UnitsOf(op.script) \in SUBSET Units /\ d.current \in Versions \cup {None} /\ next \in Steps
    BY <1>2, <1>9, Constants DEF Invocation, Disk, Steps
  <2> QED
    BY <1>2, <1>8, <2>1 DEF Invocation
<1>12. Waits(o, bad)
  BY <1>2, <1>9, <1>10 DEF Waits
<1>13. Follows(o, e, procs[Here])
  <2>1. op.kind = "install" => op.script = op.version
    BY <1>2 DEF Follows
  <2>2. next = "forget" => d.current \in Versions /\ Holds(e, d.current)
    BY <1>2, <1>6, <1>9 DEF DiskSound, Disk
  <2> QED
    BY <1>3, <1>5, <1>9, <1>10, <2>1, <2>2 DEF Follows
<1>14. op' = o /\ disk' = [disk EXCEPT ![Here] = e] /\ UNCHANGED <<procs, up, bad, ops>>
  BY <1>1, <1>4, <1>8 DEF Switch, OnDisk
<1> QED
  BY <1>7, <1>10, <1>11, <1>12, <1>13, <1>14, ScriptHere

LEMMA ForgetKeepsInv ==
  ASSUME RolloutInv, op # Idle, Forget
  PROVE  RolloutInv'
<1>1. PICK d : d = disk[Here]
  OBVIOUS
<1>2. /\ op \in Invocation /\ d \in Disk /\ DiskSound(d)
      /\ Follows(op, d, procs[Here]) /\ Waits(op, bad) /\ op.pc = "forget"
  BY <1>1, AtRobot DEF Forget
<1>3. PICK e : e = [d EXCEPT !.previous = ""]
  OBVIOUS
<1>4. /\ e \in Disk /\ e.releases = d.releases /\ e.partial = d.partial /\ e.redone = d.redone
      /\ e.current = d.current /\ e.previous = "" /\ e.units = d.units
  BY <1>2, <1>3 DEF Disk
<1>5. \A w : Holds(d, w) => Holds(e, w)
  BY <1>4 DEF Holds
<1>6. DiskSound(e)
  BY <1>2, <1>4, <1>5, Constants DEF DiskSound
<1>7. PICK o : o = [op EXCEPT !.pc = "record"]
  OBVIOUS
<1>8. /\ o \in Invocation /\ o.kind = op.kind /\ o.version = op.version /\ o.at = op.at /\ o.pc = "record"
      /\ o.script = op.script /\ o.displaced = op.displaced /\ o.units = op.units /\ o.mode = op.mode
  BY <1>2, <1>7 DEF Invocation, Steps
<1>9. Waits(o, bad)
  BY <1>2, <1>8 DEF Waits
<1>10. Follows(o, e, procs[Here])
  BY <1>2, <1>4, <1>5, <1>8 DEF Follows
<1>11. op' = o /\ disk' = [disk EXCEPT ![Here] = e] /\ UNCHANGED <<procs, up, bad, ops>>
  BY <1>1, <1>3, <1>7 DEF Forget, Goto, OnDisk
<1> QED
  BY <1>6, <1>8, <1>9, <1>10, <1>11, ScriptHere

LEMMA RecordKeepsInv ==
  ASSUME RolloutInv, op # Idle, Record
  PROVE  RolloutInv'
<1>1. PICK d, next : d = disk[Here] /\ next = Switched
  OBVIOUS
<1>2. /\ op \in Invocation /\ d \in Disk /\ DiskSound(d)
      /\ Follows(op, d, procs[Here]) /\ Waits(op, bad) /\ op.pc = "record"
  BY <1>1, AtRobot DEF Record
<1>3. op.displaced \in Versions /\ Holds(d, op.displaced)
  BY <1>2 DEF Follows
<1>4. PICK e : e = [d EXCEPT !.previous = op.displaced]
  OBVIOUS
<1>5. /\ e \in Disk /\ e.releases = d.releases /\ e.partial = d.partial /\ e.redone = d.redone
      /\ e.current = d.current /\ e.previous = op.displaced /\ e.units = d.units
  BY <1>2, <1>3, <1>4 DEF Disk
<1>6. \A w : Holds(d, w) => Holds(e, w)
  BY <1>5 DEF Holds
<1>7. DiskSound(e)
  BY <1>2, <1>3, <1>5, <1>6 DEF DiskSound
<1>8. PICK o : o = [op EXCEPT !.pc = next]
  OBVIOUS
<1>9. next \in {"units", "prune"} /\ (next = "prune" => ~op.mode.systemd)
  BY <1>1 DEF Switched
<1>10. /\ o \in Invocation /\ o.kind = op.kind /\ o.version = op.version /\ o.at = op.at /\ o.pc = next
       /\ o.script = op.script /\ o.units = op.units /\ o.mode = op.mode
  BY <1>2, <1>8, <1>9 DEF Invocation, Steps
<1>11. Waits(o, bad)
  BY <1>2, <1>9, <1>10 DEF Waits
<1>12. Follows(o, e, procs[Here])
  BY <1>2, <1>5, <1>9, <1>10 DEF Follows
<1>13. op' = o /\ disk' = [disk EXCEPT ![Here] = e] /\ UNCHANGED <<procs, up, bad, ops>>
  BY <1>1, <1>4, <1>8 DEF Record, Goto, OnDisk
<1> QED
  BY <1>7, <1>10, <1>11, <1>12, <1>13, ScriptHere

-----------------------------------------------------------------------------
(* The units, the processes and the old releases.                            *)

LEMMA InstallUnitKeepsInv ==
  ASSUME RolloutInv, op # Idle, InstallUnit
  PROVE  RolloutInv'
<1>1. PICK d : d = disk[Here]
  OBVIOUS
<1>2. /\ op \in Invocation /\ d \in Disk /\ DiskSound(d)
      /\ Follows(op, d, procs[Here]) /\ Waits(op, bad) /\ op.pc = "units"
  BY <1>1, AtRobot DEF InstallUnit
<1>3. CASE op.units = {} /\ Goto("stale") /\ UNCHANGED disk
  <2>1. PICK o : o = [op EXCEPT !.pc = "stale"]
    OBVIOUS
  <2>2. /\ o \in Invocation /\ o.kind = op.kind /\ o.version = op.version /\ o.at = op.at /\ o.pc = "stale"
        /\ o.script = op.script /\ o.mode = op.mode
    BY <1>2, <2>1 DEF Invocation, Steps
  <2>3. Waits(o, bad) /\ Follows(o, d, procs[Here])
    BY <1>2, <1>3, <2>2 DEF Waits, Follows
  <2> QED
    BY <1>1, <1>3, <2>1, <2>2, <2>3, MovesOn DEF InstallUnit, Goto
<1>4. ASSUME NEW i \in DOMAIN Listing,
             Listing[i] \in op.units \cap UnitsOf(d.current),
             OnDisk([d EXCEPT !.units[Listing[i]] = d.current]),
             op' = [op EXCEPT !.units = @ \ {Listing[i]}]
      PROVE  RolloutInv'
  <2>1. PICK u : u = Listing[i]
    OBVIOUS
  <2>2. PICK e : e = [d EXCEPT !.units = [d.units EXCEPT ![u] = d.current]]
    OBVIOUS
  <2>3. PICK o : o = [op EXCEPT !.units = op.units \ {u}]
    OBVIOUS
  <2>4. u \in Units /\ d.current \in Versions \cup {None} /\ d.units \in [Units -> Versions \cup {None}]
    BY <1>2, <1>4, <2>1 DEF Invocation, Disk
  <2>5. /\ e \in Disk /\ e.releases = d.releases /\ e.partial = d.partial /\ e.redone = d.redone
        /\ e.current = d.current /\ e.previous = d.previous /\ e.units = [d.units EXCEPT ![u] = d.current]
    BY <1>2, <2>2, <2>4 DEF Disk
  <2>6. \A w : Holds(d, w) => Holds(e, w)
    BY <2>5 DEF Holds
  <2>7. DiskSound(e)
    BY <1>2, <2>5, <2>6 DEF DiskSound
  <2>8. /\ o \in Invocation /\ o.kind = op.kind /\ o.version = op.version /\ o.at = op.at /\ o.pc = "units"
        /\ o.script = op.script /\ o.mode = op.mode /\ o.units = op.units \ {u}
    BY <1>2, <2>3 DEF Invocation
  <2>9. Waits(o, bad)
    BY <1>2, <2>8 DEF Waits
  <2>10. Follows(o, e, procs[Here])
    <3>1. op.kind = "install" => d.current = op.version /\ op.version \in Versions
      BY <1>2 DEF Follows, Invocation
    <3>2. ASSUME op.kind = "install", NEW w \in UnitsOf(op.version) \ o.units
          PROVE  e.units[w] = op.version
      <4>1. w \in Units
        BY <3>1, <3>2, Constants
      <4>2. CASE w = u
        BY <2>4, <2>5, <3>1, <3>2, <4>2
      <4>3. CASE w # u
        <5>1. w \in UnitsOf(op.version) \ op.units
          BY <2>8, <3>2, <4>3
        <5>2. d.units[w] = op.version
          BY <1>2, <3>2, <5>1 DEF Follows
        <5> QED
          BY <2>4, <2>5, <4>1, <4>3, <5>2
      <4> QED
        BY <4>2, <4>3
    <3> QED
      BY <1>2, <2>5, <2>8, <3>1, <3>2 DEF Follows
  <2>11. op' = o /\ disk' = [disk EXCEPT ![Here] = e]
    BY <1>1, <1>2, <1>4, <2>1, <2>2, <2>3 DEF OnDisk
  <2> QED
    BY <2>7, <2>8, <2>9, <2>10, <2>11, ScriptHere DEF InstallUnit
<1> QED
  BY <1>1, <1>3, <1>4 DEF InstallUnit

\* Nothing but the script's own units is left when it comes to the restart.
LEMMA RemoveStaleKeepsInv ==
  ASSUME RolloutInv, op # Idle, RemoveStale
  PROVE  RolloutInv'
<1>1. PICK d, p, a : d = disk[Here] /\ p = procs[Here] /\ a = up[Here]
  OBVIOUS
<1>2. /\ op \in Invocation /\ d \in Disk /\ DiskSound(d)
      /\ p \in [NodeSet -> Versions \cup {None}] /\ a \subseteq NodeSet /\ UpSound(p, a, bad)
      /\ Follows(op, d, p) /\ Waits(op, bad) /\ op.pc = "stale"
  BY <1>1, AtRobot DEF RemoveStale
<1>3. PICK stale : stale = {u \in Units : d.units[u] # None} \ UnitsOf(op.script)
  OBVIOUS
<1>4. CASE /\ stale = {} /\ Goto(IF op.mode.restart THEN "restart" ELSE "prune")
           /\ UNCHANGED <<disk, procs, up>>
  <2>1. PICK next : next = IF op.mode.restart THEN "restart" ELSE "prune"
    OBVIOUS
  <2>2. PICK o : o = [op EXCEPT !.pc = next]
    OBVIOUS
  <2>3. next \in {"restart", "prune"} /\ (next = "prune" => ~op.mode.restart)
    BY <2>1
  <2>4. /\ o \in Invocation /\ o.kind = op.kind /\ o.version = op.version /\ o.at = op.at /\ o.pc = next
        /\ o.script = op.script /\ o.mode = op.mode
    BY <1>2, <2>2, <2>3 DEF Invocation, Steps
  <2>5. Waits(o, bad)
    BY <1>2, <2>3, <2>4 DEF Waits
  <2>6. op.kind = "install" => UnitsAre(d, op.version)
    <3>1. d.units \in [Units -> Versions \cup {None}]
      BY <1>2 DEF Disk
    <3>2. ASSUME op.kind = "install", NEW u \in Units
          PROVE  d.units[u] = IF u \in UnitsOf(op.version) THEN op.version ELSE None
      BY <1>2, <1>3, <1>4, <3>2 DEF Follows
    <3> QED
      BY <3>1, <3>2 DEF UnitsAre
  <2>7. Follows(o, d, p)
    BY <1>2, <2>3, <2>4, <2>6 DEF Follows
  <2> QED
    BY <1>1, <1>4, <2>1, <2>2, <2>4, <2>5, <2>7, MovesOn DEF RemoveStale, Goto
<1>5. ASSUME NEW u \in stale,
             OnDisk([d EXCEPT !.units[u] = None]),
             procs' = [procs EXCEPT ![Here] = [p EXCEPT ![u] = None]],
             up' = [up EXCEPT ![Here] = a \ {u}],
             UNCHANGED op
      PROVE  RolloutInv'
  <2>1. PICK e : e = [d EXCEPT !.units = [d.units EXCEPT ![u] = None]]
    OBVIOUS
  <2>2. PICK q : q = [p EXCEPT ![u] = None]
    OBVIOUS
  <2>3. /\ e \in Disk /\ e.releases = d.releases /\ e.partial = d.partial /\ e.redone = d.redone
        /\ e.current = d.current /\ e.previous = d.previous /\ e.units = [d.units EXCEPT ![u] = None]
    BY <1>2, <2>1 DEF Disk
  <2>4. \A w : Holds(d, w) => Holds(e, w)
    BY <2>3 DEF Holds
  <2>5. DiskSound(e)
    BY <1>2, <2>3, <2>4 DEF DiskSound
  <2>6. q \in [NodeSet -> Versions \cup {None}] /\ a \ {u} \in SUBSET NodeSet
    BY <1>2, <2>2
  <2>7. UpSound(q, a \ {u}, bad)
    BY <1>2, <2>2 DEF UpSound
  <2>8. Follows(op, e, q)
    <3>1. d.units \in [Units -> Versions \cup {None}]
      BY <1>2 DEF Disk
    <3>2. op.kind = "install" => op.script = op.version /\ UnitsOf(op.version) \subseteq Units
      BY <1>2, Constants DEF Follows, Invocation
    <3>3. ASSUME op.kind = "install", NEW w \in UnitsOf(op.version)
          PROVE  e.units[w] = op.version
      <4>1. w \in Units /\ w # u /\ d.units[w] = op.version
        BY <1>2, <1>3, <1>5, <3>2, <3>3 DEF Follows
      <4> QED
        BY <2>3, <3>1, <4>1
    <3> QED
      BY <1>2, <2>3, <3>3 DEF Follows
  <2>9. op' = op /\ disk' = [disk EXCEPT ![Here] = e]
    BY <1>1, <1>2, <1>5, <2>1 DEF OnDisk
  <2> QED
    BY <1>2, <1>5, <2>2, <2>5, <2>6, <2>7, <2>8, <2>9, StepHere DEF RemoveStale
<1> QED
  BY <1>1, <1>3, <1>4, <1>5 DEF RemoveStale

\* What is started is what has a unit, from the release that is current.
LEMMA RestartKeepsInv ==
  ASSUME RolloutInv, op # Idle, Restart
  PROVE  RolloutInv'
<1>1. PICK d, p : d = disk[Here] /\ p = procs[Here]
  OBVIOUS
<1>2. /\ op \in Invocation /\ d \in Disk /\ DiskSound(d)
      /\ p \in [NodeSet -> Versions \cup {None}]
      /\ Follows(op, d, p) /\ Waits(op, bad) /\ op.pc = "restart"
  BY <1>1, AtRobot DEF Restart
<1>3. PICK wanted, started :
        /\ wanted = IF d.units[Target] = None THEN {} ELSE NodesOf[d.units[Target]]
        /\ started = {n \in NodeSet : d.units[n] # None /\ (n \in wanted \/ p[n] # None)}
  OBVIOUS
<1>4. PICK q : q = [n \in NodeSet |-> IF n \in started THEN d.current ELSE None]
  OBVIOUS
<1>5. PICK o : o = [op EXCEPT !.pc = "prune"]
  OBVIOUS
<1>6. q \in [NodeSet -> Versions \cup {None}]
  BY <1>2, <1>4 DEF Disk
<1>7. /\ o \in Invocation /\ o.kind = op.kind /\ o.version = op.version /\ o.at = op.at /\ o.pc = "prune"
      /\ o.script = op.script /\ o.mode = op.mode
  BY <1>2, <1>5 DEF Invocation, Steps
<1>8. Waits(o, bad)
  BY <1>2, <1>7 DEF Waits
<1>9. ASSUME op.kind = "install"
      PROVE  UnitsAre(d, op.version) /\ Runs(q, op.version) /\ d.current = op.version
  <2>1. PICK v : v = op.version
    OBVIOUS
  <2>2. v \in Versions /\ v # None /\ d.current = v /\ UnitsAre(d, v)
    BY <1>2, <1>9, <2>1, Constants DEF Follows, Invocation
  <2>3. NodesOf[v] \subseteq NodeSet /\ Target \in UnitsOf(v) /\ Target \in Units
    BY <2>2, Constants DEF UnitsOf, Units
  <2>4. \A n \in NodeSet : n \in Units /\ (n \in UnitsOf(v) <=> n \in NodesOf[v])
    BY Constants DEF UnitsOf, Units
  <2>5. \A n \in NodeSet : d.units[n] # None <=> n \in NodesOf[v]
    BY <2>2, <2>4 DEF UnitsAre
  <2>6. d.units[Target] = v
    BY <2>2, <2>3 DEF UnitsAre
  <2>7. started = NodesOf[v]
    BY <1>3, <2>2, <2>3, <2>5, <2>6
  <2> QED
    BY <1>4, <2>1, <2>2, <2>7 DEF Runs
<1>10. Follows(o, d, q)
  BY <1>2, <1>7, <1>9 DEF Follows
<1>11. /\ op' = o /\ disk' = disk /\ procs' = [procs EXCEPT ![Here] = q]
       /\ up' = [up EXCEPT ![Here] = {}] /\ UNCHANGED <<bad, ops>>
  BY <1>1, <1>3, <1>4, <1>5 DEF Restart, Goto
<1>12. disk' = [disk EXCEPT ![Here] = d]
  BY <1>1, <1>11 DEF RolloutInv
<1>13. UpSound(q, {}, bad)
  BY DEF UpSound
<1> QED
  BY <1>2, <1>6, <1>7, <1>8, <1>10, <1>11, <1>12, <1>13, StepHere

LEMMA PruneKeepsInv ==
  ASSUME RolloutInv, op # Idle, Prune
  PROVE  RolloutInv'
<1>1. PICK d : d = disk[Here]
  OBVIOUS
<1>2. /\ op \in Invocation /\ d \in Disk /\ DiskSound(d)
      /\ Follows(op, d, procs[Here]) /\ Waits(op, bad) /\ op.pc = "prune"
  BY <1>1, AtRobot DEF Prune
<1>3. CASE op' = [op EXCEPT !.pc = "gate", !.silent = NodesOf[op.version]] /\ UNCHANGED disk
  <2>1. PICK o : o = [op EXCEPT !.pc = "gate", !.silent = NodesOf[op.version]]
    OBVIOUS
  <2>2. NodesOf[op.version] \in SUBSET NodeSet
    BY <1>2, Constants DEF Invocation
  <2>3. /\ o \in Invocation /\ o.kind = op.kind /\ o.version = op.version /\ o.at = op.at /\ o.pc = "gate"
        /\ o.script = op.script /\ o.mode = op.mode /\ o.silent = NodesOf[op.version]
    BY <1>2, <2>1, <2>2 DEF Invocation, Steps
  <2>4. Waits(o, bad) /\ Follows(o, d, procs[Here])
    BY <1>2, <2>3 DEF Waits, Follows
  <2> QED
    BY <1>1, <1>3, <2>1, <2>3, <2>4, MovesOn DEF Prune
<1>4. ASSUME NEW v, v \notin {d.current, d.previous}, UNCHANGED op,
             OnDisk([d EXCEPT !.releases = RemoveFirst(@, v), !.partial = @ \ {v}, !.redone = @ \ {v}])
      PROVE  RolloutInv'
  <2>1. PICK e : e = [d EXCEPT !.releases = RemoveFirst(d.releases, v),
                               !.partial = d.partial \ {v}, !.redone = d.redone \ {v}]
    OBVIOUS
  <2>2. d.releases \in Seq(Versions) /\ IsInjective(d.releases)
    BY <1>2 DEF Disk, DiskSound
  <2>3. /\ RemoveFirst(d.releases, v) \in Seq(Versions) /\ IsInjective(RemoveFirst(d.releases, v))
        /\ ToSet(RemoveFirst(d.releases, v)) = ToSet(d.releases) \ {v}
    BY <2>2, FirstRemoved
  <2>4. /\ e.releases = RemoveFirst(d.releases, v) /\ e.partial = d.partial \ {v} /\ e.redone = d.redone \ {v}
        /\ e.current = d.current /\ e.previous = d.previous /\ e.units = d.units
    BY <1>2, <2>1 DEF Disk
  <2>5. e \in Disk
    BY <1>2, <2>1, <2>3 DEF Disk
  <2>6. \A w : w # v /\ Holds(d, w) => Holds(e, w)
    BY <2>3, <2>4 DEF Holds
  <2>7. DiskSound(e)
    BY <1>2, <1>4, <2>3, <2>4, <2>5, <2>6 DEF DiskSound
  <2>8. Follows(op, e, procs[Here])
    BY <1>2, <2>4 DEF Follows, UnitsAre
  <2>9. op' = op /\ disk' = [disk EXCEPT ![Here] = e]
    BY <1>1, <1>4, <2>1 DEF OnDisk
  <2> QED
    BY <1>2, <2>7, <2>8, <2>9, ScriptHere DEF Prune
<1> QED
  BY <1>1, <1>3, <1>4 DEF Prune, Prunable

-----------------------------------------------------------------------------
(* The gate.                                                                 *)

\* A release that never comes up has no process that reports its nodes active.
LEMMA AskHealthKeepsInv ==
  ASSUME RolloutInv, op # Idle, AskHealth
  PROVE  RolloutInv'
<1>1. PICK d, p, a : d = disk[Here] /\ p = procs[Here] /\ a = up[Here]
  OBVIOUS
<1>2. /\ op \in Invocation /\ d \in Disk /\ DiskSound(d)
      /\ UpSound(p, a, bad) /\ Follows(op, d, p) /\ Waits(op, bad) /\ op.pc = "gate"
  BY <1>1, AtRobot DEF AskHealth
<1>3. PICK n \in op.silent :
        op' = [op EXCEPT !.silent = IF n \in a THEN op.silent \ {n} ELSE NodesOf[op.version]]
  BY <1>1 DEF AskHealth
<1>4. PICK left : left = IF n \in a THEN op.silent \ {n} ELSE NodesOf[op.version]
  OBVIOUS
<1>5. PICK o : o = [op EXCEPT !.silent = left]
  OBVIOUS
<1>6. NodesOf[op.version] \in SUBSET NodeSet /\ op.silent \in SUBSET NodeSet
  BY <1>2, Constants DEF Invocation
<1>7. /\ o \in Invocation /\ o.kind = op.kind /\ o.version = op.version /\ o.at = op.at /\ o.pc = "gate"
      /\ o.script = op.script /\ o.mode = op.mode /\ o.silent = left
  BY <1>2, <1>4, <1>5, <1>6 DEF Invocation
<1>8. Waits(o, bad)
  <2>1. ASSUME op.kind = "install", op.version \in bad,
               op.mode.gate, op.mode.systemd, op.mode.restart
        PROVE  op.at = 1 /\ left = NodesOf[op.version]
    <3>1. op.at = 1 /\ op.silent = NodesOf[op.version] /\ Runs(p, op.version)
      BY <1>2, <2>1 DEF Waits, Follows
    <3>2. n \in NodeSet /\ p[n] = op.version
      BY <1>6, <3>1 DEF Runs
    <3>3. n \notin a
      BY <1>2, <2>1, <3>2 DEF UpSound
    <3> QED
      BY <1>4, <3>1, <3>3
  <2> QED
    BY <1>7, <2>1 DEF Waits
<1>9. Follows(o, d, p)
  BY <1>2, <1>7 DEF Follows
<1> QED
  BY <1>1, <1>3, <1>4, <1>5, <1>7, <1>8, <1>9, MovesOn DEF AskHealth

LEMMA NextRobotKeepsInv ==
  ASSUME RolloutInv, op # Idle, NextRobot
  PROVE  RolloutInv'
<1>1. /\ op \in Invocation /\ Waits(op, bad) /\ op.pc = "gate" /\ (op.mode.gate => op.silent = {})
      /\ (op.kind = "install" => op.script = op.version)
  BY AtRobot DEF NextRobot, Follows
<1>2. CASE op.at = Len(Robots)
  BY <1>2 DEF NextRobot, RolloutInv
<1>3. CASE op.at # Len(Robots)
  <2>1. PICK o : o = [op EXCEPT !.at = op.at + 1, !.pc = "ship", !.displaced = None, !.silent = {}]
    OBVIOUS
  <2>2. op' = o /\ UNCHANGED <<disk, procs, up, bad, ops>>
    BY <1>3, <2>1 DEF NextRobot
  <2>3. op.at \in 1..Len(Robots) /\ Len(Robots) \in Nat
    BY <1>1, RolloutAssumption, LenProperties DEF Invocation
  <2>4. op.at + 1 \in 1..Len(Robots)
    BY <1>3, <2>3
  <2>5. /\ o \in Invocation /\ o.kind = op.kind /\ o.version = op.version /\ o.pc = "ship"
        /\ o.script = op.script /\ o.mode = op.mode
    BY <1>1, <2>1, <2>4 DEF Invocation, Steps
  <2>6. ~(op.kind = "install" /\ op.version \in bad /\ op.mode.gate /\ op.mode.systemd /\ op.mode.restart)
    BY <1>1, Constants DEF Waits, Invocation
  <2>7. Waits(o, bad)
    BY <2>5, <2>6 DEF Waits
  <2>8. \A d, p : Follows(o, d, p)
    BY <1>1, <2>5 DEF Follows
  <2> QED
    BY <2>2, <2>5, <2>7, <2>8 DEF RolloutInv
<1> QED
  BY <1>2, <1>3

-----------------------------------------------------------------------------
(* The operator, the robots, and the beginning.                              *)

LEMMA InvokeKeepsInv ==
  ASSUME RolloutInv, Invoke
  PROVE  RolloutInv'
<1>1. PICK v \in Versions, mode \in Modes, kind \in {"install", "rollback"} :
        op' = [kind |-> kind, version |-> v, mode |-> Flagged(kind, mode), at |-> 1,
               pc |-> "ship", script |-> v, displaced |-> None, units |-> {}, silent |-> {}]
  BY DEF Invoke
<1>2. PICK o : o = [kind |-> kind, version |-> v, mode |-> Flagged(kind, mode), at |-> 1,
                    pc |-> "ship", script |-> v, displaced |-> None, units |-> {}, silent |-> {}]
  OBVIOUS
<1>3. Flagged(kind, mode) \in [restart : BOOLEAN, systemd : BOOLEAN, gate : BOOLEAN]
  <2>1. mode \in [restart : BOOLEAN, systemd : BOOLEAN, gate : BOOLEAN]
    BY RolloutAssumption
  <2> QED
    BY <2>1 DEF Flagged
<1>4. o \in Invocation /\ o.at = 1 /\ o.pc = "ship" /\ o.script = o.version
  BY <1>2, <1>3, Constants DEF Invocation, Steps
<1>5. /\ Waits(o, bad)
      /\ \A d, p : Follows(o, d, p)
  BY <1>4 DEF Waits, Follows
<1>6. op' = o /\ UNCHANGED <<disk, procs, up, bad>>
  BY <1>1, <1>2 DEF Invoke
<1>7. ops' \in 0..MaxOps
  <2>1. MaxOps \in Nat
    BY RolloutAssumption
  <2>2. ops \in 0..MaxOps /\ ops < MaxOps /\ ops' = ops + 1
    BY DEF Invoke, RolloutInv
  <2> QED
    BY <2>1, <2>2
<1> QED
  BY <1>4, <1>5, <1>6, <1>7 DEF RolloutInv

LEMMA ComeUpKeepsInv ==
  ASSUME RolloutInv, NEW r \in Machines, NEW n \in NodeSet, ComeUp(r, n)
  PROVE  RolloutInv'
<1>1. up' \in [Machines -> SUBSET NodeSet]
  BY DEF ComeUp, RolloutInv
<1>2. ASSUME NEW q \in Machines
      PROVE  UpSound(procs[q], up'[q], bad)
  <2>1. UpSound(procs[q], up[q], bad)
    BY DEF RolloutInv
  <2>2. up'[q] = IF q = r THEN up[r] \cup {n} ELSE up[q]
    BY DEF ComeUp, RolloutInv
  <2> QED
    BY <2>1, <2>2 DEF ComeUp, UpSound
<1>3. Here' = Here
  BY DEF ComeUp, Here
<1> QED
  BY <1>1, <1>2, <1>3 DEF ComeUp, RolloutInv

\* A process that comes back where the script has been comes back as what it was.
LEMMA RespawnKeepsInv ==
  ASSUME RolloutInv, NEW r \in Machines, NEW n \in NodeSet, Respawn(r, n)
  PROVE  RolloutInv'
<1>1. /\ procs[r] \in [NodeSet -> Versions \cup {None}] /\ disk[r] \in Disk /\ DiskSound(disk[r])
      /\ procs[r][n] # None
  BY DEF RolloutInv, Respawn
<1>2. /\ procs' = [procs EXCEPT ![r] = [procs[r] EXCEPT ![n] = disk[r].current]]
      /\ up' = [up EXCEPT ![r] = up[r] \ {n}]
      /\ UNCHANGED <<disk, op, bad, ops>>
  BY DEF Respawn
<1>3. PICK p : p = [procs[r] EXCEPT ![n] = disk[r].current]
  OBVIOUS
<1>4. p \in [NodeSet -> Versions \cup {None}]
  BY <1>1, <1>3 DEF Disk
<1>5. /\ procs' \in [Machines -> [NodeSet -> Versions \cup {None}]]
      /\ up' \in [Machines -> SUBSET NodeSet]
      /\ procs'[r] = p /\ up'[r] = up[r] \ {n}
      /\ \A q \in Machines \ {r} : procs'[q] = procs[q] /\ up'[q] = up[q]
  BY <1>2, <1>3, <1>4 DEF RolloutInv
<1>6. ASSUME NEW q \in Machines
      PROVE  UpSound(procs'[q], up'[q], bad)
  <2>1. UpSound(procs[q], up[q], bad) /\ up[q] \subseteq NodeSet
    BY DEF RolloutInv
  <2>2. CASE q = r
    BY <1>1, <1>3, <1>5, <2>1, <2>2 DEF UpSound
  <2>3. CASE q # r
    BY <1>5, <2>1, <2>3
  <2> QED
    BY <2>2, <2>3
<1>7. ASSUME op # Idle
      PROVE  Follows(op, disk[Here], procs'[Here])
  <2>1. /\ op \in Invocation /\ Here \in Machines /\ Follows(op, disk[Here], procs[Here])
    BY <1>7, AtRobot
  <2>2. CASE Here # r
    BY <1>5, <2>1, <2>2
  <2>3. CASE Here = r
    <3>1. ASSUME disk[r].current = op.version, Runs(procs[r], op.version)
          PROVE  Runs(p, op.version)
      <4>1. procs[r][n] = op.version
        BY <1>1, <3>1 DEF Runs
      <4>2. p = procs[r]
        BY <1>1, <1>3, <3>1, <4>1
      <4> QED
        BY <3>1, <4>2
    <3>2. Follows(op, disk[r], p)
      BY <2>1, <2>3, <3>1 DEF Follows
    <3> QED
      BY <1>5, <2>3, <3>2
  <2> QED
    BY <2>2, <2>3
<1>8. Here' = Here
  BY <1>2 DEF Here
<1> QED
  BY <1>2, <1>5, <1>6, <1>7, <1>8 DEF RolloutInv

LEMMA RolloutStarts == RolloutInit => RolloutInv
<1> SUFFICES ASSUME RolloutInit PROVE RolloutInv
  OBVIOUS
<1>1. /\ disk \in [Machines -> Disk]
      /\ \A r \in Machines : DiskSound(disk[r])
  <2>1. CASE disk = [r \in Machines |-> NewDisk]
    <3>1. /\ NewDisk = [releases |-> <<>>, partial |-> {}, redone |-> {}, current |-> None,
                        previous |-> None, units |-> [u \in Units |-> None]]
      BY DEF NewDisk, NoUnits
    <3>2. <<>> \in Seq(Versions) /\ IsInjective(<<>>)
      BY EmptySeq DEF IsInjective
    <3>3. NewDisk \in Disk
      BY <3>1, <3>2 DEF Disk
    <3>4. DiskSound(NewDisk)
      BY <3>1, <3>2, <3>3, Constants DEF DiskSound
    <3> QED
      BY <2>1, <3>3, <3>4
  <2>2. ASSUME NEW h \in Histories, disk = [r \in Machines |-> OldDisk(h[1], h[2])]
        PROVE  disk \in [Machines -> Disk] /\ \A r \in Machines : DiskSound(disk[r])
    <3>1. PICK v, w : v = h[1] /\ w = h[2]
      OBVIOUS
    <3>2. v \in Versions /\ w \in Versions /\ v # w
      BY <3>1, RolloutAssumption
    <3>3. PICK e : e = OldDisk(v, w)
      OBVIOUS
    <3>4. /\ e = [releases |-> <<v, w>>, partial |-> {}, redone |-> {}, current |-> w, previous |-> v,
                  units |-> [u \in Units |-> IF u \in UnitsOf(w) THEN w ELSE None]]
      BY <3>3 DEF OldDisk, NewDisk, NoUnits
    <3>5. <<v, w>> \in Seq(Versions) /\ IsInjective(<<v, w>>) /\ ToSet(<<v, w>>) = {v, w}
      BY <3>2 DEF IsInjective, ToSet
    <3>6. e \in Disk
      BY <3>2, <3>4, <3>5 DEF Disk
    <3>7. DiskSound(e)
      BY <3>4, <3>5, <3>6 DEF DiskSound, Holds
    <3> QED
      BY <2>2, <3>1, <3>3, <3>6, <3>7
  <2> QED
    BY <2>1, <2>2 DEF RolloutInit
<1>2. procs \in [Machines -> [NodeSet -> Versions \cup {None}]]
  <2>1. \A r \in Machines, n \in NodeSet : disk[r].units[n] \in Versions \cup {None}
    BY <1>1 DEF Disk, Units
  <2> QED
    BY <2>1 DEF RolloutInit
<1>3. up \in [Machines -> SUBSET NodeSet] /\ \A r \in Machines : UpSound(procs[r], up[r], bad)
  BY DEF RolloutInit, UpSound
<1>4. ops \in 0..MaxOps /\ op = Idle
  <2>1. MaxOps \in Nat
    BY RolloutAssumption
  <2>2. ops = 0 /\ op = Idle
    BY DEF RolloutInit
  <2> QED
    BY <2>1, <2>2
<1> QED
  BY <1>1, <1>2, <1>3, <1>4 DEF RolloutInv

LEMMA RolloutSteps == RolloutInv /\ [RolloutNext]_rolloutVars => RolloutInv'
<1> SUFFICES ASSUME RolloutInv, [RolloutNext]_rolloutVars
             PROVE  RolloutInv'
  OBVIOUS
<1>1. CASE Invoke
  BY <1>1, InvokeKeepsInv
<1>2. CASE Fail
  BY <1>2 DEF Fail, RolloutInv
<1>3. CASE op # Idle /\ Ship
  BY <1>3, ShipKeepsInv
<1>4. CASE op # Idle /\ ScriptStep
  BY <1>4, UnpackKeepsInv, UnpackedKeepsInv, SwitchKeepsInv, ForgetKeepsInv, RecordKeepsInv,
     InstallUnitKeepsInv, RemoveStaleKeepsInv, RestartKeepsInv, PruneKeepsInv DEF ScriptStep
<1>5. CASE op # Idle /\ AskHealth
  BY <1>5, AskHealthKeepsInv
<1>6. CASE op # Idle /\ NextRobot
  BY <1>6, NextRobotKeepsInv
<1>7. ASSUME NEW r \in Machines, NEW n \in NodeSet, ComeUp(r, n) \/ Respawn(r, n)
      PROVE  RolloutInv'
  BY <1>7, ComeUpKeepsInv, RespawnKeepsInv
<1>8. CASE UNCHANGED rolloutVars
  <2>1. Here' = Here
    BY <1>8 DEF rolloutVars, Here
  <2> QED
    BY <1>8, <2>1 DEF rolloutVars, RolloutInv
<1> QED
  BY <1>1, <1>2, <1>3, <1>4, <1>5, <1>6, <1>7, <1>8 DEF RolloutNext

LEMMA RolloutInvIsEnough == RolloutInv => RobotsStayWhole /\ BadReleaseContained
<1> SUFFICES ASSUME RolloutInv PROVE RobotsStayWhole /\ BadReleaseContained
  OBVIOUS
<1>1. RolloutTypeOK
  BY DEF RolloutInv, RolloutTypeOK, DiskSound
<1>2. RollbackTargetSurvives /\ CurrentIsWhole
  <2>1. ASSUME NEW r \in Machines
        PROVE  DiskSound(disk[r]) /\ disk[r] \in Disk /\ (disk[r].current = None => None \notin disk[r].partial)
    BY Constants DEF RolloutInv, Disk
  <2> QED
    BY <2>1 DEF RollbackTargetSurvives, CurrentIsWhole, DiskSound, Holds
<1>3. InstalledIsRunning
  BY AtRobot DEF InstalledIsRunning, Follows, UnitsAre, Runs
<1>4. BadReleaseContained
  BY AtRobot DEF BadReleaseContained, Waits
<1> QED
  BY <1>1, <1>2, <1>3, <1>4 DEF RobotsStayWhole

-----------------------------------------------------------------------------
(* The theorems.                                                             *)

\* The inductive invariant: in particular, from the unlink of `previous` to its
\* record the release that current was moved from is still on the robot, so that
\* a script cut off in between loses the way back and nothing else.
THEOREM RolloutInvariance == RolloutSpec => []RolloutInv
<1>1. RolloutInit => RolloutInv
  BY RolloutStarts
<1>2. RolloutInv /\ [RolloutNext]_rolloutVars => RolloutInv'
  BY RolloutSteps
<1> QED
  BY <1>1, <1>2, PTL DEF RolloutSpec

\* Wherever scripts are cut off, current and previous name releases that are
\* there to be run, and an install that ends leaves its units and processes.
THEOREM StayWhole == RolloutSpec => []RobotsStayWhole
<1>1. RolloutInv => RobotsStayWhole
  BY RolloutInvIsEnough
<1> QED
  BY <1>1, RolloutInvariance, PTL

\* The gate keeps a release that never comes up on the first robot, though it may
\* be asking processes of the release before.
THEOREM Contained == RolloutSpec => []BadReleaseContained
<1>1. RolloutInv => BadReleaseContained
  BY RolloutInvIsEnough
<1> QED
  BY <1>1, RolloutInvariance, PTL

-----------------------------------------------------------------------------
(***************************************************************************)
(* The development runner (Supervisor).                                    *)
(***************************************************************************)

Living(r) == r.leader = "up" \/ r.child # "none"

\* Nobody waits for the rest of this group: it is gone, or its leader ended when
\* asked to and left a child that holds no pipe.
Settled(r) ==
  Living(r) => r.leader = "gone" /\ r.child = "loose" /\ r.told \in {"int", "term"}

\* The session has begun to stop what it started, or is over.
Stopping == {"stop", "grace", "exited"}
Over == Stopping \cup {"killed"}

\* A process nobody forked has spawned nothing, SIGKILL leaves nobody, and `go run`
\* ends before the application only when it is told to.
Grown(sp, g) ==
  /\ \A p \in Procs : g[p].leader = "unborn" => g[p].child = "none"
  /\ \A p \in Procs : g[p].told = "kill" => ~Living(g[p])
  /\ ~sp => g[App].child # "piped" /\ (g[App].leader = "gone" => Settled(g[App]))

\* Where the session is says what it has forked so far.
Stage(s, a, sp, g) ==
  /\ s = "await" => a \in Requires
  /\ s = "start" => a \in 1..App
  /\ s \in {"build", "nodes", "drain"} => sp
  /\ s \in {"forked", "app", "hangup"} => ~sp
  /\ ~sp /\ s \in {"start", "await", "launch"} => g[App].leader = "unborn"

\* The sweep of stop: nobody waits for what lies above the process it is about.
Sweep(s, a, sp, g) ==
  /\ ~sp /\ s \in Stopping => Settled(g[App])
  /\ s \in {"stop", "grace"} => \A p \in Procs : p > a => Settled(g[p])
  /\ s = "grace" => /\ a \in Procs /\ g[a].leader # "unborn" /\ (sp \/ a # App)
                    /\ g[a].told # "nothing"
  /\ s = "exited" => \A p \in Procs : Settled(g[p])

\* Nobody told a required process to end before stop did, and stop only did
\* once all its dependents were settled.
Orders(s, g) ==
  /\ s \notin Over => \A p \in Requires : g[p].told \notin {"int", "kill"}
  /\ \A p \in Requires :
       g[p].told \in {"int", "kill"} => \A q \in Procs : q > p => Settled(g[q])

SessionHolds(s, a, sp, g) == Grown(sp, g) /\ Stage(s, a, sp, g) /\ Sweep(s, a, sp, g) /\ Orders(s, g)

SupInv == SupTypeOK /\ SessionHolds(session, at, split, group)

-----------------------------------------------------------------------------
\* The youngest of some processes is one of them, and none is younger.
LEMMA Youngest ==
  ASSUME NEW T, T \subseteq Procs, T # {}
  PROVE  Max(T) \in T /\ \A x \in T : x <= Max(T)
<1> DEFINE top == Required + SplitNodes + 1
           D == {top - x : x \in T}
           R == OpToRel(<, Nat)
<1>1. top \in Nat /\ \A x \in T : x \in Nat /\ x <= top
  BY SupAssumption DEF Procs, Requires, Reported, NodeProcs, App
<1>2. D \subseteq Nat /\ D # {}
  BY <1>1
<1>3. PICK d \in D : \A e \in D : ~ (<<e, d>> \in R)
  <2> HIDE DEF D, R
  <2>1. IsWellFoundedOn(R, Nat)
    BY NatLessThanWellFounded DEF R
  <2> QED
    BY <1>2, <2>1, WFMin
<1>4. \A e \in D : ~(e < d)
  BY <1>2, <1>3 DEF OpToRel
<1>5. PICK x \in T : d = top - x
  BY <1>3
<1>6. ASSUME NEW y \in T PROVE x >= y
  <2>1. top - y \in D
    OBVIOUS
  <2>2. x \in Nat /\ y \in Nat /\ top \in Nat /\ ~(top - y < top - x)
    BY <1>1, <1>4, <1>5, <2>1
  <2> HIDE DEF top
  <2> QED
    BY <2>2
<1>7. Max(T) \in T /\ \A y \in T : Max(T) >= y
  BY <1>6 DEF Max
<1> QED
  BY <1>1, <1>7

-----------------------------------------------------------------------------
(* What becomes of the groups.                                             *)

Group == [leader : {"unborn", "up", "gone"}, child : Children, told : Told]

\* Whoever was settled still is, nobody is forked, and no required process was
\* told more.
Lesser(sp, g, g2) ==
  /\ Grown(sp, g2)
  /\ \A p \in Procs : Settled(g[p]) => Settled(g2[p])
  /\ \A p \in Procs : g2[p].leader = "unborn" <=> g[p].leader = "unborn"
  /\ \A p \in Procs : g[p].told # "nothing" => g2[p].told # "nothing"
  /\ \A p \in Requires : g2[p].told \in {"int", "kill"} => g[p].told \in {"int", "kill"}

LEMMA ProcessPlaces == App \in Procs /\ Requires \subseteq Procs /\ App \notin Requires
               /\ NodeProcs \subseteq Procs /\ NodeProcs \cap Requires = {}
               /\ \A p \in Procs : p \in 1..(Required + SplitNodes + 1)
  BY SupAssumption DEF Procs, Requires, Reported, NodeProcs, App

LEMMA Dwindling ==
  ASSUME NEW s, NEW a, NEW sp, NEW g \in [Procs -> Group], NEW g2 \in [Procs -> Group],
         SessionHolds(s, a, sp, g), Lesser(sp, g, g2)
  PROVE  SessionHolds(s, a, sp, g2)
<1>1. App \in Procs /\ Requires \subseteq Procs
  BY ProcessPlaces
<1>2. Grown(sp, g2)
  BY DEF Lesser
<1>3. Stage(s, a, sp, g2)
  BY <1>1, Zenon DEF SessionHolds, Stage, Lesser
<1>4. Sweep(s, a, sp, g2)
  BY <1>1, Zenon DEF SessionHolds, Sweep, Lesser
<1>5. Orders(s, g2)
  BY <1>1, Zenon DEF SessionHolds, Orders, Lesser
<1> QED
  BY <1>2, <1>3, <1>4, <1>5 DEF SessionHolds

LEMMA Telling ==
  ASSUME group \in [Procs -> Group], NEW P, NEW sig \in Told, Tell(P, sig)
  PROVE  /\ group' \in [Procs -> Group]
         /\ \A p \in Procs :
              /\ group'[p].leader = group[p].leader /\ group'[p].child = group[p].child
              /\ group'[p].told \in {group[p].told, sig}
              /\ group[p].told = "kill" => group'[p].told = "kill"
              /\ p \in P /\ group[p].leader # "unborn" => group'[p].told # "nothing" \/ sig = "nothing"
              /\ p \notin P => group'[p] = group[p]
<1>1. ASSUME NEW p \in Procs
      PROVE  /\ group'[p] \in Group
             /\ group'[p].leader = group[p].leader /\ group'[p].child = group[p].child
             /\ group'[p].told \in {group[p].told, sig}
             /\ group[p].told = "kill" => group'[p].told = "kill"
             /\ p \in P /\ group[p].leader # "unborn" => group'[p].told # "nothing" \/ sig = "nothing"
             /\ p \notin P => group'[p] = group[p]
  <2>1. group[p] \in Group
    OBVIOUS
  <2>2. group'[p] = IF p \in P /\ Born(p)
                    THEN [group[p] EXCEPT !.told = Hears(@, sig)] ELSE group[p]
    BY DEF Tell
  <2> QED
    BY <2>1, <2>2 DEF Group, Hears, Told, Born
<1> QED
  BY <1>1 DEF Tell

LEMMA Killing ==
  ASSUME group \in [Procs -> Group], NEW P, Kill(P)
  PROVE  /\ group' \in [Procs -> Group]
         /\ \A p \in Procs :
              /\ group'[p].leader = "unborn" <=> group[p].leader = "unborn"
              /\ p \in P /\ group[p].leader # "unborn" =>
                   ~Living(group'[p]) /\ group'[p].told = "kill"
              /\ p \notin P => group'[p] = group[p]
              /\ p \in P => group'[p] = group[p] \/ (~Living(group'[p]) /\ group'[p].told = "kill")
<1>1. ASSUME NEW p \in Procs
      PROVE  /\ group'[p] \in Group
             /\ group'[p].leader = "unborn" <=> group[p].leader = "unborn"
             /\ p \in P /\ group[p].leader # "unborn" =>
                  ~Living(group'[p]) /\ group'[p].told = "kill"
             /\ p \notin P => group'[p] = group[p]
             /\ p \in P => group'[p] = group[p] \/ (~Living(group'[p]) /\ group'[p].told = "kill")
  <2>1. group[p] \in Group
    OBVIOUS
  <2>2. group'[p] = IF p \in P /\ Born(p) THEN Killed(group[p]) ELSE group[p]
    BY DEF Kill
  <2> QED
    BY <2>1, <2>2 DEF Group, Killed, Told, Children, Living, Born
<1> QED
  BY <1>1 DEF Kill

LEMMA Forking ==
  ASSUME group \in [Procs -> Group], NEW p \in Procs, Fork(p)
  PROVE  /\ group' \in [Procs -> Group]
         /\ group'[p] = Begin
         /\ \A q \in Procs : q # p => group'[q] = group[q]
  BY DEF Fork, Group, Begin, Told, Children

\* What signals do to the sweep.
LEMMA ToldStaySettled ==
  ASSUME group \in [Procs -> Group], NEW P, NEW sig \in {"int", "term"}, Tell(P, sig),
         Grown(split, group)
  PROVE  /\ group' \in [Procs -> Group] /\ Grown(split, group')
         /\ \A p \in Procs :
              /\ Settled(group[p]) => Settled(group'[p])
              /\ group[p].told # "nothing" => group'[p].told # "nothing"
              /\ group'[p].leader = group[p].leader
              /\ p \in P /\ group[p].leader # "unborn" => group'[p].told # "nothing"
              /\ group'[p].told \in {group[p].told, sig}
              /\ p \notin P => group'[p] = group[p]
<1>1. sig \in Told /\ sig # "kill" /\ sig # "nothing"
  BY DEF Told
<1>2. /\ group' \in [Procs -> Group]
      /\ \A p \in Procs :
           /\ group'[p].leader = group[p].leader /\ group'[p].child = group[p].child
           /\ group'[p].told \in {group[p].told, sig}
           /\ group[p].told = "kill" => group'[p].told = "kill"
           /\ p \in P /\ group[p].leader # "unborn" => group'[p].told # "nothing"
           /\ p \notin P => group'[p] = group[p]
  BY <1>1, Telling
<1>3. \A p \in Procs : (Settled(group[p]) => Settled(group'[p])) /\ (Living(group'[p]) <=> Living(group[p]))
  BY <1>2 DEF Settled, Living
<1>4. Grown(split, group')
  BY <1>1, <1>2, <1>3, ProcessPlaces DEF Grown
<1> QED
  BY <1>1, <1>2, <1>3, <1>4

LEMMA KilledAreSettled ==
  ASSUME group \in [Procs -> Group], NEW P, Kill(P), Grown(split, group)
  PROVE  /\ group' \in [Procs -> Group] /\ Grown(split, group')
         /\ \A p \in Procs :
              /\ Settled(group[p]) => Settled(group'[p])
              /\ group[p].told # "nothing" => group'[p].told # "nothing"
              /\ group'[p].leader = "unborn" <=> group[p].leader = "unborn"
              /\ p \in P => Settled(group'[p])
              /\ p \notin P => group'[p] = group[p]
<1>1. /\ group' \in [Procs -> Group]
      /\ \A p \in Procs :
           /\ group'[p].leader = "unborn" <=> group[p].leader = "unborn"
           /\ p \in P /\ group[p].leader # "unborn" =>
                ~Living(group'[p]) /\ group'[p].told = "kill"
           /\ p \notin P => group'[p] = group[p]
           /\ group'[p] = group[p] \/ (~Living(group'[p]) /\ group'[p].told = "kill")
  BY Killing
<1>2. \A p \in Procs : group[p].leader = "unborn" => group'[p].child = "none"
  <2>1. \A p \in Procs : group[p].leader = "unborn" => group[p].child = "none"
    BY DEF Grown
  <2> QED
    BY <1>1, <2>1 DEF Living
<1>3. \A p \in Procs : ~Living(group'[p]) => group'[p].child # "piped" /\ Settled(group'[p])
  BY DEF Living, Settled
<1>4. Grown(split, group')
  BY <1>1, <1>2, <1>3, ProcessPlaces DEF Grown
<1>5. \A p \in Procs : p \in P => Settled(group'[p])
  <2>1. \A p \in Procs : group[p].leader = "unborn" => ~Living(group'[p])
    BY <1>1, <1>2 DEF Living
  <2> QED
    BY <1>1, <1>3, <2>1
<1> QED
  BY <1>1, <1>3, <1>4, <1>5

-----------------------------------------------------------------------------
(* Every step keeps the invariant.                                         *)

LEMMA SessionStarts == SupInit => SupInv
<1> SUFFICES ASSUME SupInit PROVE SupInv
  OBVIOUS
<1>1. at \in 0..(Required + SplitNodes + 1) /\ at \in 1..App /\ 0 \in 0..MaxSignals
  BY SupAssumption DEF SupInit, App
<1>2. group \in [Procs -> Group]
      /\ \A p \in Procs : group[p].leader = "unborn" /\ group[p].child = "none"
                          /\ group[p].told = "nothing"
  BY DEF SupInit, Group, Told, Children
<1>3. SupTypeOK
  BY <1>1, <1>2 DEF SupInit, SupTypeOK, Phases, Group, Ready
<1>4. SessionHolds(session, at, split, group)
  BY <1>1, <1>2, ProcessPlaces
     DEF SupInit, SessionHolds, Grown, Stage, Sweep, Orders, Settled, Living, Over, Stopping
<1> QED
  BY <1>3, <1>4 DEF SupInv

\* A session that leaves has nothing above the process it stops first.
LEMMA Leaving ==
  ASSUME NEW r, Leave(r), group' \in [Procs -> Group], split' = split,
         SessionHolds(session, at, split, group'), session \notin Over,
         ~split => Settled(group'[App])
  PROVE  SessionHolds(session', at', split', group')
<1>1. session' = "stop" /\ at' = Required + SplitNodes + 1
  BY DEF Leave
<1>2. \A p \in Procs : ~(p > at')
  BY <1>1, ProcessPlaces, SupAssumption
<1>3. Stage(session', at', split', group') /\ Sweep(session', at', split', group')
  BY <1>1, <1>2 DEF Stage, Sweep, Stopping
<1>4. Grown(split', group') /\ Orders(session', group')
  BY <1>1 DEF SessionHolds, Grown, Orders, Over, Stopping
<1> QED
  BY <1>3, <1>4 DEF SessionHolds

LEMMA StartRequiredKeeps ==
  ASSUME SupInv, StartRequired PROVE SupInv'
<1>1. /\ SupTypeOK /\ group \in [Procs -> Group] /\ SessionHolds(session, at, split, group)
      /\ session = "start" /\ at \in Requires /\ split' = split
  BY DEF SupInv, SupTypeOK, Group, StartRequired, Control
<1>2. at \in Procs /\ at # App /\ App \in Procs /\ Requires \subseteq Procs
  BY <1>1, ProcessPlaces
<1>3. CASE Fork(at) /\ session' = "await" /\ UNCHANGED <<at, result, inbox, watcher>>
  <2>1. group' \in [Procs -> Group] /\ group'[at] = Begin
        /\ \A q \in Procs : q # at => group'[q] = group[q]
    BY <1>1, <1>2, <1>3, Forking
  <2>2. SupTypeOK'
    BY <1>1, <1>3, <2>1 DEF SupTypeOK, Group, Phases, StartRequired, Control
  <2>3. \A p \in Requires : group'[p].told \notin {"int", "kill"}
    BY <1>1, <1>2, <2>1 DEF SessionHolds, Orders, Over, Stopping, Begin
  <2>4. Grown(split, group')
    BY <1>1, <1>2, <2>1 DEF SessionHolds, Grown, Begin, Settled, Living
  <2>5. SessionHolds(session', at', split, group')
    BY <1>1, <1>2, <1>3, <2>1, <2>3, <2>4
       DEF SessionHolds, Stage, Sweep, Orders, Over, Stopping
  <2> QED
    BY <1>1, <2>2, <2>5 DEF SupInv
<1>4. CASE Leave("error") /\ UNCHANGED group
  <2>1. ~split => Settled(group[App])
    BY <1>1, <1>2 DEF SessionHolds, Stage, Grown, Settled, Living
  <2>2. SessionHolds(session', at', split', group')
    BY <1>1, <1>4, <2>1, Leaving DEF Over, Stopping
  <2>3. SupTypeOK'
    BY <1>1, <1>4, SupAssumption DEF SupTypeOK, Leave, Phases, StartRequired, Control
  <2> QED
    BY <2>2, <2>3 DEF SupInv
<1> QED
  BY <1>3, <1>4 DEF StartRequired

LEMMA AwaitKeeps ==
  ASSUME SupInv, Await PROVE SupInv'
<1>1. /\ SupTypeOK /\ group \in [Procs -> Group] /\ SessionHolds(session, at, split, group)
      /\ session = "await" /\ at \in Requires /\ split' = split /\ group' = group
  BY DEF SupInv, SupTypeOK, Group, Await, Control, SessionHolds, Stage
<1>2. CASE session' = "start" /\ at' = at + 1 /\ UNCHANGED <<result, inbox, watcher>>
  <2>1. at' \in 1..App /\ at' \in 0..(Required + SplitNodes + 1)
    BY <1>1, <1>2, SupAssumption DEF Requires, App
  <2>2. SupTypeOK'
    BY <1>1, <1>2, <2>1 DEF SupTypeOK, Phases, Await, Control
  <2>3. SessionHolds(session', at', split', group')
    BY <1>1, <1>2, <2>1 DEF SessionHolds, Grown, Stage, Sweep, Orders, Over, Stopping
  <2> QED
    BY <2>2, <2>3 DEF SupInv
<1>3. CASE Leave("error")
  <2>1. ~split => Settled(group[App])
    BY <1>1, ProcessPlaces DEF SessionHolds, Stage, Grown, Settled, Living
  <2>2. SessionHolds(session', at', split', group')
    BY <1>1, <1>3, <2>1, Leaving DEF Over, Stopping
  <2>3. SupTypeOK'
    BY <1>1, <1>3, SupAssumption DEF SupTypeOK, Leave, Phases, Await, Control
  <2> QED
    BY <2>2, <2>3 DEF SupInv
<1> QED
  BY <1>2, <1>3 DEF Await

LEMMA BetweenKeeps ==
  ASSUME SupInv, RequiredUp \/ Build \/ HandleSignals PROVE SupInv'
<1>1. /\ SupTypeOK /\ group \in [Procs -> Group] /\ SessionHolds(session, at, split, group)
      /\ split' = split /\ group' = group
  BY DEF SupInv, SupTypeOK, Group, RequiredUp, Build, HandleSignals, Control
<1>2. CASE RequiredUp
  <2>1. SupTypeOK'
    BY <1>1, <1>2 DEF SupTypeOK, Phases, RequiredUp, Control, Views
  <2>2. SessionHolds(session', at', split', group')
    BY <1>1, <1>2 DEF RequiredUp, SessionHolds, Grown, Stage, Sweep, Orders, Over, Stopping
  <2> QED
    BY <2>1, <2>2 DEF SupInv
<1>3. CASE HandleSignals
  <2>1. SupTypeOK'
    BY <1>1, <1>3 DEF SupTypeOK, Phases, HandleSignals, Control, Views
  <2>2. SessionHolds(session', at', split', group')
    BY <1>1, <1>3 DEF HandleSignals, SessionHolds, Grown, Stage, Sweep, Orders, Over, Stopping
  <2> QED
    BY <2>1, <2>2 DEF SupInv
<1>4. CASE Build /\ session' = "launch" /\ UNCHANGED <<at, result, inbox, watcher>>
  <2>1. SupTypeOK'
    BY <1>1, <1>4 DEF SupTypeOK, Phases, Build, Control
  <2>2. SessionHolds(session', at', split', group')
    BY <1>1, <1>4 DEF Build, SessionHolds, Grown, Stage, Sweep, Orders, Over, Stopping
  <2> QED
    BY <2>1, <2>2 DEF SupInv
<1>5. CASE Build /\ Leave("error")
  <2>1. session = "build" /\ split
    BY <1>1, <1>5 DEF Build, SessionHolds, Stage
  <2>2. SessionHolds(session', at', split', group')
    BY <1>1, <1>5, <2>1, Leaving DEF Over, Stopping
  <2>3. SupTypeOK'
    BY <1>1, <1>5, SupAssumption DEF SupTypeOK, Leave, Phases, Build, Control
  <2> QED
    BY <2>2, <2>3 DEF SupInv
<1> QED
  BY <1>2, <1>3, <1>4, <1>5 DEF Build

LEMMA LaunchAppKeeps ==
  ASSUME SupInv, LaunchApp PROVE SupInv'
<1>1. /\ SupTypeOK /\ group \in [Procs -> Group] /\ SessionHolds(session, at, split, group)
      /\ session = "launch" /\ ~split /\ split' = split /\ group[App].leader = "unborn"
  BY DEF SupInv, SupTypeOK, Group, LaunchApp, Control, SessionHolds, Stage
<1>2. App \in Procs /\ App \notin Requires /\ Requires \subseteq Procs
  BY ProcessPlaces
<1>3. CASE Fork(App) /\ session' = "forked" /\ UNCHANGED <<at, result, inbox, watcher>>
  <2>1. group' \in [Procs -> Group] /\ group'[App] = Begin
        /\ \A q \in Procs : q # App => group'[q] = group[q]
    BY <1>1, <1>2, <1>3, Forking
  <2>2. SupTypeOK'
    BY <1>1, <1>3, <2>1 DEF SupTypeOK, Group, Phases, LaunchApp, Control
  <2>3. \A p \in Requires : group'[p].told \notin {"int", "kill"}
    BY <1>1, <1>2, <2>1 DEF SessionHolds, Orders, Over, Stopping
  <2>4. Grown(split, group')
    BY <1>1, <1>2, <2>1 DEF SessionHolds, Grown, Begin, Settled, Living
  <2>5. SessionHolds(session', at', split', group')
    BY <1>1, <1>3, <2>3, <2>4 DEF SessionHolds, Stage, Sweep, Orders, Over, Stopping
  <2> QED
    BY <2>2, <2>5 DEF SupInv
<1>4. CASE Leave("error") /\ UNCHANGED group
  <2>1. Settled(group[App])
    BY <1>1, <1>2 DEF SessionHolds, Grown, Settled, Living
  <2>2. SessionHolds(session', at', split', group')
    BY <1>1, <1>4, <2>1, Leaving DEF Over, Stopping
  <2>3. SupTypeOK'
    BY <1>1, <1>4, SupAssumption DEF SupTypeOK, Leave, Phases, LaunchApp, Control
  <2> QED
    BY <2>2, <2>3 DEF SupInv
<1> QED
  BY <1>3, <1>4 DEF LaunchApp

LEMMA LaunchNodeKeeps ==
  ASSUME SupInv, LaunchNode PROVE SupInv'
<1>1. /\ SupTypeOK /\ group \in [Procs -> Group] /\ SessionHolds(session, at, split, group)
      /\ session = "launch" /\ split /\ split' = split
  BY DEF SupInv, SupTypeOK, Group, LaunchNode, Control
<1>2. NodeProcs \subseteq Procs /\ NodeProcs \cap Requires = {} /\ Requires \subseteq Procs
  BY ProcessPlaces
<1>3. ASSUME at \in NodeProcs, Fork(at), at' = at + 1,
             UNCHANGED <<session, result, inbox, watcher, browser>>
      PROVE  SupInv'
  <2>1. group' \in [Procs -> Group] /\ group'[at] = Begin
        /\ \A q \in Procs : q # at => group'[q] = group[q]
    BY <1>1, <1>2, <1>3, Forking
  <2>2. at' \in 0..(Required + SplitNodes + 1)
    BY <1>3, SupAssumption DEF NodeProcs
  <2>3. SupTypeOK'
    BY <1>1, <1>3, <2>1, <2>2 DEF SupTypeOK, Group, Phases, LaunchNode, Control
  <2>4. \A p \in Requires : group'[p].told \notin {"int", "kill"}
    BY <1>1, <1>2, <1>3, <2>1 DEF SessionHolds, Orders, Over, Stopping
  <2>5. Grown(split, group')
    BY <1>1, <1>2, <1>3, <2>1 DEF SessionHolds, Grown, Begin, Settled, Living
  <2>6. SessionHolds(session', at', split', group')
    BY <1>1, <1>3, <2>4, <2>5 DEF SessionHolds, Stage, Sweep, Orders, Over, Stopping
  <2> QED
    BY <2>3, <2>6 DEF SupInv
<1>4. ASSUME Leave("error"), UNCHANGED <<group, browser>>
      PROVE  SupInv'
  <2>1. SessionHolds(session', at', split', group')
    BY <1>1, <1>4, Leaving DEF Over, Stopping
  <2>2. SupTypeOK'
    BY <1>1, <1>4, SupAssumption DEF SupTypeOK, Leave, Phases, LaunchNode, Control
  <2> QED
    BY <2>1, <2>2 DEF SupInv
<1>5. ASSUME session' = "nodes", browser' = TRUE, UNCHANGED <<at, group, result, inbox, watcher>>
      PROVE  SupInv'
  <2>1. SessionHolds(session', at', split', group')
    BY <1>1, <1>5 DEF SessionHolds, Grown, Stage, Sweep, Orders, Over, Stopping
  <2>2. SupTypeOK'
    BY <1>1, <1>5 DEF SupTypeOK, Phases, LaunchNode, Control
  <2> QED
    BY <2>1, <2>2 DEF SupInv
<1> QED
  BY <1>3, <1>4, <1>5 DEF LaunchNode

-----------------------------------------------------------------------------
(* While it runs, only the application and the nodes are told anything.    *)

\* Signals to processes nobody requires leave the session where it was.
LEMMA TellingTheRest ==
  ASSUME group \in [Procs -> Group], NEW P, P \cap Requires = {}, NEW sig \in {"int", "term"},
         Tell(P, sig), SessionHolds(session, at, split, group)
  PROVE  group' \in [Procs -> Group] /\ SessionHolds(session, at, split, group')
<1>1. Grown(split, group)
  BY DEF SessionHolds
<1>2. group' \in [Procs -> Group] /\ Lesser(split, group, group')
  BY <1>1, ToldStaySettled, ProcessPlaces DEF Lesser
<1> QED
  BY <1>2, Dwindling

LEMMA KillingTheRest ==
  ASSUME group \in [Procs -> Group], NEW P, P \cap Requires = {}, Kill(P),
         SessionHolds(session, at, split, group)
  PROVE  group' \in [Procs -> Group] /\ SessionHolds(session, at, split, group')
<1>1. Grown(split, group)
  BY DEF SessionHolds
<1>2. group' \in [Procs -> Group] /\ Lesser(split, group, group')
  BY <1>1, KilledAreSettled, ProcessPlaces DEF Lesser
<1> QED
  BY <1>2, Dwindling

LEMMA ForwardSignalKeeps ==
  ASSUME SupInv, ForwardSignal PROVE SupInv'
<1>1. /\ SupTypeOK /\ group \in [Procs -> Group] /\ SessionHolds(session, at, split, group)
      /\ session = "app" /\ ~split /\ split' = split /\ at' = at
      /\ session' \in {"app", "hangup"}
  BY DEF SupInv, SupTypeOK, Group, ForwardSignal, Control, SessionHolds, Stage
<1>2. {App} \cap Requires = {}
  BY ProcessPlaces
<1>3. PICK sig \in {"int", "term"} : Tell({App}, sig)
  BY DEF ForwardSignal
<1>4. group' \in [Procs -> Group] /\ SessionHolds(session, at, split, group')
  BY <1>1, <1>2, <1>3, TellingTheRest
<1>5. SessionHolds(session', at', split', group')
  BY <1>1, <1>4 DEF SessionHolds, Grown, Stage, Sweep, Orders, Over, Stopping
<1>6. SupTypeOK'
  BY <1>1, <1>4 DEF SupTypeOK, Group, Phases, ForwardSignal, Control, Views
<1> QED
  BY <1>5, <1>6 DEF SupInv

\* `go run` is gone: the application with it, unless SIGTERM has parted them.
LEMMA AppDone ==
  ASSUME SessionHolds(session, at, split, group), ~split, Done(App)
  PROVE  Settled(group[App])
  BY DEF SessionHolds, Grown, Done

LEMMA HangupOverKeeps ==
  ASSUME SupInv, HangupOver PROVE SupInv'
<1>1. /\ SupTypeOK /\ group \in [Procs -> Group] /\ SessionHolds(session, at, split, group)
      /\ session = "hangup" /\ ~split /\ split' = split /\ Leave("nil")
  BY DEF SupInv, SupTypeOK, Group, HangupOver, Control, SessionHolds, Stage
<1>2. {App} \cap Requires = {} /\ App \in Procs
  BY ProcessPlaces
<1>3. /\ group' \in [Procs -> Group] /\ SessionHolds(session, at, split, group')
      /\ Settled(group'[App]) /\ status' \in [Reported -> {"none", "ok", "failed"}]
  <2>1. CASE Done(App) /\ UNCHANGED <<group, status>>
    BY <1>1, <2>1, AppDone DEF SupTypeOK
  <2>2. CASE Kill({App})
    <3>1. group' \in [Procs -> Group] /\ SessionHolds(session, at, split, group')
      BY <1>1, <1>2, <2>2, KillingTheRest
    <3>2. Settled(group'[App])
      BY <1>1, <1>2, <2>2, KilledAreSettled DEF SessionHolds
    <3>3. status' \in [Reported -> {"none", "ok", "failed"}]
      BY <1>1, <2>2 DEF Kill, SupTypeOK
    <3> QED
      BY <3>1, <3>2, <3>3
  <2> QED
    BY <2>1, <2>2 DEF HangupOver
<1>4. SessionHolds(session', at', split', group')
  BY <1>1, <1>3, Leaving DEF Over, Stopping
<1>5. serving' \in BOOLEAN /\ UNCHANGED <<Control, interrupted, browser>>
  BY <1>1 DEF HangupOver, SupTypeOK
<1>6. SupTypeOK'
  BY <1>1, <1>3, <1>5, SupAssumption DEF SupTypeOK, Group, Phases, Leave, Control
<1> QED
  BY <1>4, <1>6 DEF SupInv

LEMMA AppExitedKeeps ==
  ASSUME SupInv, AppExited PROVE SupInv'
<1>1. PICK r \in {"nil", "error"} : Leave(r)
  BY DEF AppExited
<1>2. /\ SupTypeOK /\ group \in [Procs -> Group] /\ SessionHolds(session, at, split, group)
      /\ session = "app" /\ ~split /\ split' = split /\ group' = group /\ Done(App)
  BY DEF SupInv, SupTypeOK, Group, AppExited, Control, SessionHolds, Stage
<1>3. SessionHolds(session', at', split', group')
  BY <1>1, <1>2, AppDone, Leaving DEF Over, Stopping
<1>4. SupTypeOK'
  BY <1>1, <1>2, SupAssumption DEF SupTypeOK, Phases, AppExited, Leave, Control
<1> QED
  BY <1>3, <1>4 DEF SupInv

LEMMA NodesToldKeeps ==
  ASSUME SupInv, Interrupted \/ NodeExited PROVE SupInv'
<1>1. /\ SupTypeOK /\ group \in [Procs -> Group] /\ SessionHolds(session, at, split, group)
      /\ session = "nodes" /\ split /\ split' = split /\ session' = "drain" /\ at' = App
      /\ Tell(NodeProcs, "int") /\ result' \in {"nil", "error"} /\ inbox' \in {inbox, NoSignal}
      /\ UNCHANGED <<Control, status, interrupted, Views>>
  BY DEF SupInv, SupTypeOK, Group, Interrupted, NodeExited, Control, SessionHolds, Stage
<1>2. NodeProcs \cap Requires = {}
  BY ProcessPlaces
<1>3. group' \in [Procs -> Group] /\ SessionHolds(session, at, split, group')
  BY <1>1, <1>2, TellingTheRest
<1>4. SessionHolds(session', at', split', group')
  BY <1>1, <1>3 DEF SessionHolds, Grown, Stage, Sweep, Orders, Over, Stopping
<1>5. App \in 0..(Required + SplitNodes + 1)
  BY SupAssumption DEF App
<1>6. SupTypeOK'
  BY <1>1, <1>3, <1>5 DEF SupTypeOK, Group, Phases, Control, Views
<1> QED
  BY <1>4, <1>6 DEF SupInv

LEMMA DrainKeeps ==
  ASSUME SupInv, Drain PROVE SupInv'
<1>1. /\ SupTypeOK /\ group \in [Procs -> Group] /\ SessionHolds(session, at, split, group)
      /\ session = "drain" /\ split /\ split' = split
      /\ UNCHANGED <<Control, interrupted, browser, serving>>
  BY DEF SupInv, SupTypeOK, Group, Drain, Control, SessionHolds, Stage
<1>2. NodeProcs \cap Requires = {}
  BY ProcessPlaces
<1>3. CASE at \in NodeProcs /\ at' = at + 1
           /\ UNCHANGED <<session, group, status, result, inbox, watcher>>
  <2>1. at' \in 0..(Required + SplitNodes + 1)
    BY <1>3, SupAssumption DEF NodeProcs
  <2>2. SupTypeOK'
    BY <1>1, <1>3, <2>1 DEF SupTypeOK, Control
  <2>3. SessionHolds(session', at', split', group')
    BY <1>1, <1>3 DEF SessionHolds, Grown, Stage, Sweep, Orders, Over, Stopping
  <2> QED
    BY <2>2, <2>3 DEF SupInv
<1>4. ASSUME Leave(result), Kill(NodeProcs) \/ UNCHANGED <<group, status>>
      PROVE  SupInv'
  <2>1. group' \in [Procs -> Group] /\ SessionHolds(session, at, split, group')
    BY <1>1, <1>2, <1>4, KillingTheRest
  <2>2. status' \in [Reported -> {"none", "ok", "failed"}]
    BY <1>1, <1>4 DEF Kill, SupTypeOK
  <2>3. SessionHolds(session', at', split', group')
    BY <1>1, <1>4, <2>1, Leaving DEF Over, Stopping
  <2>4. SupTypeOK'
    BY <1>1, <1>4, <2>1, <2>2, SupAssumption DEF SupTypeOK, Group, Phases, Leave, Control
  <2> QED
    BY <2>3, <2>4 DEF SupInv
<1> QED
  BY <1>3, <1>4 DEF Drain

-----------------------------------------------------------------------------
(* The sweep of stop, and everybody else.                                  *)

LEMMA StopNextKeeps ==
  ASSUME SupInv, StopNext PROVE SupInv'
<1> DEFINE left == {p \in Started : p <= at}
<1>1. /\ SupTypeOK /\ group \in [Procs -> Group] /\ SessionHolds(session, at, split, group)
      /\ session = "stop" /\ split' = split /\ at \in Nat
      /\ UNCHANGED <<Control, status, inbox, interrupted, result, Views>>
  BY DEF SupInv, SupTypeOK, Group, StopNext, Control
<1>2. \A p \in Procs : p \notin Started => Settled(group[p])
  BY <1>1 DEF Started, Born, GoRun, SessionHolds, Grown, Sweep, Stopping, Settled, Living
<1>3. \A p \in Procs : p > at => Settled(group[p])
  BY <1>1 DEF SessionHolds, Sweep
<1>4. \A p \in Procs : p \in Nat
  BY ProcessPlaces
<1>5. CASE left # {} /\ at' = Max(left) /\ session' = "grace" /\ Tell({Max(left)}, "int")
  <2>1. left \subseteq Procs /\ left # {}
    BY <1>5 DEF Started
  <2>2. PICK m \in Procs : m = Max(left) /\ m \in left /\ \A x \in left : x <= m
    <3> HIDE DEF left
    <3> QED
      BY <2>1, Youngest
  <2>3. \A p \in Procs : p > m => Settled(group[p])
    <3>1. ASSUME NEW p \in Procs, p > m PROVE Settled(group[p])
      <4>1. p \notin left
        BY <1>4, <2>2, <3>1
      <4>2. p > at \/ p \notin Started
        BY <1>1, <1>4, <4>1
      <4> QED
        BY <1>2, <1>3, <4>2
    <3> QED
      BY <3>1
  <2>4. Tell({m}, "int") /\ Grown(split, group)
    BY <1>1, <1>5, <2>2 DEF SessionHolds
  <2>5. /\ group' \in [Procs -> Group] /\ Grown(split, group')
        /\ \A p \in Procs :
             /\ group'[p].leader = group[p].leader
             /\ p # m => group'[p] = group[p]
             /\ p = m /\ group[p].leader # "unborn" => group'[p].told # "nothing"
    <3>1. \A p \in Procs : (p # m <=> p \notin {m})
      OBVIOUS
    <3>2. "int" \in {"int", "term"}
      OBVIOUS
    <3> QED
      BY <1>1, <2>4, <3>1, <3>2, ToldStaySettled
  <2>6. \A p \in Procs : Settled(group[p]) => Settled(group'[p])
    <3>1. "int" \in {"int", "term"}
      OBVIOUS
    <3> QED
      BY <1>1, <2>4, <3>1, ToldStaySettled
  <2>7. Grown(split', group') /\ Stage(session', at', split', group')
    BY <1>1, <1>5, <2>5, ProcessPlaces DEF SessionHolds, Stage
  <2>8. Sweep(session', at', split', group')
    BY <1>1, <1>5, <2>2, <2>3, <2>5, <2>6, ProcessPlaces
       DEF SessionHolds, Sweep, Stopping, Started, Born, GoRun
  <2>9. Orders(session', group')
    <3>1. ASSUME NEW p \in Requires, group'[p].told \in {"int", "kill"}, NEW q \in Procs, q > p
          PROVE  Settled(group'[q])
      <4>1. CASE p = m
        BY <2>3, <2>6, <3>1, <4>1
      <4>2. CASE p # m
        BY <1>1, <2>5, <2>6, <3>1, <4>2, ProcessPlaces DEF SessionHolds, Orders
      <4> QED
        BY <4>1, <4>2
    <3> QED
      BY <1>5, <3>1 DEF Orders, Over, Stopping
  <2>10. m \in 0..(Required + SplitNodes + 1)
    BY ProcessPlaces
  <2>11. SupTypeOK'
    BY <1>1, <1>5, <2>2, <2>5, <2>10 DEF SupTypeOK, Group, Phases, Control, Views
  <2> QED
    BY <2>7, <2>8, <2>9, <2>11 DEF SupInv, SessionHolds
<1>6. CASE left = {} /\ session' = "exited" /\ UNCHANGED <<at, group>>
  <2>1. \A p \in Procs : p > at \/ p \notin Started
    BY <1>1, <1>4, <1>6
  <2>2. \A p \in Procs : Settled(group[p])
    BY <1>2, <1>3, <2>1
  <2>3. SessionHolds(session', at', split', group')
    BY <1>1, <1>6, <2>2, ProcessPlaces DEF SessionHolds, Grown, Stage, Sweep, Orders, Over, Stopping
  <2>4. SupTypeOK'
    BY <1>1, <1>6 DEF SupTypeOK, Phases, Control, Views
  <2> QED
    BY <2>3, <2>4 DEF SupInv
<1> QED
  BY <1>5, <1>6 DEF StopNext

LEMMA GraceKeeps ==
  ASSUME SupInv, Grace PROVE SupInv'
<1>1. /\ SupTypeOK /\ group \in [Procs -> Group] /\ SessionHolds(session, at, split, group)
      /\ session = "grace" /\ split' = split /\ at \in Nat
      /\ UNCHANGED <<Control, inbox, interrupted, result, Views>>
  BY DEF SupInv, SupTypeOK, Group, Grace, Control
<1>2. /\ at \in Procs /\ group[at].leader # "unborn" /\ (split \/ at # App)
      /\ group[at].told # "nothing" /\ Grown(split, group)
      /\ \A p \in Procs : p > at => Settled(group[p])
  BY <1>1 DEF SessionHolds, Sweep
<1>3. CASE Done(at) /\ session' = "stop" /\ at' = at - 1 /\ UNCHANGED <<group, status>>
  <2>1. Settled(group[at])
    <3>1. group[at].told \in Told /\ group[at].child \in Children
      BY <1>1, <1>2 DEF Group
    <3>2. group[at].told = "kill" => ~Living(group[at])
      BY <1>2 DEF Grown
    <3> QED
      BY <1>2, <1>3, <3>1, <3>2 DEF Done, Settled, Living, Told, Children
  <2>2. at' \in 0..(Required + SplitNodes + 1)
        /\ \A p \in Procs : p > at' => p > at \/ p = at
    BY <1>2, <1>3, ProcessPlaces, SupAssumption
  <2>3. \A p \in Procs : p > at' => Settled(group[p])
    BY <1>2, <2>1, <2>2
  <2>4. SessionHolds(session', at', split', group')
    BY <1>1, <1>3, <2>3 DEF SessionHolds, Grown, Stage, Sweep, Orders, Over, Stopping
  <2>5. SupTypeOK'
    BY <1>1, <1>3, <2>2 DEF SupTypeOK, Phases, Control, Views
  <2> QED
    BY <2>4, <2>5 DEF SupInv
<1>4. CASE Kill({at}) /\ UNCHANGED <<session, at>>
  <2>1. /\ group' \in [Procs -> Group] /\ Grown(split, group')
        /\ \A p \in Procs :
             /\ group'[p].leader = "unborn" <=> group[p].leader = "unborn"
             /\ group[p].told # "nothing" => group'[p].told # "nothing"
             /\ p \notin {at} => group'[p] = group[p]
    BY <1>1, <1>2, <1>4, KilledAreSettled
  <2>2. \A p \in Procs : Settled(group[p]) => Settled(group'[p])
    BY <1>1, <1>2, <1>4, KilledAreSettled
  <2>5. Stage(session', at', split', group') /\ Sweep(session', at', split', group')
    BY <1>1, <1>2, <1>4, <2>1, <2>2, ProcessPlaces DEF SessionHolds, Stage, Sweep, Stopping
  <2>6. Orders(session', group')
    <3>1. ASSUME NEW p \in Requires, group'[p].told \in {"int", "kill"}, NEW q \in Procs, q > p
          PROVE  Settled(group'[q])
      <4>1. CASE p = at
        BY <1>2, <2>2, <3>1, <4>1
      <4>2. CASE p # at
        <5>1. group'[p] = group[p]
          BY <2>1, <4>2, ProcessPlaces
        <5> QED
          BY <1>1, <2>2, <3>1, <5>1 DEF SessionHolds, Orders
      <4> QED
        BY <4>1, <4>2
    <3> QED
      BY <1>1, <1>4, <3>1 DEF Orders, Over, Stopping
  <2>7. SupTypeOK'
    BY <1>1, <1>4, <2>1 DEF SupTypeOK, Group, Control, Views, Kill
  <2> QED
    BY <1>1, <2>1, <2>5, <2>6, <2>7 DEF SupInv, SessionHolds
<1> QED
  BY <1>3, <1>4 DEF Grace

LEMMA SignalKeeps ==
  ASSUME SupInv, NEW sig \in Signals, Signal(sig) PROVE SupInv'
<1>1. /\ SupTypeOK /\ group \in [Procs -> Group] /\ SessionHolds(session, at, split, group)
      /\ Running /\ split' = split /\ at' = at /\ signals < MaxSignals /\ signals' = signals + 1
      /\ UNCHANGED <<at, split, ready, foreign, status, interrupted, result, browser, serving>>
  BY DEF SupInv, SupTypeOK, Group, Signal
<1>2. signals' \in 0..MaxSignals
  BY <1>1, SupAssumption DEF SupTypeOK
<1>3. ASSUME inbox' = (IF inbox = NoSignal THEN sig ELSE inbox), UNCHANGED <<session, group, watcher>>
      PROVE  SupInv'
  <2>1. SupTypeOK'
    BY <1>1, <1>2, <1>3 DEF SupTypeOK
  <2>2. SessionHolds(session', at', split', group')
    BY <1>1, <1>3
  <2> QED
    BY <2>1, <2>2 DEF SupInv
<1>4. ASSUME ~Handling, session' = "killed", Tell({p \in Started : LeaderUp(p)}, "term"),
             watcher' = "over", UNCHANGED inbox
      PROVE  SupInv'
  <2>1. Grown(split, group) /\ "term" \in {"int", "term"}
    BY <1>1 DEF SessionHolds
  <2>2. group' \in [Procs -> Group] /\ Grown(split, group')
        /\ \A p \in Procs :
             /\ Settled(group[p]) => Settled(group'[p])
             /\ group[p].told # "nothing" => group'[p].told # "nothing"
             /\ group'[p].leader = group[p].leader
             /\ group'[p].told \in {group[p].told, "term"}
    BY <1>1, <1>4, <2>1, ToldStaySettled
  <2>3. Lesser(split, group, group')
    BY <2>2, ProcessPlaces DEF Lesser
  <2>4. SessionHolds(session, at, split, group')
    BY <1>1, <2>2, <2>3, Dwindling
  <2>5. SessionHolds(session', at', split', group')
    BY <1>1, <1>4, <2>4 DEF SessionHolds, Grown, Stage, Sweep, Orders, Over, Stopping
  <2>6. SupTypeOK'
    BY <1>1, <1>2, <1>4, <2>2 DEF SupTypeOK, Group, Phases
  <2> QED
    BY <2>5, <2>6 DEF SupInv
<1> QED
  BY <1>3, <1>4 DEF Signal

\* Processes spawn, exit and lose their children; none that is settled spawns.
LEMMA ProcessKeeps ==
  ASSUME SupInv, NEW p \in Procs, Spawn(p) \/ Redirect(p) \/ LeaderExits(p) \/ ChildExits(p)
  PROVE  SupInv'
<1>1. /\ SupTypeOK /\ group \in [Procs -> Group] /\ SessionHolds(session, at, split, group)
      /\ UNCHANGED <<Control, session, at, inbox, interrupted, result, watcher, browser>>
  BY DEF SupInv, SupTypeOK, Group, Spawn, Redirect, LeaderExits, ChildExits, Views
<1> DEFINE r == group[p]
           r2 == group'[p]
<1>2. /\ group[p] \in Group /\ Grown(split, group)
      /\ group[p].leader = "unborn" => group[p].child = "none"
      /\ group[p].told = "kill" => ~Living(group[p])
      /\ GoRun(p) => group[p].child # "piped" /\ (group[p].leader = "gone" => Settled(group[p]))
  BY <1>1 DEF SessionHolds, Grown, GoRun
<1>3. /\ group' \in [Procs -> Group]
      /\ \A q \in Procs : q # p => group'[q] = group[q]
      /\ r2.told = r.told /\ (r2.leader = "unborn" <=> r.leader = "unborn")
      /\ r2.leader = "unborn" => r2.child = "none"
      /\ Living(r2) => Living(r)
      /\ Settled(r) => Settled(r2)
      /\ GoRun(p) => r2.child # "piped" /\ (r2.leader = "gone" => Settled(r2))
  <2>1. CASE Spawn(p)
    <3>1. PICK c \in Children :
            /\ group' = [group EXCEPT ![p] = [group[p] EXCEPT !.child = c]]
            /\ group[p].leader = "up" /\ (GoRun(p) => c # "piped")
      BY <2>1 DEF Spawn, LeaderUp, Children
    <3>2. [group[p] EXCEPT !.child = c] \in Group
      BY <1>2 DEF Group
    <3> QED
      BY <1>1, <1>2, <3>1, <3>2 DEF Group, Living, Settled
  <2>2. CASE Redirect(p)
    <3>1. /\ group' = [group EXCEPT ![p] = [group[p] EXCEPT !.child = "loose"]]
          /\ group[p].child = "piped"
      BY <2>2 DEF Redirect
    <3>2. [group[p] EXCEPT !.child = "loose"] \in Group
      BY <1>2 DEF Group, Children
    <3> QED
      BY <1>1, <1>2, <3>1, <3>2 DEF Group, Living, Settled
  <2>3. CASE LeaderExits(p)
    <3>1. /\ group' = [group EXCEPT ![p] = [group[p] EXCEPT !.leader = "gone"]]
          /\ group[p].leader = "up"
          /\ GoRun(p) /\ group[p].child # "none" => group[p].told = "term"
      BY <2>3 DEF LeaderExits, LeaderUp, ChildUp
    <3>2. [group[p] EXCEPT !.leader = "gone"] \in Group
      BY <1>2 DEF Group
    <3> QED
      BY <1>1, <1>2, <3>1, <3>2 DEF Group, Children, Living, Settled
  <2>4. CASE ChildExits(p)
    <3>1. group' = [group EXCEPT ![p] = [group[p] EXCEPT !.child = "none"]]
          /\ group[p].child # "none"
      BY <2>4 DEF ChildExits, ChildUp
    <3>2. [group[p] EXCEPT !.child = "none"] \in Group
      BY <1>2 DEF Group, Children
    <3> QED
      BY <1>1, <1>2, <3>1, <3>2 DEF Group, Living, Settled
  <2> QED
    BY <2>1, <2>2, <2>3, <2>4
<1>4. Grown(split, group')
  BY <1>2, <1>3, ProcessPlaces DEF Grown, GoRun
<1>5. Lesser(split, group, group')
  BY <1>3, <1>4, ProcessPlaces DEF Lesser
<1>6. SessionHolds(session', at', split', group')
  BY <1>1, <1>3, <1>5, Dwindling DEF Control
<1>7. serving' \in BOOLEAN /\ status' \in [Reported -> {"none", "ok", "failed"}]
  BY <1>1 DEF Spawn, Redirect, LeaderExits, ChildExits, Views, SupTypeOK
<1>8. SupTypeOK'
  BY <1>1, <1>3, <1>7 DEF SupTypeOK, Group, Control
<1> QED
  BY <1>6, <1>8 DEF SupInv

LEMMA ViewsKeep ==
  ASSUME SupInv, OpenWhenUp \/ BindDashboard \/ UNCHANGED supVars PROVE SupInv'
<1>1. /\ UNCHANGED <<Control, session, at, group, status, inbox, interrupted, result>>
      /\ watcher' \in {watcher, "over"} /\ browser' \in {browser, TRUE}
      /\ serving' \in {serving, TRUE}
  BY DEF OpenWhenUp, BindDashboard, supVars, Control
<1>2. SupTypeOK /\ SessionHolds(session, at, split, group)
  BY DEF SupInv
<1>3. SessionHolds(session', at', split', group')
  BY <1>1, <1>2 DEF Control
<1>4. SupTypeOK'
  BY <1>1, <1>2 DEF SupTypeOK, Control
<1> QED
  BY <1>3, <1>4 DEF SupInv

LEMMA SessionSteps ==
  ASSUME SupInv, [SupNext]_supVars PROVE SupInv'
<1>1. CASE SessionStep
  BY <1>1, StartRequiredKeeps, AwaitKeeps, BetweenKeeps, LaunchAppKeeps, LaunchNodeKeeps,
     ForwardSignalKeeps, HangupOverKeeps, AppExitedKeeps, NodesToldKeeps, DrainKeeps,
     StopNextKeeps, GraceKeeps
     DEF SessionStep
<1>2. CASE \E sig \in Signals : Signal(sig)
  BY <1>2, SignalKeeps
<1>3. CASE \E p \in Procs : Spawn(p) \/ Redirect(p) \/ LeaderExits(p) \/ ChildExits(p)
  BY <1>3, ProcessKeeps
<1>4. CASE OpenWhenUp \/ BindDashboard \/ UNCHANGED supVars
  BY <1>4, ViewsKeep
<1> QED
  BY <1>1, <1>2, <1>3, <1>4 DEF SupNext

LEMMA SessionInvIsEnough == SupInv => StoppedInOrder
  BY ProcessPlaces
     DEF SupInv, SessionHolds, Sweep, Orders, StoppedInOrder, TeardownComplete, DependentsFirst,
         LeftBehind, Alive, LeaderUp, ChildUp, Living, Settled

\* Run returns only when every process it forked has been asked to end and has,
\* with whatever held its output; nothing is left of a group it killed; and a
\* required process is stopped only after all that was started later.  What may
\* stay is a child that holds no pipe, of a leader that ended when asked: the
\* application itself, when SIGTERM ends `go run` first.  For any number of
\* processes, whatever obeys, wherever a signal arrives.
THEOREM Teardown == SupSpec => []StoppedInOrder
<1>1. SupInit => SupInv
  BY SessionStarts
<1>2. SupInv /\ [SupNext]_supVars => SupInv'
  BY SessionSteps
<1> QED
  BY <1>1, <1>2, SessionInvIsEnough, PTL DEF SupSpec

-----------------------------------------------------------------------------
(***************************************************************************)
(* The lifecycle client (LifecycleClient).                                 *)
(***************************************************************************)

HookRow == [t : Transitions \cup {"none"}, from : Primary \cup {"none"},
            goal : Primary \cup {"none"}, ours : BOOLEAN]
RemoteState == [state : Primary, row : HookRow]
CallState == [pc : {"sent", "running", "answered"}, node : Remotes,
              t : Transitions \cup {"get"},
              answer : StateNames \cup {"none", "refused", "done", "timeout"}]
ProgState == [method : Methods, pass : {1, 2}, at : 0..(Len(Declared) + 1),
              errs : BOOLEAN, waiting : BOOLEAN]

Shaped(r, w, c, p) ==
  /\ r \in [Remotes -> RemoteState] /\ w \in [Remotes -> SUBSET StateNames]
  /\ c = NoCall \/ c \in CallState
  /\ p = Resting \/ p \in ProgState

\* The state a node would show now.
Shown(x) == IF x.row.t = "none" THEN x.state ELSE "Changing"

\* The history is kept while a method runs.
Kept(r, w, p) == p # Resting => \A n \in Remotes : Shown(r[n]) \in w[n]

\* A hook runs a transition of the table; the one the program waits for is that
\* of its call.
HookedAt(row, n, c) ==
  /\ row.t # "none" =>
       \E d \in transitionTable : d.t = row.t /\ d.from = row.from /\ d.goal = row.goal
  /\ row.ours => row.t # "none" /\ c.pc = "running" /\ c.node = n /\ c.t = row.t
Hooked(r, c) == \A n \in Remotes : HookedAt(r[n].row, n, c)

\* The call is about the node the method is at.
Aimed(c, p) ==
  /\ p = Resting => c = NoCall
  /\ c # NoCall =>
       /\ p.at \in 1..Len(Declared) /\ c.node = Declared[p.at]
       /\ p.method = "BringUp" => c.t \in {"get", Wanted(p.pass)}
       /\ p.method = "AwaitActive" => c.t = "get"
       /\ c.pc = "running" => c.t # "get"

\* An answer tells a state the node was in since the method began.
Answer(c, w) ==
  c.pc = "answered" /\ c.answer \notin {"timeout", "refused"} =>
    IF c.t = "get" THEN c.answer \in w[c.node]
    ELSE c.answer = "done" /\ \E d \in transitionTable : d.t = c.t /\ d.goal \in w[c.node]

Been(w, n, S) == w[n] \cap S # {}
Awake == {"Inactive", "Active"}

\* What the nodes a method has gone past were.
Passed(p, w) ==
  /\ p.method = "BringUp" /\ p.pass = 1 =>
       \A i \in 1..Len(Declared) : i < p.at => Been(w, Declared[i], Awake)
  /\ p.method = "BringUp" /\ p.pass = 2 =>
       /\ \A n \in Remotes : Been(w, n, Awake)
       /\ \A i \in 1..Len(Declared) : i < p.at => "Active" \in w[Declared[i]]
  /\ p.method = "AwaitActive" /\ ~p.waiting =>
       \A i \in 1..Len(Declared) : i < p.at => "Active" \in w[Declared[i]]
  /\ p.method \in {"BringUp", "AwaitActive"} => p.at # 0

Claimed(t, w) ==
  t.method \in {"BringUp", "AwaitActive"} /\ t.result = "ok"
    => \A n \in Remotes : "Active" \in w[n]

ClientInv ==
  /\ Shaped(remote, was, call, prog)
  /\ Kept(remote, was, prog)
  /\ Hooked(remote, call)
  /\ Aimed(call, prog)
  /\ Answer(call, was)
  /\ Passed(prog, was)
  /\ Claimed(told, was)
  /\ \A o \in orphans : o.node \in Remotes

-----------------------------------------------------------------------------
LEMMA TableRows ==
  /\ \A d \in transitionTable :
       /\ d.from \in Primary /\ d.goal \in Primary /\ d.t \in Transitions
       /\ d.t # "none" /\ d.t # "get"
       /\ d.t = "configure" => d.goal = "Inactive"
       /\ d.t = "activate" => d.goal = "Active"
  /\ "Changing" \notin Primary /\ Primary \subseteq StateNames /\ "Changing" \in StateNames
  /\ \A t \in Transitions : t # "none" /\ t # "get"
  BY DEF transitionTable, Primary, Transitions, StateNames

LEMMA RemotePlaces ==
  /\ Len(Declared) \in Nat
  /\ \A i \in 1..Len(Declared) : Declared[i] \in Remotes
  /\ \A n \in Remotes : \E i \in 1..Len(Declared) : n = Declared[i]
<1>1. Len(Declared) \in Nat /\ DOMAIN Declared = 1..Len(Declared)
  BY ClientAssumption, LenProperties
<1> QED
  BY <1>1 DEF Remotes, ToSet

LEMMA NotResting == NoCall \notin CallState /\ Resting \notin ProgState /\ NoCall.pc = "none"
  BY DEF NoCall, CallState, Resting, ProgState, Methods, EachMethods

\* More history supports no less.
LEMMA Grows ==
  ASSUME NEW w, NEW w2, \A n \in Remotes : w[n] \subseteq w2[n]
  PROVE  /\ \A p : Passed(p, w) => Passed(p, w2)
         /\ \A t : Claimed(t, w) => Claimed(t, w2)
         /\ \A c : c.node \in Remotes /\ Answer(c, w) => Answer(c, w2)
<1>1. \A S : \A n \in Remotes : Been(w, n, S) => Been(w2, n, S)
  BY DEF Been
<1>2. \A i \in 1..Len(Declared) : Declared[i] \in Remotes
  BY RemotePlaces
<1>3. ASSUME NEW p, Passed(p, w) PROVE Passed(p, w2)
  BY <1>1, <1>2, <1>3 DEF Passed
<1>4. ASSUME NEW t, Claimed(t, w) PROVE Claimed(t, w2)
  BY <1>4 DEF Claimed
<1>5. ASSUME NEW c, c.node \in Remotes, Answer(c, w) PROVE Answer(c, w2)
  BY <1>5 DEF Answer
<1> QED
  BY <1>3, <1>4, <1>5

LEMMA NodeMoves ==
  ASSUME remote \in [Remotes -> RemoteState], was \in [Remotes -> SUBSET StateNames],
         NEW n \in Remotes, NEW x \in RemoteState, SetRemote(n, x)
  PROVE  /\ remote' \in [Remotes -> RemoteState] /\ was' \in [Remotes -> SUBSET StateNames]
         /\ remote'[n] = x /\ Shown(x) \in was'[n]
         /\ \A m \in Remotes : m # n => remote'[m] = remote[m]
         /\ \A m \in Remotes : was[m] \subseteq was'[m]
<1>1. Shown(x) \in StateNames
  BY TableRows DEF Shown, RemoteState
<1>2. was' = [was EXCEPT ![n] = was[n] \cup {Shown(x)}] /\ remote' = [remote EXCEPT ![n] = x]
  BY DEF SetRemote, Shown
<1> QED
  BY <1>1, <1>2

\* A hook is only begun at a node that runs none.
LEMMA HookBegins ==
  ASSUME ClientInv, NEW n \in Remotes, NEW row \in transitionTable, row.from = StateOf(n),
         NEW ours \in BOOLEAN, StartHook(n, row, ours)
  PROVE  /\ remote' \in [Remotes -> RemoteState] /\ was' \in [Remotes -> SUBSET StateNames]
         /\ Kept(remote', was', prog)
         /\ \A m \in Remotes : was[m] \subseteq was'[m]
         /\ \A m \in Remotes : m # n => remote'[m] = remote[m]
         /\ remote'[n].row = [t |-> row.t, from |-> row.from, goal |-> row.goal, ours |-> ours]
         /\ remote[n].row.t = "none"
<1> DEFINE hook == [t |-> row.t, from |-> row.from, goal |-> row.goal, ours |-> ours]
           x == [remote[n] EXCEPT !.row = hook]
<1>1. remote \in [Remotes -> RemoteState] /\ was \in [Remotes -> SUBSET StateNames]
  BY DEF ClientInv, Shaped
<1>2. hook \in HookRow /\ hook.t = row.t /\ row.t # "none"
  BY TableRows DEF HookRow
<1>3. x \in RemoteState /\ x.row = hook
  BY <1>1, <1>2 DEF RemoteState
<1>4. SetRemote(n, x)
  BY DEF StartHook
<1> HIDE DEF x, hook
<1>5. /\ remote' \in [Remotes -> RemoteState] /\ was' \in [Remotes -> SUBSET StateNames]
      /\ remote'[n] = x /\ Shown(x) \in was'[n]
      /\ \A m \in Remotes : m # n => remote'[m] = remote[m]
      /\ \A m \in Remotes : was[m] \subseteq was'[m]
  BY <1>1, <1>3, <1>4, NodeMoves
<1>6. Kept(remote', was', prog)
  BY <1>5, Zenon DEF ClientInv, Kept
<1>7. remote[n].row.t = "none"
  BY TableRows DEF StateOf
<1> QED
  BY <1>3, <1>5, <1>6, <1>7 DEF hook

LEMMA ClientStarts == ClientInit => ClientInv
<1> SUFFICES ASSUME ClientInit PROVE ClientInv
  OBVIOUS
<1>1. AtRest \in HookRow /\ AtRest.t = "none" /\ ~AtRest.ours
  BY DEF AtRest, HookRow
<1>2. Shaped(remote, was, call, prog)
  BY <1>1 DEF ClientInit, Shaped, RemoteState, Primary
<1>3. Hooked(remote, call)
  BY <1>1 DEF ClientInit, Hooked, HookedAt
<1>4. Kept(remote, was, prog) /\ Aimed(call, prog) /\ Answer(call, was) /\ Passed(prog, was)
      /\ Claimed(told, was) /\ \A o \in orphans : o.node \in Remotes
  BY DEF ClientInit, Kept, Aimed, Answer, Passed, Claimed, Resting, NoCall, Nothing
<1> QED
  BY <1>2, <1>3, <1>4 DEF ClientInv

-----------------------------------------------------------------------------
(* The servers.                                                            *)

LEMMA CallCases == ClientInv => call = NoCall \/ (call \in CallState /\ call.node \in Remotes)
  BY DEF ClientInv, Shaped, CallState

\* What was true of the history stays true as it grows.
LEMMA HistoryGrows ==
  ASSUME ClientInv, \A n \in Remotes : was[n] \subseteq was'[n]
  PROVE  Passed(prog, was') /\ Claimed(told, was') /\ Answer(call, was')
<1>1. Passed(prog, was) /\ Claimed(told, was) /\ Answer(call, was)
  BY DEF ClientInv
<1>2. PICK w, w2 : w = was /\ w2 = was'
  OBVIOUS
<1>3. Passed(prog, w2) /\ Claimed(told, w2)
  BY <1>1, <1>2, Grows
<1>4. CASE call = NoCall
  BY <1>2, <1>3, <1>4, NotResting DEF Answer
<1>5. CASE call \in CallState /\ call.node \in Remotes
  BY <1>1, <1>2, <1>3, <1>5, Grows
<1> QED
  BY <1>4, <1>5, CallCases

LEMMA OthersBegin ==
  ASSUME ClientInv, NEW n \in Remotes, NEW row \in transitionTable, row.from = StateOf(n),
         StartHook(n, row, FALSE), UNCHANGED <<call, prog, told>>, orphans' \subseteq orphans
  PROVE  ClientInv'
<1>1. /\ remote' \in [Remotes -> RemoteState] /\ was' \in [Remotes -> SUBSET StateNames]
      /\ Kept(remote', was', prog)
      /\ \A m \in Remotes : was[m] \subseteq was'[m]
      /\ \A m \in Remotes : m # n => remote'[m] = remote[m]
      /\ remote'[n].row = [t |-> row.t, from |-> row.from, goal |-> row.goal, ours |-> FALSE]
  BY HookBegins
<1>2. Shaped(remote', was', call', prog') /\ Kept(remote', was', prog')
  BY <1>1 DEF ClientInv, Shaped
<1>3. Hooked(remote', call')
  <2>1. HookedAt(remote'[n].row, n, call)
    BY <1>1 DEF HookedAt
  <2>2. \A m \in Remotes : HookedAt(remote'[m].row, m, call)
    BY <1>1, <2>1, Zenon DEF ClientInv, Hooked
  <2> QED
    BY <2>2, Zenon DEF Hooked
<1>4. Passed(prog', was') /\ Claimed(told', was') /\ Answer(call', was')
  BY <1>1, HistoryGrows
<1>5. Aimed(call', prog') /\ \A o \in orphans' : o.node \in Remotes
  BY DEF ClientInv
<1> QED
  BY <1>2, <1>3, <1>4, <1>5 DEF ClientInv

LEMMA OthersKeep ==
  ASSUME ClientInv, ServeOrphan \/ SomebodyElse PROVE ClientInv'
<1>1. UNCHANGED <<call, prog, told>> /\ orphans' \subseteq orphans
  BY DEF ServeOrphan, SomebodyElse
<1>2. CASE UNCHANGED <<remote, was>>
  BY <1>1, <1>2 DEF ClientInv
<1>3. CASE \E n \in Remotes, row \in transitionTable :
             row.from = StateOf(n) /\ StartHook(n, row, FALSE)
  BY <1>1, <1>3, OthersBegin
<1>4. CASE SomebodyElse
  BY <1>3, <1>4 DEF SomebodyElse
<1>5. CASE ServeOrphan
  <2>1. PICK o \in orphans :
          \/ UNCHANGED <<remote, was>>
          \/ \E row \in Rows(StateOf(o.node), o.t) : StartHook(o.node, row, FALSE)
    BY <1>5 DEF ServeOrphan
  <2>2. o.node \in Remotes
    BY DEF ClientInv
  <2> QED
    BY <1>2, <1>3, <2>1, <2>2 DEF Rows
<1> QED
  BY <1>4, <1>5

LEMMA ServeKeeps ==
  ASSUME ClientInv, Serve PROVE ClientInv'
<1> DEFINE n == call.node
<1>1. /\ call \in CallState /\ call.pc = "sent" /\ n \in Remotes
      /\ UNCHANGED <<prog, orphans, seen, told, bounds>>
      /\ remote \in [Remotes -> RemoteState] /\ was \in [Remotes -> SUBSET StateNames]
  BY CallCases, NotResting DEF Serve, ClientInv, Shaped
<1>2. \A m \in Remotes : ~remote[m].row.ours
  <2>1. call.pc # "running"
    BY <1>1
  <2> QED
    BY <2>1, Zenon DEF ClientInv, Hooked, HookedAt
<1>3. ASSUME UNCHANGED <<remote, was>>, NEW a \in StateNames \cup {"refused"},
             call' = [call EXCEPT !.pc = "answered", !.answer = a],
             a = "refused" \/ (call.t = "get" /\ a = StateOf(n))
      PROVE  ClientInv'
  <2>1. /\ call' \in CallState /\ call'.pc = "answered" /\ call'.answer = a
        /\ call'.node = call.node /\ call'.t = call.t
    BY <1>1, <1>3 DEF CallState
  <2>2. call # NoCall /\ call' # NoCall /\ prog # Resting
    BY <1>1, <2>1, NotResting DEF ClientInv, Aimed
  <2>3. Aimed(call', prog')
    BY <1>1, <2>1, <2>2 DEF ClientInv, Aimed
  <2>4. StateOf(n) \in was[n]
    BY <1>1, <2>2 DEF ClientInv, Kept, Shown, StateOf
  <2>5. Answer(call', was')
    BY <1>3, <2>1, <2>4 DEF Answer
  <2>6. Hooked(remote', call')
    BY <1>2, <1>3 DEF ClientInv, Hooked, HookedAt
  <2> QED
    BY <1>1, <1>3, <2>1, <2>3, <2>5, <2>6 DEF ClientInv, Shaped
<1>4. ASSUME NEW row \in Rows(StateOf(n), call.t), StartHook(n, row, TRUE),
             call' = [call EXCEPT !.pc = "running"]
      PROVE  ClientInv'
  <2>1. row \in transitionTable /\ row.from = StateOf(n) /\ row.t = call.t /\ row.t # "get"
        /\ row.t # "none"
    BY <1>4, TableRows DEF Rows
  <2>2. /\ remote' \in [Remotes -> RemoteState] /\ was' \in [Remotes -> SUBSET StateNames]
        /\ Kept(remote', was', prog)
        /\ \A m \in Remotes : was[m] \subseteq was'[m]
        /\ \A m \in Remotes : m # n => remote'[m] = remote[m]
        /\ remote'[n].row = [t |-> row.t, from |-> row.from, goal |-> row.goal, ours |-> TRUE]
    <3>1. row \in transitionTable /\ row.from = StateOf(n) /\ StartHook(n, row, TRUE)
          /\ TRUE \in BOOLEAN /\ n \in Remotes
      BY <1>1, <1>4, <2>1
    <3> HIDE DEF n
    <3> QED
      BY <3>1, HookBegins
  <2>3. /\ call' \in CallState /\ call'.pc = "running" /\ call'.node = n /\ call'.t = call.t
    BY <1>1, <1>4 DEF CallState
  <2>4. Aimed(call', prog')
    BY <1>1, <2>1, <2>3, NotResting DEF ClientInv, Aimed
  <2>5. Answer(call', was')
    BY <2>3 DEF Answer
  <2>6. Hooked(remote', call')
    <3>1. HookedAt(remote'[n].row, n, call')
      BY <2>1, <2>2, <2>3 DEF HookedAt
    <3>2. \A m \in Remotes : HookedAt(remote[m].row, m, call')
      BY <1>2 DEF ClientInv, Hooked, HookedAt
    <3>3. \A m \in Remotes : HookedAt(remote'[m].row, m, call')
      BY <2>2, <3>1, <3>2, Zenon
    <3> QED
      BY <3>3 DEF Hooked
  <2>7. Passed(prog', was') /\ Claimed(told', was')
    BY <1>1, <2>2, HistoryGrows
  <2> QED
    BY <1>1, <2>2, <2>3, <2>4, <2>5, <2>6, <2>7 DEF ClientInv, Shaped
<1>5. StateOf(n) \in StateNames
  BY <1>1, TableRows DEF StateOf, RemoteState
<1> QED
  BY <1>3, <1>4, <1>5 DEF Serve

LEMMA HookReturnsKeeps ==
  ASSUME ClientInv, NEW n \in Remotes, HookReturns(n) PROVE ClientInv'
<1> DEFINE row == remote[n].row
<1>1. /\ remote \in [Remotes -> RemoteState] /\ was \in [Remotes -> SUBSET StateNames]
      /\ row.t # "none" /\ HookedAt(row, n, call)
      /\ UNCHANGED <<prog, orphans, seen, told>>
  BY DEF ClientInv, Shaped, Hooked, HookReturns
<1>2. PICK d \in transitionTable : d.t = row.t /\ d.from = row.from /\ d.goal = row.goal
  BY <1>1 DEF HookedAt
<1>3. PICK ok \in BOOLEAN :
        /\ SetRemote(n, [state |-> IF ok THEN row.goal ELSE row.from, row |-> AtRest])
        /\ call' = IF row.ours
                   THEN [call EXCEPT !.pc = "answered",
                                     !.answer = IF ok THEN "done" ELSE "refused"]
                   ELSE call
  BY DEF HookReturns
<1> DEFINE x == [state |-> IF ok THEN d.goal ELSE d.from, row |-> AtRest]
<1>4. x \in RemoteState /\ x.row = AtRest /\ (ok => x.state = d.goal) /\ AtRest.t = "none"
      /\ ~AtRest.ours /\ Shown(x) = x.state
  BY TableRows DEF RemoteState, AtRest, HookRow, Shown
<1>5. SetRemote(n, x)
  BY <1>2, <1>3
<1> HIDE DEF x
<1>6. /\ remote' \in [Remotes -> RemoteState] /\ was' \in [Remotes -> SUBSET StateNames]
      /\ remote'[n] = x /\ x.state \in was'[n]
      /\ \A m \in Remotes : m # n => remote'[m] = remote[m]
      /\ \A m \in Remotes : was[m] \subseteq was'[m]
  BY <1>1, <1>4, <1>5, NodeMoves
<1>7. Passed(prog', was') /\ Claimed(told', was') /\ Answer(call, was')
  BY <1>1, <1>6, HistoryGrows
<1>8. Kept(remote', was', prog')
  BY <1>1, <1>4, <1>6, Zenon DEF ClientInv, Kept
<1>9. HookedAt(remote'[n].row, n, call')
  BY <1>4, <1>6 DEF HookedAt
<1>10. CASE row.ours
  <2>1. call.pc = "running" /\ call.node = n /\ call.t = row.t
    BY <1>1, <1>10 DEF HookedAt
  <2>2. call \in CallState /\ call # NoCall
    BY <2>1, CallCases, NotResting
  <2>3. PICK a \in {"done", "refused"} :
          call' = [call EXCEPT !.pc = "answered", !.answer = a] /\ (a = "done" => ok)
    BY <1>3, <1>10
  <2>4. /\ call' \in CallState /\ call'.pc = "answered" /\ call'.answer = a
        /\ call'.node = call.node /\ call'.t = call.t
    BY <2>2, <2>3 DEF CallState
  <2>5. Shaped(remote', was', call', prog')
    BY <1>1, <1>6, <2>4 DEF ClientInv, Shaped
  <2>6. call.t # "get"
    BY <2>1, <2>2 DEF ClientInv, Aimed
  <2>7. Answer(call', was')
    BY <1>2, <1>4, <1>6, <2>1, <2>3, <2>4, <2>6 DEF Answer
  <2>8. Aimed(call', prog')
    BY <1>1, <2>2, <2>4, NotResting DEF ClientInv, Aimed
  <2>9. \A m \in Remotes : m # n => ~remote[m].row.ours
    BY <2>1, Zenon DEF ClientInv, Hooked, HookedAt
  <2>10. \A m \in Remotes : m # n => HookedAt(remote[m].row, m, call')
    BY <2>9 DEF ClientInv, Hooked, HookedAt
  <2>11. Hooked(remote', call')
    BY <1>6, <1>9, <2>10, Zenon DEF Hooked
  <2> QED
    BY <1>1, <1>7, <1>8, <2>5, <2>7, <2>8, <2>11 DEF ClientInv
<1>11. CASE ~row.ours
  <2>1. call' = call
    BY <1>3, <1>11
  <2>2. Hooked(remote', call')
    BY <1>6, <1>9, <2>1, Zenon DEF ClientInv, Hooked
  <2>3. Shaped(remote', was', call', prog') /\ Aimed(call', prog')
    BY <1>1, <1>6, <2>1 DEF ClientInv, Shaped
  <2> QED
    BY <1>1, <1>7, <1>8, <2>1, <2>2, <2>3 DEF ClientInv
<1> QED
  BY <1>10, <1>11

LEMMA TimeoutKeeps ==
  ASSUME ClientInv, Timeout PROVE ClientInv'
<1> DEFINE n == call.node
<1>1. /\ call \in CallState /\ call # NoCall /\ n \in Remotes
      /\ call.pc \in {"sent", "running"}
      /\ UNCHANGED <<prog, seen, was, told>>
      /\ remote \in [Remotes -> RemoteState] /\ was \in [Remotes -> SUBSET StateNames]
      /\ call' = [call EXCEPT !.pc = "answered", !.answer = "timeout"]
      /\ remote' = [remote EXCEPT ![n].row.ours = FALSE]
  BY CallCases, NotResting DEF Timeout, ClientInv, Shaped
<1>2. /\ call' \in CallState /\ call'.pc = "answered" /\ call'.answer = "timeout"
      /\ call'.node = call.node /\ call'.t = call.t
  BY <1>1 DEF CallState
<1> DEFINE hook == [remote[n].row EXCEPT !.ours = FALSE]
           x == [remote[n] EXCEPT !.row = hook]
<1>3. remote[n] \in RemoteState /\ remote[n].row \in HookRow
  BY <1>1 DEF RemoteState
<1>4. /\ hook \in HookRow /\ ~hook.ours /\ hook.t = remote[n].row.t
      /\ hook.from = remote[n].row.from /\ hook.goal = remote[n].row.goal
  BY <1>3 DEF HookRow
<1>5. x \in RemoteState /\ x.row = hook /\ x.state = remote[n].state
  BY <1>3, <1>4 DEF RemoteState
<1>6. remote' = [remote EXCEPT ![n] = x]
  BY <1>1
<1> HIDE DEF x, hook
<1>7. /\ remote' \in [Remotes -> RemoteState] /\ remote'[n] = x
      /\ \A m \in Remotes : m # n => remote'[m] = remote[m]
  BY <1>1, <1>5, <1>6
<1>8. \A m \in Remotes : Shown(remote'[m]) = Shown(remote[m])
  BY <1>4, <1>5, <1>7 DEF Shown
<1>9. Kept(remote', was', prog')
  BY <1>1, <1>8 DEF ClientInv, Kept
<1>10. \A m \in Remotes : m # n => ~remote[m].row.ours
  BY <1>1, Zenon DEF ClientInv, Hooked, HookedAt
<1>11. \A m \in Remotes : m # n => HookedAt(remote[m].row, m, call')
  BY <1>10 DEF ClientInv, Hooked, HookedAt
<1>12. HookedAt(x.row, n, call')
  <2>1. HookedAt(remote[n].row, n, call)
    BY <1>1 DEF ClientInv, Hooked
  <2> QED
    BY <1>4, <1>5, <2>1 DEF HookedAt
<1>13. Hooked(remote', call')
  BY <1>7, <1>11, <1>12, Zenon DEF Hooked
<1>14. Answer(call', was')
  BY <1>2 DEF Answer
<1>15. Aimed(call', prog')
  BY <1>1, <1>2, NotResting DEF ClientInv, Aimed
<1>16. \A o \in orphans' : o.node \in Remotes
  BY <1>1 DEF Timeout, ClientInv
<1> QED
  BY <1>1, <1>2, <1>7, <1>9, <1>13, <1>14, <1>15, <1>16 DEF ClientInv, Shaped

LEMMA CallMethodKeeps ==
  ASSUME ClientInv, CallMethod PROVE ClientInv'
<1>1. /\ prog = Resting /\ call = NoCall /\ told' = Nothing
      /\ UNCHANGED <<remote, call, orphans, seen>>
      /\ was' = [n \in Remotes |-> {StateOf(n)}]
      /\ remote \in [Remotes -> RemoteState]
  BY DEF CallMethod, ClientInv, Shaped, Aimed
<1>2. PICK m \in Methods :
        prog' = [method |-> m, pass |-> 1, at |-> FirstTo(m), errs |-> FALSE, waiting |-> FALSE]
  BY DEF CallMethod
<1>3. FirstTo(m) \in 0..(Len(Declared) + 1)
      /\ (m \in {"BringUp", "AwaitActive"} => FirstTo(m) = 1)
  BY RemotePlaces DEF FirstTo
<1>4. /\ prog' \in ProgState /\ prog'.method = m /\ prog'.pass = 1 /\ prog'.at = FirstTo(m)
  BY <1>2, <1>3 DEF ProgState
<1>5. \A n \in Remotes : StateOf(n) \in StateNames
  BY <1>1, TableRows DEF StateOf, RemoteState
<1>6. was' \in [Remotes -> SUBSET StateNames] /\ \A n \in Remotes : StateOf(n) \in was'[n]
  BY <1>1, <1>5
<1>7. Kept(remote', was', prog')
  BY <1>1, <1>6 DEF Kept, StateOf, Shown
<1>8. \A i \in 1..Len(Declared) : ~(i < 1)
  BY RemotePlaces
<1>9. Passed(prog', was')
  BY <1>3, <1>4, <1>8 DEF Passed
<1>10. Aimed(call', prog') /\ Answer(call', was') /\ Claimed(told', was')
  BY <1>1, <1>4, NotResting DEF Aimed, Answer, Claimed, Nothing
<1>11. Hooked(remote', call') /\ \A o \in orphans' : o.node \in Remotes
  BY <1>1 DEF ClientInv
<1> QED
  BY <1>1, <1>4, <1>6, <1>7, <1>9, <1>10, <1>11 DEF ClientInv, Shaped

-----------------------------------------------------------------------------
(* The methods.                                                            *)

\* Only the call under way has a hook of its own.
LEMMA NoHook ==
  ASSUME ClientInv, call.pc # "running", UNCHANGED remote
  PROVE  Hooked(remote', call')
<1>1. \A m \in Remotes : ~remote[m].row.ours
  BY Zenon DEF ClientInv, Hooked, HookedAt
<1> QED
  BY <1>1 DEF ClientInv, Hooked, HookedAt

LEMMA MethodMoves ==
  ASSUME ClientInv, call.pc # "running", prog # Resting, UNCHANGED <<remote, orphans, was>>,
         call' = NoCall, prog' = Resting \/ (prog' \in ProgState /\ Passed(prog', was)),
         Claimed(told', was)
  PROVE  ClientInv'
<1>1. Hooked(remote', call')
  BY NoHook
<1>2. Shaped(remote', was', call', prog')
  BY DEF ClientInv, Shaped
<1>3. Kept(remote', was', prog')
  BY DEF ClientInv, Kept
<1>4. Aimed(call', prog') /\ Answer(call', was')
  BY NotResting DEF Aimed, Answer
<1>5. Passed(prog', was')
  BY DEF Passed, Resting
<1> QED
  BY <1>1, <1>2, <1>3, <1>4, <1>5 DEF ClientInv

LEMMA Asking ==
  ASSUME ClientInv, call.pc # "running", prog \in ProgState, prog.at \in 1..Len(Declared),
         UNCHANGED <<remote, orphans, was, prog, told>>,
         NEW t \in Transitions \cup {"get"}, Ask(Node(prog), t),
         prog.method = "BringUp" => t \in {"get", Wanted(prog.pass)},
         prog.method = "AwaitActive" => t = "get"
  PROVE  ClientInv'
<1>1. Node(prog) \in Remotes /\ Node(prog) = Declared[prog.at]
  BY RemotePlaces DEF Node
<1>2. /\ call' \in CallState /\ call'.pc = "sent" /\ call'.t = t
      /\ call'.node = Declared[prog.at]
  BY <1>1 DEF Ask, CallState
<1>3. Hooked(remote', call')
  BY NoHook
<1>4. Shaped(remote', was', call', prog') /\ Kept(remote', was', prog')
  BY <1>2 DEF ClientInv, Shaped, Kept
<1>5. Aimed(call', prog') /\ Answer(call', was')
  BY <1>2, NotResting DEF Aimed, Answer
<1>6. Passed(prog', was') /\ Claimed(told', was') /\ \A o \in orphans' : o.node \in Remotes
  BY DEF ClientInv
<1> QED
  BY <1>3, <1>4, <1>5, <1>6 DEF ClientInv

\* A method that returns anything but a claim.
LEMMA Returning ==
  ASSUME ClientInv, call.pc # "running", prog # Resting, UNCHANGED <<remote, orphans, was>>,
         call' = NoCall, NEW r, Return(r),
         r = "ok" /\ prog.method \in {"BringUp", "AwaitActive"}
           => \A n \in Remotes : "Active" \in was[n]
  PROVE  ClientInv'
<1>1. Claimed(told', was)
  BY DEF Return, Claimed
<1> QED
  BY <1>1, MethodMoves DEF Return

LEMMA ProgCases == ClientInv /\ prog # Resting => prog \in ProgState
  BY DEF ClientInv, Shaped

\* Past the last node, in the order of the tag, every node was passed.
LEMMA AllPassed ==
  ASSUME prog \in ProgState, prog.at # 0, Past(prog)
  PROVE  \A n \in Remotes : \E i \in 1..Len(Declared) : i < prog.at /\ n = Declared[i]
<1>1. prog.at = Len(Declared) + 1
  BY RemotePlaces DEF Past, ProgState
<1>2. \A i \in 1..Len(Declared) : i < prog.at
  BY <1>1, RemotePlaces
<1> QED
  BY <1>2, RemotePlaces

\* One node further on, what was said of those before holds of this one as well.
LEMMA OneMore ==
  ASSUME prog \in ProgState, prog.at \in 1..Len(Declared), prog'.at = prog.at + 1
  PROVE  /\ prog'.at \in 0..(Len(Declared) + 1) /\ prog'.at # 0
         /\ \A i \in 1..Len(Declared) : i < prog'.at => i < prog.at \/ i = prog.at
  BY RemotePlaces

LEMMA BringUpLoopKeeps ==
  ASSUME ClientInv, BringUpLoop PROVE ClientInv'
<1>1. /\ prog \in ProgState /\ prog # Resting /\ prog.method = "BringUp" /\ prog.at # 0
      /\ call = NoCall /\ call.pc # "running"
      /\ UNCHANGED <<remote, orphans, was, seen>> /\ Passed(prog, was)
  BY ProgCases, NotResting DEF BringUpLoop, Calls, Idling, ClientInv, Passed
<1>2. CASE ~Past(prog) /\ Ask(Node(prog), "get") /\ UNCHANGED <<prog, told>>
  BY <1>1, <1>2, Asking DEF Past
<1>3. CASE Return("error") /\ UNCHANGED call
  BY <1>1, <1>3, Returning
<1>4. CASE Past(prog) /\ prog.pass = 1 /\ prog' = [prog EXCEPT !.pass = 2, !.at = 1]
           /\ UNCHANGED <<call, told>>
  <2>1. \A n \in Remotes : Been(was, n, Awake)
    <3>1. \A i \in 1..Len(Declared) : i < prog.at => Been(was, Declared[i], Awake)
      BY <1>1, <1>4 DEF Passed
    <3> QED
      BY <1>1, <1>4, <3>1, AllPassed
  <2>2. prog' \in ProgState /\ prog'.pass = 2 /\ prog'.at = 1 /\ prog'.method = "BringUp"
    <3>1. 1 \in 0..(Len(Declared) + 1) /\ 2 \in {1, 2}
      BY RemotePlaces
    <3> QED
      BY <1>1, <1>4, <3>1 DEF ProgState
  <2>3. \A i \in 1..Len(Declared) : ~(i < 1)
    BY RemotePlaces
  <2>4. Passed(prog', was)
    BY <2>1, <2>2, <2>3 DEF Passed
  <2>5. Claimed(told', was)
    BY <1>4 DEF ClientInv
  <2> QED
    BY <1>1, <1>4, <2>2, <2>4, <2>5, MethodMoves
<1>5. CASE Past(prog) /\ prog.pass = 2 /\ Return("ok") /\ UNCHANGED call
  <2>1. \A i \in 1..Len(Declared) : i < prog.at => "Active" \in was[Declared[i]]
    BY <1>1, <1>5 DEF Passed
  <2>2. \A n \in Remotes : "Active" \in was[n]
    BY <1>1, <1>5, <2>1, AllPassed
  <2> QED
    BY <1>1, <1>5, <2>2, Returning
<1> QED
  BY <1>2, <1>3, <1>4, <1>5 DEF BringUpLoop

LEMMA BringUpAnswerKeeps ==
  ASSUME ClientInv, BringUpAnswer PROVE ClientInv'
<1>1. /\ prog \in ProgState /\ prog # Resting /\ prog.method = "BringUp"
      /\ call \in CallState /\ call # NoCall /\ call.pc = "answered"
      /\ UNCHANGED <<remote, orphans, was>>
  BY ProgCases, CallCases, NotResting DEF BringUpAnswer, Calls, Answered, Rest
<1>2. /\ prog.at \in 1..Len(Declared) /\ call.node = Declared[prog.at] /\ prog.pass \in {1, 2}
      /\ call.t \in {"get", Wanted(prog.pass)} /\ Answer(call, was) /\ Passed(prog, was)
      /\ Claimed(told, was)
  BY <1>1 DEF ClientInv, Aimed, ProgState
<1>3. ASSUME Advance, call' = NoCall,
             prog.pass = 1 => Been(was, Declared[prog.at], Awake),
             prog.pass = 2 => "Active" \in was[Declared[prog.at]]
      PROVE  ClientInv'
  <2>1. prog' = [prog EXCEPT !.at = prog.at + 1] /\ told' = told
    BY <1>1, <1>3 DEF Advance, Step
  <2>2. prog'.at = prog.at + 1
    BY <1>1, <2>1 DEF ProgState
  <2>3. /\ prog'.at \in 0..(Len(Declared) + 1) /\ prog'.at # 0
        /\ \A i \in 1..Len(Declared) : i < prog'.at => i < prog.at \/ i = prog.at
    BY <1>1, <1>2, <2>2, OneMore
  <2>4. /\ prog' \in ProgState /\ prog'.method = prog.method /\ prog'.pass = prog.pass
    BY <1>1, <2>1, <2>2, <2>3 DEF ProgState
  <2>5. Passed(prog', was)
    BY <1>1, <1>2, <1>3, <2>3, <2>4 DEF Passed
  <2> QED
    BY <1>1, <1>2, <1>3, <2>1, <2>4, <2>5, MethodMoves
<1>4. CASE call.t = "get" /\ call.answer \in {To(prog.pass), "Active"} /\ Advance /\ call' = NoCall
  <2>1. call.answer \in was[Declared[prog.at]]
    BY <1>1, <1>2, <1>4 DEF Answer, To
  <2>2. prog.pass = 1 => call.answer \in Awake
    BY <1>4 DEF To, Awake
  <2>3. prog.pass = 2 => call.answer = "Active"
    BY <1>4 DEF To
  <2>4. prog.pass = 1 => Been(was, Declared[prog.at], Awake)
    BY <2>1, <2>2 DEF Been
  <2> QED
    BY <1>3, <1>4, <2>1, <2>3, <2>4
<1>5. CASE Ask(Node(prog), Wanted(prog.pass)) /\ UNCHANGED <<prog, told>>
  <2>1. Wanted(prog.pass) \in Transitions
    BY DEF Wanted, Transitions, transitionTable
  <2> QED
    BY <1>1, <1>2, <1>5, <2>1, Asking
<1>6. CASE Return("error") /\ call' = NoCall
  BY <1>1, <1>6, Returning
<1>7. CASE call.t # "get" /\ ~Failed /\ Advance /\ call' = NoCall
  <2>1. PICK d \in transitionTable : d.t = call.t /\ d.goal \in was[Declared[prog.at]]
    BY <1>1, <1>2, <1>7 DEF Answer, Failed
  <2>2. prog.pass = 1 => d.goal = "Inactive"
    BY <1>2, <1>7, <2>1, TableRows DEF Wanted
  <2>3. prog.pass = 2 => d.goal = "Active"
    BY <1>2, <1>7, <2>1, TableRows DEF Wanted
  <2>4. prog.pass = 1 => Been(was, Declared[prog.at], Awake)
    BY <2>1, <2>2 DEF Been, Awake
  <2> QED
    BY <1>3, <1>7, <2>1, <2>3, <2>4
<1> QED
  BY <1>4, <1>5, <1>6, <1>7 DEF BringUpAnswer

LEMMA AwaitLoopKeeps ==
  ASSUME ClientInv, AwaitLoop PROVE ClientInv'
<1>1. /\ prog \in ProgState /\ prog # Resting /\ prog.method = "AwaitActive" /\ prog.at # 0
      /\ call = NoCall /\ call.pc # "running"
      /\ UNCHANGED <<remote, orphans, was, seen>> /\ Passed(prog, was)
  BY ProgCases, NotResting DEF AwaitLoop, Calls, Idling, ClientInv, Passed, Rest
<1>2. CASE ~Past(prog) /\ Ask(Node(prog), "get") /\ UNCHANGED <<prog, told>>
  BY <1>1, <1>2, Asking DEF Past
<1>3. CASE Past(prog) /\ ~prog.waiting /\ Return("ok") /\ UNCHANGED call
  <2>1. \A i \in 1..Len(Declared) : i < prog.at => "Active" \in was[Declared[i]]
    BY <1>1, <1>3 DEF Passed
  <2>2. \A n \in Remotes : "Active" \in was[n]
    BY <1>1, <1>3, <2>1, AllPassed
  <2> QED
    BY <1>1, <1>3, <2>2, Returning
<1>4. CASE Return("error") /\ UNCHANGED call
  BY <1>1, <1>4, Returning
<1>5. CASE prog' = [prog EXCEPT !.at = 1, !.waiting = FALSE] /\ UNCHANGED <<call, told>>
  <2>1. prog' \in ProgState /\ prog'.at = 1 /\ prog'.method = "AwaitActive"
    <3>1. 1 \in 0..(Len(Declared) + 1)
      BY RemotePlaces
    <3> QED
      BY <1>1, <1>5, <3>1 DEF ProgState
  <2>2. \A i \in 1..Len(Declared) : ~(i < 1)
    BY RemotePlaces
  <2>3. Passed(prog', was)
    BY <2>1, <2>2 DEF Passed
  <2>4. Claimed(told', was)
    BY <1>5 DEF ClientInv
  <2> QED
    BY <1>1, <1>5, <2>1, <2>3, <2>4, MethodMoves
<1> QED
  BY <1>2, <1>3, <1>4, <1>5 DEF AwaitLoop

LEMMA AwaitAnswerKeeps ==
  ASSUME ClientInv, AwaitAnswer PROVE ClientInv'
<1>1. /\ prog \in ProgState /\ prog # Resting /\ prog.method = "AwaitActive"
      /\ call \in CallState /\ call # NoCall /\ call.pc = "answered" /\ call' = NoCall
      /\ UNCHANGED <<remote, orphans, was, told>>
      /\ prog' = [prog EXCEPT !.at = prog.at + 1,
                              !.waiting = prog.waiting \/ call.answer # "Active"]
  BY ProgCases, CallCases, NotResting DEF AwaitAnswer, Calls, Answered, Rest
<1>2. /\ prog.at \in 1..Len(Declared) /\ call.node = Declared[prog.at]
      /\ call.t = "get" /\ Answer(call, was) /\ Passed(prog, was) /\ Claimed(told, was)
  BY <1>1 DEF ClientInv, Aimed
<1>3. prog'.at = prog.at + 1 /\ prog'.method = "AwaitActive"
      /\ (~prog'.waiting => ~prog.waiting /\ call.answer = "Active")
  BY <1>1 DEF ProgState
<1>4. /\ prog'.at \in 0..(Len(Declared) + 1) /\ prog'.at # 0
      /\ \A i \in 1..Len(Declared) : i < prog'.at => i < prog.at \/ i = prog.at
  BY <1>1, <1>2, <1>3, OneMore
<1>5. prog' \in ProgState
  <2>1. (prog.waiting \/ call.answer # "Active") \in BOOLEAN
    OBVIOUS
  <2>2. prog.at + 1 \in 0..(Len(Declared) + 1)
    BY <1>3, <1>4
  <2> QED
    BY <1>1, <2>1, <2>2 DEF ProgState
<1>6. ~prog'.waiting => "Active" \in was[Declared[prog.at]]
  BY <1>1, <1>2, <1>3 DEF Answer
<1>7. Passed(prog', was)
  BY <1>2, <1>1, <1>3, <1>4, <1>6 DEF Passed
<1> QED
  BY <1>1, <1>2, <1>5, <1>7, MethodMoves

\* The methods that claim nothing of the nodes' states.
LEMMA OtherLoopsKeep ==
  ASSUME ClientInv, ShutdownLoop \/ EachLoop PROVE ClientInv'
<1>1. /\ prog # Resting /\ prog.method \in {"Shutdown", "Configure", "Activate", "Deactivate", "Cleanup"}
      /\ call = NoCall /\ UNCHANGED <<remote, orphans, was, seen>>
  BY DEF ShutdownLoop, EachLoop, EachMethods, Calls, Idling, Rest
<1>2. prog \in ProgState /\ call.pc # "running"
  BY <1>1, ProgCases, NotResting
<1>3. ASSUME ~Past(prog), NEW t \in Transitions \cup {"get"}, Ask(Node(prog), t),
             UNCHANGED <<prog, told>>
      PROVE  ClientInv'
  BY <1>1, <1>2, <1>3, Asking DEF Past
<1>4. ASSUME NEW r, Return(r), UNCHANGED call
      PROVE  ClientInv'
  BY <1>1, <1>2, <1>4, Returning
<1>5. CASE ShutdownLoop
  <2>1. "get" \in Transitions \cup {"get"}
    OBVIOUS
  <2> QED
    BY <1>3, <1>4, <1>5, <2>1 DEF ShutdownLoop
<1>6. CASE EachLoop
  <2>1. prog.method \in {"Configure", "Activate", "Deactivate", "Cleanup"}
    BY <1>6 DEF EachLoop, EachMethods
  <2>2. Verb(prog.method) \in Transitions \cup {"get"}
    BY <2>1 DEF Verb, Transitions, transitionTable
  <2> QED
    BY <1>3, <1>4, <1>6, <2>2 DEF EachLoop
<1> QED
  BY <1>5, <1>6

LEMMA OtherAnswersKeep ==
  ASSUME ClientInv, ShutdownAnswer \/ EachAnswer PROVE ClientInv'
<1>1. /\ prog # Resting /\ prog.method \in {"Shutdown", "Configure", "Activate", "Deactivate", "Cleanup"}
      /\ call.pc = "answered" /\ UNCHANGED <<remote, orphans, was>>
  BY DEF ShutdownAnswer, EachAnswer, EachMethods, Calls, Answered, Rest
<1>2. /\ prog \in ProgState /\ call \in CallState /\ call.pc # "running" /\ call # NoCall
  BY <1>1, ProgCases, CallCases, NotResting
<1>3. prog.at \in 1..Len(Declared) /\ Claimed(told, was)
  BY <1>2 DEF ClientInv, Aimed
<1>4. ASSUME call' = NoCall, told' = told, prog' \in ProgState, prog'.method = prog.method
      PROVE  ClientInv'
  <2>1. Passed(prog', was)
    BY <1>1, <1>4 DEF Passed
  <2> QED
    BY <1>1, <1>2, <1>3, <1>4, <2>1, MethodMoves
<1>5. prog.at - 1 \in 0..(Len(Declared) + 1) /\ prog.at + 1 \in 0..(Len(Declared) + 1)
  BY <1>3, RemotePlaces
<1>6. CASE ShutdownAnswer
  <2>1. CASE /\ shutdownFor(call.answer) # "none"
             /\ Ask(Node(prog), shutdownFor(call.answer)) /\ UNCHANGED prog
    <3>1. shutdownFor(call.answer) \in Transitions
      BY <2>1 DEF shutdownFor, Transitions, transitionTable
    <3>2. told' = told /\ prog.method = "Shutdown"
      BY <1>6 DEF ShutdownAnswer, Calls
    <3> QED
      BY <1>1, <1>2, <1>3, <2>1, <3>1, <3>2, Asking
  <2>2. CASE /\ prog' = [prog EXCEPT !.at = prog.at - 1, !.errs = prog.errs \/ Failed]
             /\ call' = NoCall
    <3>1. (prog.errs \/ Failed) \in BOOLEAN
      OBVIOUS
    <3>2. prog' \in ProgState /\ prog'.method = prog.method
      BY <1>2, <1>5, <2>2, <3>1 DEF ProgState
    <3>3. told' = told
      BY <1>6 DEF ShutdownAnswer
    <3> QED
      BY <1>4, <2>2, <3>2, <3>3
  <2> QED
    BY <1>6, <2>1, <2>2 DEF ShutdownAnswer
<1>7. CASE EachAnswer
  <2>1. call' = NoCall
    BY <1>7 DEF EachAnswer
  <2>2. CASE Return("error")
    BY <1>1, <1>2, <2>1, <2>2, Returning
  <2>3. CASE Advance
    <3>1. prog.at + Step(prog.method) \in 0..(Len(Declared) + 1)
      BY <1>5 DEF Step
    <3>2. prog' \in ProgState /\ prog'.method = prog.method /\ told' = told
      BY <1>2, <2>3, <3>1 DEF Advance, ProgState
    <3> QED
      BY <1>4, <2>1, <3>2
  <2> QED
    BY <1>7, <2>2, <2>3 DEF EachAnswer
<1> QED
  BY <1>6, <1>7

LEMMA ClientSteps ==
  ASSUME ClientInv, [ClientNext]_clientVars PROVE ClientInv'
<1>1. CASE UNCHANGED clientVars
  BY <1>1 DEF clientVars, ClientInv
<1>2. CASE MethodStep
  BY <1>2, BringUpLoopKeeps, BringUpAnswerKeeps, AwaitLoopKeeps, AwaitAnswerKeeps,
     OtherLoopsKeep, OtherAnswersKeep
     DEF MethodStep
<1>3. CASE \E n \in Remotes : HookReturns(n)
  BY <1>3, HookReturnsKeeps
<1>4. CASE Serve \/ ServeOrphan \/ SomebodyElse \/ Timeout \/ CallMethod
  BY <1>4, ServeKeeps, OthersKeep, TimeoutKeeps, CallMethodKeeps
<1> QED
  BY <1>1, <1>2, <1>3, <1>4 DEF ClientNext

LEMMA ClientInvIsEnough == ClientInv => ClaimsAreTrue
<1> SUFFICES ASSUME ClientInv PROVE ClaimsAreTrue
  OBVIOUS
<1>1. ASSUME Calls("BringUp"), call.pc # "none", call.t = "activate"
      PROVE  \A n \in Remotes : was[n] \cap {"Inactive", "Active"} # {}
  <2>1. prog \in ProgState /\ prog.method = "BringUp" /\ call # NoCall
    BY <1>1, ProgCases, NotResting DEF Calls
  <2>2. prog.pass = 2
    BY <1>1, <2>1 DEF ClientInv, Aimed, Wanted, ProgState
  <2> QED
    BY <2>1, <2>2 DEF ClientInv, Passed, Been, Awake
<1> QED
  BY <1>1 DEF ClaimsAreTrue, ClientInv, Claimed

\* BringUp and AwaitActive say well only of nodes that each were Active at some
\* moment of the call, and BringUp activates nobody before every node has been
\* configured: whatever answers come late, hooks fail and others drive the nodes.
THEOREM Claims == ClientSpec => []ClaimsAreTrue
<1>1. ClientInit => ClientInv
  BY ClientStarts
<1>2. ClientInv /\ [ClientNext]_clientVars => ClientInv'
  BY ClientSteps
<1> QED
  BY <1>1, <1>2, ClientInvIsEnough, PTL DEF ClientSpec
=============================================================================
