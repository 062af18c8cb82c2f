----------------------------- MODULE FrameTree -----------------------------
(***************************************************************************)
(* The declared transform tree (frames.go): its checks, its lookups and    *)
(* their composition; its derivation from a robot description              *)
(* (internal/urdf/frames.go, cmd/conductor/frames.go); what the TF field   *)
(* publishes of it (tf.go).                                                *)
(*                                                                         *)
(* A rotation is a quaternion whose components are halves, written doubled *)
(* <<2x, 2y, 2z, 2w>>: the 24 units among these stand for the rotations of *)
(* a cube by halves and thirds of a turn, on which the arithmetic of the   *)
(* code is exact in integers.                                              *)
(***************************************************************************)
EXTENDS Integers, Sequences, FiniteSets, SequencesExt

FramesOf(ts) == {ts[i].parent : i \in DOMAIN ts} \cup {ts[i].child : i \in DOMAIN ts}
Has(ts, f) == f \in FramesOf(ts)

\* What is left of a list, in its order, of the members of S.
AmongFirst(s, S) ==
  LET upTo[i \in 0..Len(s)] ==
        IF i = 0 THEN <<>> ELSE IF s[i] \in S THEN Append(upTo[i - 1], s[i]) ELSE upTo[i - 1]
  IN  upTo
Among(s, S) == AmongFirst(s, S)[Len(s)]

\* LoadFrames: the static list, then the dynamic one.
LoadFrames(file) ==
  [i \in DOMAIN file.static |-> [file.static[i] EXCEPT !.dynamic = FALSE]] \o
  [i \in DOMAIN file.dynamic |-> [file.dynamic[i] EXCEPT !.dynamic = TRUE]]

Nobody == ""
Ours(t) == ~t.dynamic /\ t.by = Nobody
Fixed(ts) == Among(ts, {t \in ToSet(ts) : ~t.dynamic})
Moving(ts) == Among(ts, {t \in ToSet(ts) : t.dynamic})
Published(ts) == Among(ts, {t \in ToSet(ts) : Ours(t)})
Roots(ts) == FramesOf(ts) \ {ts[i].child : i \in DOMAIN ts}

-----------------------------------------------------------------------------
(* Check.                                                                  *)

Several(S) == \E a, b \in S : a # b

\* The links to f's parents, by their place in the list.
ParentsOf(ts, f) == {i \in DOMAIN ts : ts[i].child = f}
firstParent(ts, f) == ts[Min(ParentsOf(ts, f))].parent

\* The walk from f along first parents, after each link: over when it ran out
\* or has been there before.
follow(ts, f, st) ==
  IF st.over \/ ParentsOf(ts, st.cur) = {} THEN [st EXCEPT !.over = TRUE]
  ELSE LET p == firstParent(ts, st.cur) IN
       [cur |-> p, seen |-> st.seen \cup {p}, over |-> p \in st.seen, cycle |-> p = f]
walk(ts, f) ==
  LET after[i \in 0..(Len(ts) + 1)] ==
        IF i = 0 THEN [cur |-> f, seen |-> {f}, over |-> FALSE, cycle |-> FALSE]
        ELSE follow(ts, f, after[i - 1])
  IN  after
InCycle(ts, f) == walk(ts, f)[Len(ts) + 1].cycle

Check(ts) ==
  (IF \E f \in FramesOf(ts) : Several(ParentsOf(ts, f)) THEN {"multiple_parents"} ELSE {}) \cup
  (IF \E f \in FramesOf(ts) : InCycle(ts, f) THEN {"cycle"} ELSE {}) \cup
  (IF Several(Roots(ts)) THEN {"disconnected"} ELSE {})

-----------------------------------------------------------------------------
(* Lookup.                                                                 *)

\* Breadth-first from the target; a link is traversed either way.
visit(source, cur, st, t) ==
  LET l == IF t.parent = cur.frame THEN [tf |-> t, inverse |-> FALSE] ELSE [tf |-> t, inverse |-> TRUE]
      next == IF l.inverse THEN t.parent ELSE t.child
      via == Append(cur.via, l)
  IN IF cur.frame \notin {t.parent, t.child} \/ next \in st.seen \/ st.found # {} THEN st
     ELSE [queue |-> Append(st.queue, [frame |-> next, via |-> via]),
           seen  |-> st.seen \cup {next},
           found |-> IF next = source THEN {via} ELSE {}]

\* The turn of the frame at the head of the queue, after each link of the list.
popped(st) == [st EXCEPT !.queue = Tail(@)]
visits(ts, source, st) ==
  LET after[j \in 0..Len(ts)] ==
        IF j = 0 THEN popped(st)
        ELSE visit(source, Head(st.queue), after[j - 1], ts[j])
  IN  after
turn(ts, source, st) ==
  IF st.queue = <<>> \/ st.found # {} THEN st ELSE visits(ts, source, st)[Len(ts)]
\* The search from the target, after each turn.
searchFrom(target) == [queue |-> <<[frame |-> target, via |-> <<>>]>>, seen |-> {target}, found |-> {}]
search(ts, target, source) ==
  LET after[i \in 0..Cardinality(FramesOf(ts))] ==
        IF i = 0 THEN searchFrom(target)
        ELSE turn(ts, source, after[i - 1])
  IN  after

path(ts, target, source) ==
  IF {target, source} \subseteq FramesOf(ts)
  THEN IF target = source THEN {<<>>} ELSE search(ts, target, source)[Cardinality(FramesOf(ts))].found
  ELSE {}

Connects(ts, a, b) == path(ts, a, b) # {}

\* Quaternions <<x, y, z, w>>, doubled; vectors are not.
Half(n) == n \div 2
cross(a, b) == <<a[2]*b[3] - a[3]*b[2], a[3]*b[1] - a[1]*b[3], a[1]*b[2] - a[2]*b[1]>>
add3(a, b) == <<a[1] + b[1], a[2] + b[2], a[3] + b[3]>>
rotate(q, v) ==
  LET t == LET c == cross(q, v) IN <<c[1] + q[4]*v[1], c[2] + q[4]*v[2], c[3] + q[4]*v[3]>>
      c == cross(q, t)
  IN add3(v, <<Half(c[1]), Half(c[2]), Half(c[3])>>)
quatMul(a, b) == <<Half(a[4]*b[1] + a[1]*b[4] + a[2]*b[3] - a[3]*b[2]),
                   Half(a[4]*b[2] - a[1]*b[3] + a[2]*b[4] + a[3]*b[1]),
                   Half(a[4]*b[3] + a[1]*b[2] - a[2]*b[1] + a[3]*b[4]),
                   Half(a[4]*b[4] - a[1]*b[1] - a[2]*b[2] - a[3]*b[3])>>
quatConj(q) == <<-q[1], -q[2], -q[3], q[4]>>

\* Mutant: the second translation is not turned.
ThenUnturned(a, b) == [xyz |-> add3(a.xyz, b.xyz), rot |-> quatMul(a.rot, b.rot)]
Then(a, b) == [xyz |-> add3(a.xyz, rotate(a.rot, b.xyz)), rot |-> quatMul(a.rot, b.rot)]
Invert(a) ==
  LET q == quatConj(a.rot)  t == rotate(q, a.xyz) IN [xyz |-> <<-t[1], -t[2], -t[3]>>, rot |-> q]
ApplyTo(a, p) == add3(a.xyz, rotate(a.rot, p))
Identity == [xyz |-> <<0, 0, 0>>, rot |-> <<0, 0, 0, 2>>]
Isometry(t) == [xyz |-> t.xyz, rot |-> t.rot]

\* The motion after each link of a path.
Crossed(l) == IF l.inverse THEN Invert(Isometry(l.tf)) ELSE Isometry(l.tf)
along(links) ==
  LET after[i \in 0..Len(links)] ==
        IF i = 0 THEN Identity ELSE Then(after[i - 1], Crossed(links[i]))
  IN  after

\* Empty: an error, for want of a path or because it crosses a dynamic link.
Still(links) == \A i \in DOMAIN links : ~links[i].tf.dynamic
Lookup(ts, target, source) ==
  {along(links)[Len(links)] : links \in {p \in path(ts, target, source) : Still(p)}}

-----------------------------------------------------------------------------
(* conductor frames -from robot.urdf.                                      *)

\* urdf.Frames: joints to transforms.
Publisher(opts) == IF opts.publisher = Nobody THEN "robot_state_publisher" ELSE opts.publisher
OfJoint(j, opts) ==
  IF j.type = "fixed"
  THEN [parent |-> j.parent, child |-> j.child, xyz |-> j.xyz, rot |-> j.rot,
        dynamic |-> FALSE, by |-> IF opts.ours THEN Nobody ELSE Publisher(opts)]
  ELSE [parent |-> j.parent, child |-> j.child, xyz |-> <<0, 0, 0>>, rot |-> <<0, 0, 0, 2>>,
        dynamic |-> TRUE, by |-> Publisher(opts)]
Frames(joints, opts) ==
  LET used == Among(joints, {j \in ToSet(joints) : j.type = "fixed" \/ ~opts.fixedOnly})
  IN [i \in DOMAIN used |-> OfJoint(used[i], opts)]

\* What is in the file already and no joint has as its child.
ChildrenOf(joints) == {joints[i].child : i \in DOMAIN joints}
keepWorldLinks(existing, joints) ==
  Among(existing, {t \in ToSet(existing) : t.child \notin ChildrenOf(joints)})

\* A dynamic transform is written without an offset, and read back with none.
Bare(t) == [parent |-> t.parent, child |-> t.child, xyz |-> <<0, 0, 0>>, rot |-> <<0, 0, 0, 2>>,
            dynamic |-> t.dynamic, by |-> t.by]
Bared(ts) == [i \in DOMAIN ts |-> Bare(ts[i])]
renderFrames(ts) == [static |-> Fixed(ts), dynamic |-> Bared(Moving(ts))]

runFrames(file, joints, opts) ==
  renderFrames(keepWorldLinks(LoadFrames(file), joints) \o Frames(joints, opts))

-----------------------------------------------------------------------------
(* The TF fields of a process: which node publishes tf_static, and what.   *)

\* TF.bind, node after node (each with or without a TF field).
bindTF(ts, hasTF) ==
  LET nodes == {n \in DOMAIN hasTF : hasTF[n]} IN
  IF nodes = {} \/ Published(ts) = <<>> THEN 0 ELSE Min(nodes)

-----------------------------------------------------------------------------
(* What is asked of these.                                                 *)

\* A tree: one root, from which every frame is reached along exactly one chain.
\* What is above f is in every set of frames that holds its parents and theirs.
Up(ts, f) == {ts[i].parent : i \in {j \in DOMAIN ts : ts[j].child = f}}
Closed(ts, S) == \A g \in S : Up(ts, g) \subseteq S
AncestorsOf(ts, f) ==
  {g \in FramesOf(ts) : \A S \in SUBSET FramesOf(ts) : Up(ts, f) \subseteq S /\ Closed(ts, S) => g \in S}
IsTree(ts) ==
  \/ ts = <<>>
  \/ /\ \A i, j \in DOMAIN ts : ts[i].child = ts[j].child => i = j
     /\ \E root \in FramesOf(ts) : \A f \in FramesOf(ts) :
          f \notin AncestorsOf(ts, f) /\ (f = root \/ root \in AncestorsOf(ts, f))

\* The checks find exactly the files that are not a tree ("exactly the faults
\* that, undeclared, show up as a broken TF tree at runtime"); and a tree has no
\* two frames that do not connect.
ChecksAreRight(ts) ==
  /\ Check(ts) = {} <=> IsTree(ts)
  /\ IsTree(ts) => \A a, b \in FramesOf(ts) : Connects(ts, a, b)

\* Lookups compose: going by way of a third frame is the same motion, and the
\* way back undoes it; a lookup answers exactly when no link of the way moves.
LookupsCompose(ts, p) ==
  IsTree(ts) => \A a, b, c \in FramesOf(ts) :
    \A ab \in Lookup(ts, a, b), bc \in Lookup(ts, b, c) :
      /\ \E ac \in Lookup(ts, a, c) : ApplyTo(ac, p) = ApplyTo(ab, ApplyTo(bc, p))
      /\ \E ba \in Lookup(ts, b, a) : ApplyTo(ba, ApplyTo(ab, p)) = p

\* Deriving again changes nothing; links of the world survive it, but for the
\* offset of one that moves; a fixed joint is published by this application or by
\* somebody else, never by both; and only known values are published.
DerivationIsStable(file, joints, opts) ==
  LET once == runFrames(file, joints, opts)
      ts == LoadFrames(once)
  IN /\ runFrames(once, joints, opts) = once
     /\ \A t \in ToSet(LoadFrames(file)) : t.child \notin ChildrenOf(joints) =>
          (IF t.dynamic THEN Bare(t) ELSE t) \in ToSet(ts)
     /\ \A t \in ToSet(ts) : t.child \in ChildrenOf(joints) =>
          (t \in ToSet(Published(ts)) <=> opts.ours /\ ~t.dynamic)
=============================================================================
