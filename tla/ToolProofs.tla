----------------------------- MODULE ToolProofs -----------------------------
(***************************************************************************)
(* What holds of the tools without a state of their own, for any input:    *)
(* parameter files of any length, transform trees of any size and what is  *)
(* looked up in them or derived into them, what the static check promises  *)
(* of startup for any application, and what a release of any application   *)
(* for any environment runs.                                               *)
(***************************************************************************)
EXTENDS Tools, WellFoundedInduction, SequenceTheorems, FiniteSetTheorems, TLAPS

-----------------------------------------------------------------------------
(* Induction, over sets: a set of numbers has a least one, so a set that     *)
(* holds 0 and with a number the next holds them all.                        *)

LEMMA Least ==
  ASSUME NEW T, T \subseteq Nat, T # {}
  PROVE  \E x \in T : \A y \in T : x <= y
<1>1. PICK x \in T : \A y \in T : <<y, x>> \notin OpToRel(<, Nat)
  BY WFMin, NatLessThanWellFounded
<1>2. \A y \in T : ~(y < x)
  BY <1>1 DEF OpToRel
<1> QED
  BY <1>2

LEMMA Induct ==
  ASSUME NEW S, NEW n \in Nat, 0 \in S, \A k \in Nat : k < n /\ k \in S => k + 1 \in S
  PROVE  n \in S
<1> SUFFICES ASSUME n \notin S PROVE FALSE
  OBVIOUS
<1> DEFINE T == (0..n) \ S
<1>1. T \subseteq Nat /\ T # {}
  OBVIOUS
<1> HIDE DEF T
<1>2. PICK k \in T : \A j \in T : k <= j
  BY Least, <1>1
<1> USE DEF T
<1>3. k # 0 /\ k - 1 \in 0..n /\ k - 1 < n
  BY <1>2
<1>4. k - 1 \in S
  BY <1>2, <1>3
<1> QED
  BY <1>2, <1>3, <1>4

-----------------------------------------------------------------------------
(* Parameter files.                                                          *)

ParserState(T) == [err : BOOLEAN, node : T \cup {""}, inParams : BOOLEAN,
                   out : [FileNodes -> [Names -> T \cup {Absent}]]]

\* The parser's variables, line after line (parseParamFile's loop).
LEMMA LinesAreRead ==
  ASSUME NEW T, NEW lines \in File(T)
  PROVE  /\ readLines(lines)[0] = Start
         /\ \A i \in 1..Len(lines) : readLines(lines)[i] = readLine(readLines(lines)[i - 1], lines[i])
<1> DEFINE Upto(n, g) == g = [i \in 0..n |-> IF i = 0 THEN Start ELSE readLine(g[i - 1], lines[i])]
           S == {n \in Nat : \E g : Upto(n, g)}
<1>1. 0 \in S
  <2>1. Upto(0, [i \in 0..0 |-> Start])
    OBVIOUS
  <2> QED
    BY <2>1
<1>2. \A k \in Nat : k < Len(lines) /\ k \in S => k + 1 \in S
  <2> SUFFICES ASSUME NEW k \in Nat, k \in S
               PROVE  k + 1 \in S
    OBVIOUS
  <2>1. PICK g : Upto(k, g)
    OBVIOUS
  <2> DEFINE h == [i \in 0..(k + 1) |-> IF i = k + 1 THEN readLine(g[k], lines[i]) ELSE g[i]]
  <2>2. ASSUME NEW i \in 0..(k + 1)
        PROVE  h[i] = IF i = 0 THEN Start ELSE readLine(h[i - 1], lines[i])
    <3>1. CASE i = k + 1
      BY <3>1
    <3>2. CASE i \in 0..k
      <4>1. g[i] = IF i = 0 THEN Start ELSE readLine(g[i - 1], lines[i])
        BY <2>1, <3>2
      <4>2. h[i] = g[i] /\ (i # 0 => h[i - 1] = g[i - 1])
        BY <3>2
      <4> QED
        BY <4>1, <4>2
    <3> QED
      BY <3>1, <3>2
  <2> HIDE DEF h
  <2>3. Upto(k + 1, h)
    BY <2>2 DEF h
  <2> QED
    BY <2>3
<1> HIDE DEF S
<1>3. Len(lines) \in Nat
  BY LenProperties DEF File
<1>4. Len(lines) \in S
  BY <1>1, <1>2, <1>3, Induct
<1>5. PICK g : Upto(Len(lines), g)
  BY <1>4 DEF S
<1>6. readLines(lines) = [i \in 0..Len(lines) |->
                            IF i = 0 THEN Start ELSE readLine(readLines(lines)[i - 1], lines[i])]
  BY <1>5 DEF readLines
<1> QED
  BY <1>3, <1>6

\* The header above the next line, after one more line.
LEMMA HeaderMoves ==
  ASSUME NEW T, NEW lines \in File(T), NEW i \in 1..Len(lines)
  PROVE  /\ lines[i].indented => HeaderOf(lines, i + 1) = HeaderOf(lines, i)
         /\ ~lines[i].indented => HeaderOf(lines, i + 1) = {i}
<1>1. i \in Nat /\ i >= 1
  BY LenProperties DEF File
<1>2. \A j \in 1..i : j = i \/ j \in 1..(i - 1)
  BY <1>1
<1>3. \A j \in 1..(i - 1) : j \in 1..i /\ i \in (j + 1)..i
  BY <1>1
<1>4. \A j \in 1..(i - 1) : \A m \in (j + 1)..i : m = i \/ m \in (j + 1)..(i - 1)
  BY <1>1
<1>5. \A j \in 1..(i - 1) : \A m \in (j + 1)..(i - 1) : m \in (j + 1)..i
  BY <1>1
<1>6. (i + 1) - 1 = i /\ i \in 1..i /\ (i + 1)..i = {}
  BY <1>1
<1> QED
  BY <1>2, <1>3, <1>4, <1>5, <1>6 DEF HeaderOf

LEMMA OneHeader ==
  ASSUME NEW T, NEW lines \in File(T), NEW i \in 1..(Len(lines) + 1),
         NEW j \in HeaderOf(lines, i), NEW k \in HeaderOf(lines, i)
  PROVE  j = k /\ j \in 1..Len(lines) /\ j < i
<1>1. /\ i \in Nat /\ j \in 1..(i - 1) /\ k \in 1..(i - 1) /\ Len(lines) \in Nat /\ i - 1 <= Len(lines)
      /\ ~lines[j].indented /\ ~lines[k].indented
      /\ \A m \in (j + 1)..(i - 1) : lines[m].indented
      /\ \A m \in (k + 1)..(i - 1) : lines[m].indented
  BY LenProperties DEF File, HeaderOf
<1>2. ~(j < k) /\ ~(k < j)
  <2>1. j < k => k \in (j + 1)..(i - 1)
    BY <1>1
  <2>2. k < j => j \in (k + 1)..(i - 1)
    BY <1>1
  <2> QED
    BY <1>1, <2>1, <2>2
<1> QED
  BY <1>1, <1>2

\* What the parser knows after i lines, by what the file says up to there.
SettingsTo(lines, n, k, i) == {x \in Settings(lines, n, k) : x <= i}
ReadAt(lines, n, k, i) ==
  LET at == SettingsTo(lines, n, k, i) IN IF at = {} THEN Absent ELSE lines[LastOf(at)].value
Knows(lines, i, st) ==
  /\ st.node = "" \/ HeaderOf(lines, i + 1) # {}
  /\ \A j \in HeaderOf(lines, i + 1) : st.node = lines[j].key
  /\ st.inParams <=> InBlock(lines, i + 1)
  /\ \A n \in FileNodes, k \in Names : st.out[n][k] = ReadAt(lines, n, k, i)
Means(T, lines, i) ==
  LET st == readLines(lines)[i] IN
  /\ st \in ParserState(T)
  /\ st.err <=> \E j \in 1..i : ~Placed(lines, j)
  /\ ~st.err => Knows(lines, i, st)

\* The last of a set to which a later number is added.
LEMMA LastOfLater ==
  ASSUME NEW S, S \subseteq Nat, NEW i \in Nat, \A x \in S : x < i
  PROVE  LastOf(S \cup {i}) = i
<1>1. i \in S \cup {i} /\ \A y \in S \cup {i} : y <= i
  OBVIOUS
<1>2. \A x \in S \cup {i} : (\A y \in S \cup {i} : y <= x) => x = i
  OBVIOUS
<1> QED
  BY <1>1, <1>2 DEF LastOf

\* What one line adds to what is said of a parameter.
LEMMA OneLineMore ==
  ASSUME NEW T, NEW lines \in File(T), NEW i \in 1..Len(lines), NEW n, NEW k
  PROVE  LET sets == /\ lines[i].indented /\ lines[i].key = k /\ k # "ros__parameters"
                     /\ \E j \in HeaderOf(lines, i) : lines[j].key = n
         IN /\ sets => ReadAt(lines, n, k, i) = lines[i].value
            /\ ~sets => ReadAt(lines, n, k, i) = ReadAt(lines, n, k, i - 1)
<1> DEFINE sets == /\ lines[i].indented /\ lines[i].key = k /\ k # "ros__parameters"
                   /\ \E j \in HeaderOf(lines, i) : lines[j].key = n
           before == SettingsTo(lines, n, k, i - 1)
<1>1. i \in Nat /\ i \in DOMAIN lines /\ DOMAIN lines \subseteq Nat
  BY LenProperties DEF File
<1>2. sets <=> i \in Settings(lines, n, k)
  BY <1>1 DEF Settings
<1>3. Settings(lines, n, k) \subseteq Nat
  BY <1>1 DEF Settings
<1>4. CASE sets
  <2>1. SettingsTo(lines, n, k, i) = before \cup {i}
    BY <1>1, <1>2, <1>3, <1>4 DEF SettingsTo
  <2>2. before \subseteq Nat /\ \A x \in before : x < i
    BY <1>1, <1>3 DEF SettingsTo
  <2> HIDE DEF before
  <2>3. LastOf(before \cup {i}) = i
    BY <1>1, <2>2, LastOfLater
  <2> QED
    BY <1>4, <2>1, <2>3 DEF ReadAt
<1>5. CASE ~sets
  <2>1. SettingsTo(lines, n, k, i) = before
    BY <1>1, <1>2, <1>3, <1>5 DEF SettingsTo
  <2> QED
    BY <1>5, <2>1 DEF ReadAt
<1> QED
  BY <1>4, <1>5

LEMMA BlockMoves ==
  ASSUME NEW T, NEW lines \in File(T), NEW i \in 1..Len(lines)
  PROVE  /\ ~lines[i].indented => ~InBlock(lines, i + 1)
         /\ lines[i].indented =>
              (InBlock(lines, i + 1) <=>
                 (InBlock(lines, i) \/ (lines[i].key = "ros__parameters" /\ HeaderOf(lines, i) # {})))
<1>1. i \in Nat /\ i >= 1 /\ (i + 1) - 1 = i /\ (i + 1)..i = {}
  BY LenProperties DEF File
<1>2. CASE ~lines[i].indented
  <2>1. HeaderOf(lines, i + 1) = {i}
    BY <1>2, HeaderMoves
  <2> QED
    BY <1>1, <1>2, <2>1 DEF InBlock
<1>3. CASE lines[i].indented
  <2>1. HeaderOf(lines, i + 1) = HeaderOf(lines, i)
    BY <1>3, HeaderMoves
  <2>2. \A j \in HeaderOf(lines, i) : j \in 1..(i - 1)
    BY DEF HeaderOf
  <2>3. \A j \in 1..(i - 1) : \A m : m \in (j + 1)..i <=> m = i \/ m \in (j + 1)..(i - 1)
    BY <1>1
  <2> QED
    BY <1>1, <1>3, <2>1, <2>2, <2>3 DEF InBlock
<1> QED
  BY <1>2, <1>3

\* One line, by its cases (the switch of parseParamFile).
Refuses(st, l) ==
  \/ st.err \/ l.broken
  \/ ~l.indented /\ l.value # ""
  \/ l.indented /\ st.node = ""
  \/ l.indented /\ l.key # "ros__parameters" /\ (~st.inParams \/ l.value = "")
Sets(st, l, n, k) == l.indented /\ l.key # "ros__parameters" /\ n = st.node /\ k = l.key

LEMMA LineCases ==
  ASSUME NEW T, NEW st \in ParserState(T),
         NEW l \in [broken : BOOLEAN, indented : BOOLEAN, key : T, value : T]
  PROVE  LET nx == readLine(st, l) IN
         /\ nx \in ParserState(T)
         /\ nx.err <=> Refuses(st, l)
         /\ ~nx.err /\ ~l.indented => nx.node = l.key /\ ~nx.inParams
         /\ ~nx.err /\ l.indented =>
              nx.node = st.node /\ (nx.inParams <=> st.inParams \/ l.key = "ros__parameters")
         /\ ~nx.err => \A n \in FileNodes, k \in Names :
              /\ Sets(st, l, n, k) => nx.out[n][k] = l.value
              /\ ~Sets(st, l, n, k) => nx.out[n][k] = st.out[n][k]
<1> DEFINE nx == readLine(st, l)
<1>1. /\ st.err \in BOOLEAN /\ st.inParams \in BOOLEAN /\ l.broken \in BOOLEAN /\ l.indented \in BOOLEAN
      /\ st.node \in T \cup {""} /\ l.key \in T /\ l.value \in T
      /\ st.out \in [FileNodes -> [Names -> T \cup {Absent}]]
  BY DEF ParserState
<1>2. CASE Refuses(st, l)
  <2>1. nx = [st EXCEPT !.err = TRUE]
    BY <1>2, <1>1 DEF readLine, Refuses
  <2>2. nx \in ParserState(T) /\ nx.err
    BY <2>1 DEF ParserState
  <2> QED
    BY <1>2, <2>2
<1>3. CASE ~Refuses(st, l) /\ ~l.indented
  <2>1. nx = [st EXCEPT !.node = l.key, !.inParams = FALSE]
    BY <1>3, <1>1 DEF readLine, Refuses
  <2>2. nx \in ParserState(T) /\ ~nx.err /\ nx.node = l.key /\ ~nx.inParams /\ nx.out = st.out
    BY <1>1, <1>3, <2>1 DEF ParserState, Refuses
  <2> QED
    BY <1>3, <2>2 DEF Sets
<1>4. CASE ~Refuses(st, l) /\ l.indented /\ l.key = "ros__parameters"
  <2>1. nx = [st EXCEPT !.inParams = TRUE]
    BY <1>4, <1>1 DEF readLine, Refuses
  <2>2. nx \in ParserState(T) /\ ~nx.err /\ nx.node = st.node /\ nx.inParams /\ nx.out = st.out
    BY <1>1, <1>4, <2>1 DEF ParserState, Refuses
  <2> QED
    BY <1>4, <2>2 DEF Sets
<1>5. CASE ~Refuses(st, l) /\ l.indented /\ l.key # "ros__parameters"
  <2>1. nx = [st EXCEPT !.out[st.node][l.key] = l.value]
    BY <1>5, <1>1 DEF readLine, Refuses
  <2> DEFINE o == [st.out EXCEPT ![st.node][l.key] = l.value]
  <2>2. o \in [FileNodes -> [Names -> T \cup {Absent}]]
    BY <1>1
  <2>3. \A n \in FileNodes, k \in Names :
          /\ Sets(st, l, n, k) => o[n][k] = l.value
          /\ ~Sets(st, l, n, k) => o[n][k] = st.out[n][k]
    BY <1>1, <1>5 DEF Sets
  <2>4. nx.out = o /\ nx.err = st.err /\ nx.node = st.node /\ nx.inParams = st.inParams
        /\ nx = [err |-> st.err, node |-> st.node, inParams |-> st.inParams, out |-> o]
    BY <2>1 DEF ParserState
  <2> HIDE DEF o
  <2>5. nx \in ParserState(T)
    BY <1>1, <2>2, <2>4 DEF ParserState
  <2>6. ~st.err /\ st.inParams
    BY <1>5 DEF Refuses
  <2> QED
    BY <1>5, <2>3, <2>4, <2>5, <2>6
<1> QED
  BY <1>1, <1>2, <1>3, <1>4, <1>5

LEMMA OneLineRead ==
  ASSUME NEW T, NEW lines \in File(T), NEW i \in 1..Len(lines), Means(T, lines, i - 1)
  PROVE  Means(T, lines, i)
<1> DEFINE st == readLines(lines)[i - 1]
           nx == readLines(lines)[i]
           l == lines[i]
<1>1. i \in Nat /\ i >= 1 /\ (i - 1) + 1 = i /\ i - 1 \in Nat
  BY LenProperties DEF File
<1>2. l \in [broken : BOOLEAN, indented : BOOLEAN, key : T, value : T]
  BY ElementOfSeq DEF File
<1>3. /\ st \in ParserState(T) /\ (st.err <=> \E j \in 1..(i - 1) : ~Placed(lines, j))
      /\ ~st.err => Knows(lines, i - 1, st)
  BY DEF Means
<1>4. nx = readLine(st, l)
  BY LinesAreRead
<1> HIDE DEF st, nx
<1>5. ~st.err => (Refuses(st, l) <=> ~Placed(lines, i))
  <2> SUFFICES ASSUME ~st.err PROVE Refuses(st, l) <=> ~Placed(lines, i)
    OBVIOUS
  <2>1. /\ st.node = "" \/ HeaderOf(lines, i) # {}
        /\ \A j \in HeaderOf(lines, i) : st.node = lines[j].key
        /\ st.inParams <=> InBlock(lines, i)
    BY <1>1, <1>3 DEF Knows
  <2>2. (\E j \in HeaderOf(lines, i) : lines[j].key # "") <=> st.node # ""
    BY <2>1
  <2> QED
    BY <1>2, <2>1, <2>2 DEF Refuses, Placed
<1>6. nx \in ParserState(T)
  BY <1>2, <1>3, <1>4, LineCases
<1>7. nx.err <=> Refuses(st, l)
  BY <1>2, <1>3, <1>4, LineCases
<1>8. nx.err <=> \E j \in 1..i : ~Placed(lines, j)
  <2>1. \A j \in 1..i : j = i \/ j \in 1..(i - 1)
    BY <1>1
  <2>2. i \in 1..i /\ 1..(i - 1) \subseteq 1..i
    BY <1>1
  <2>3. st.err => Refuses(st, l)
    BY DEF Refuses
  <2> QED
    BY <1>3, <1>5, <1>7, <2>1, <2>2, <2>3
<1>9. ASSUME ~nx.err PROVE Knows(lines, i, nx)
  <2>1. ~st.err
    BY <1>7, <1>9 DEF Refuses
  <2>2. /\ \A j \in HeaderOf(lines, i) : st.node = lines[j].key
        /\ st.node = "" \/ HeaderOf(lines, i) # {}
        /\ st.inParams <=> InBlock(lines, i)
        /\ \A n \in FileNodes, k \in Names : st.out[n][k] = ReadAt(lines, n, k, i - 1)
    BY <1>1, <1>3, <2>1 DEF Knows
  <2>3. l.indented => HeaderOf(lines, i) # {}
    BY <1>7, <1>9, <2>2 DEF Refuses
  <2>4. ASSUME NEW n \in FileNodes, NEW k \in Names
        PROVE  nx.out[n][k] = ReadAt(lines, n, k, i)
    <3>1. Sets(st, l, n, k) <=> /\ lines[i].indented /\ lines[i].key = k /\ k # "ros__parameters"
                                /\ \E j \in HeaderOf(lines, i) : lines[j].key = n
      BY <2>2, <2>3 DEF Sets
    <3>2. /\ Sets(st, l, n, k) => nx.out[n][k] = l.value
          /\ ~Sets(st, l, n, k) => nx.out[n][k] = st.out[n][k]
      BY <1>2, <1>3, <1>4, <1>9, LineCases
    <3>3. /\ Sets(st, l, n, k) => ReadAt(lines, n, k, i) = l.value
          /\ ~Sets(st, l, n, k) => ReadAt(lines, n, k, i) = ReadAt(lines, n, k, i - 1)
      BY <3>1, OneLineMore
    <3>4. st.out[n][k] = ReadAt(lines, n, k, i - 1)
      BY <2>2
    <3> QED
      BY <3>2, <3>3, <3>4
  <2>5. CASE l.indented
    <3>1. nx.node = st.node /\ (nx.inParams <=> st.inParams \/ l.key = "ros__parameters")
      BY <1>2, <1>3, <1>4, <1>9, <2>5, LineCases
    <3>2. HeaderOf(lines, i + 1) = HeaderOf(lines, i)
      BY <2>5, HeaderMoves
    <3>3. InBlock(lines, i + 1) <=> InBlock(lines, i) \/ l.key = "ros__parameters"
      BY <2>3, <2>5, BlockMoves
    <3> QED
      BY <2>2, <2>4, <3>1, <3>2, <3>3 DEF Knows
  <2>6. CASE ~l.indented
    <3>1. nx.node = l.key /\ ~nx.inParams
      BY <1>2, <1>3, <1>4, <1>9, <2>6, LineCases
    <3>2. HeaderOf(lines, i + 1) = {i} /\ ~InBlock(lines, i + 1)
      BY <2>6, HeaderMoves, BlockMoves
    <3> QED
      BY <2>4, <3>1, <3>2 DEF Knows
  <2> QED
    BY <2>5, <2>6
<1> QED
  BY <1>6, <1>8, <1>9 DEF Means, nx

LEMMA OneFileRead ==
  ASSUME NEW T, NEW lines \in File(T)
  PROVE  FileMeans(lines)
<1>1. Len(lines) \in Nat
  BY LenProperties DEF File
<1>2. Means(T, lines, 0)
  <2>1. readLines(lines)[0] = Start
    BY LinesAreRead
  <2>2. Start \in ParserState(T) /\ ~Start.err /\ Start.node = "" /\ ~Start.inParams
        /\ \A n \in FileNodes, k \in Names : Start.out[n][k] = Absent
    BY DEF Start, Empty, ParserState
  <2>3. HeaderOf(lines, 0 + 1) = {} /\ ~InBlock(lines, 0 + 1)
    BY DEF HeaderOf, InBlock
  <2>4. \A n \in FileNodes, k \in Names : ReadAt(lines, n, k, 0) = Absent
    <3> SUFFICES ASSUME NEW n \in FileNodes, NEW k \in Names PROVE ReadAt(lines, n, k, 0) = Absent
      OBVIOUS
    <3>1. Settings(lines, n, k) \subseteq 1..Len(lines)
      BY LenProperties DEF Settings, File
    <3>2. SettingsTo(lines, n, k, 0) = {}
      BY <1>1, <3>1 DEF SettingsTo
    <3> QED
      BY <3>2 DEF ReadAt
  <2>5. Knows(lines, 0, Start)
    BY <2>2, <2>3, <2>4 DEF Knows
  <2>6. ~\E j \in 1..0 : ~Placed(lines, j)
    OBVIOUS
  <2> QED
    BY <2>1, <2>2, <2>5, <2>6, Zenon DEF Means
<1> DEFINE S == {i \in Nat : Means(T, lines, i)}
<1>3. 0 \in S
  BY <1>2
<1>4. \A k \in Nat : k < Len(lines) /\ k \in S => k + 1 \in S
  <2> SUFFICES ASSUME NEW k \in Nat, k < Len(lines), Means(T, lines, k)
               PROVE  Means(T, lines, k + 1)
    OBVIOUS
  <2>1. k + 1 \in 1..Len(lines) /\ (k + 1) - 1 = k
    BY <1>1
  <2> QED
    BY <2>1, OneLineRead
<1> HIDE DEF S
<1>5. Len(lines) \in S
  BY <1>1, <1>3, <1>4, Induct
<1>6. Means(T, lines, Len(lines))
  BY <1>5 DEF S
<1>7. DOMAIN lines = 1..Len(lines)
  BY LenProperties DEF File
<1>8. ASSUME NEW n, NEW k PROVE SettingsTo(lines, n, k, Len(lines)) = Settings(lines, n, k)
  BY <1>1, <1>7 DEF SettingsTo, Settings
<1> QED
  BY <1>6, <1>7, <1>8 DEF Means, Knows, ReadAt, FileMeans, parseParamFile

-----------------------------------------------------------------------------
(* The transform tree.                                                       *)

Children(ts) == {ts[i].child : i \in DOMAIN ts}

LEMMA LeastIsMin ==
  ASSUME NEW S \in SUBSET Nat, S # {}
  PROVE  Min(S) \in S /\ \A x \in S : Min(S) <= x
<1>1. \E x \in S : \A y \in S : x <= y
  BY Least
<1> QED
  BY <1>1 DEF Min

LEMMA FewChildren ==
  ASSUME NEW T, NEW ts \in Seq(T)
  PROVE  /\ IsFiniteSet(FramesOf(ts)) /\ IsFiniteSet(Children(ts))
         /\ Cardinality(Children(ts)) <= Len(ts)
         /\ Children(ts) \subseteq FramesOf(ts)
<1>1. Len(ts) \in Nat /\ DOMAIN ts = 1..Len(ts)
  BY LenProperties
<1>2. IsFiniteSet(1..Len(ts)) /\ Cardinality(1..Len(ts)) = Len(ts)
  <2>1. /\ IsFiniteSet(1..Len(ts))
        /\ Cardinality(1..Len(ts)) = IF 1 > Len(ts) THEN 0 ELSE Len(ts) - 1 + 1
    <3>1. 1 \in Int /\ Len(ts) \in Int
      BY <1>1
    <3> QED
      BY <3>1, FS_Interval, Zenon
  <2> QED
    BY <1>1, <2>1
<1> DEFINE Parents == {ts[i].parent : i \in DOMAIN ts}
           p == [i \in 1..Len(ts) |-> ts[i].parent]
           c == [i \in 1..Len(ts) |-> ts[i].child]
<1>3. p \in Surjection(1..Len(ts), Parents) /\ c \in Surjection(1..Len(ts), Children(ts))
  BY <1>1 DEF Surjection, Children
<1> HIDE DEF p, c, Parents
<1>4. IsFiniteSet(Parents) /\ IsFiniteSet(Children(ts)) /\ Cardinality(Children(ts)) <= Len(ts)
  BY <1>2, <1>3, FS_Surjection
<1>5. FramesOf(ts) = Parents \cup Children(ts)
  BY DEF FramesOf, Parents, Children
<1> QED
  BY <1>4, <1>5, FS_Union

\* The parents of a frame, in the list and as a set.
LEMMA ParentsAreUp ==
  ASSUME NEW T, NEW ts \in Seq(T), NEW f
  PROVE  /\ Up(ts, f) \subseteq FramesOf(ts)
         /\ ParentsOf(ts, f) = {} => Up(ts, f) = {}
         /\ f \in Children(ts) <=> ParentsOf(ts, f) # {}
         /\ ParentsOf(ts, f) # {} => firstParent(ts, f) \in Up(ts, f)
         /\ ParentsOf(ts, f) # {} /\ ~Several(ParentsOf(ts, f)) => Up(ts, f) = {firstParent(ts, f)}
<1>1. ParentsOf(ts, f) \in SUBSET Nat
  BY LenProperties DEF ParentsOf
<1>2. ParentsOf(ts, f) # {} => Min(ParentsOf(ts, f)) \in ParentsOf(ts, f)
  BY <1>1, LeastIsMin
<1>3. Up(ts, f) = {ts[i].parent : i \in ParentsOf(ts, f)}
  BY DEF Up, ParentsOf
<1>4. Up(ts, f) \subseteq FramesOf(ts)
  BY DEF Up, FramesOf
<1>5. f \in Children(ts) <=> ParentsOf(ts, f) # {}
  BY DEF Children, ParentsOf
<1> QED
  BY <1>2, <1>3, <1>4, <1>5 DEF firstParent, Several

\* What is above a frame is the least set that holds its parents and theirs.
LEMMA AncestorsAreLeast ==
  ASSUME NEW T, NEW ts \in Seq(T), NEW f
  PROVE  /\ AncestorsOf(ts, f) \in SUBSET FramesOf(ts)
         /\ Up(ts, f) \subseteq AncestorsOf(ts, f)
         /\ Closed(ts, AncestorsOf(ts, f))
         /\ \A S \in SUBSET FramesOf(ts) :
              Up(ts, f) \subseteq S /\ Closed(ts, S) => AncestorsOf(ts, f) \subseteq S
<1>1. \A g : Up(ts, g) \subseteq FramesOf(ts)
  BY ParentsAreUp
<1> QED
  BY <1>1 DEF AncestorsOf, Closed

LEMMA AncestorsOfAncestors ==
  ASSUME NEW T, NEW ts \in Seq(T), NEW f, NEW g \in AncestorsOf(ts, f)
  PROVE  AncestorsOf(ts, g) \subseteq AncestorsOf(ts, f)
<1>1. AncestorsOf(ts, f) \in SUBSET FramesOf(ts) /\ Up(ts, g) \subseteq AncestorsOf(ts, f)
      /\ Closed(ts, AncestorsOf(ts, f))
  BY AncestorsAreLeast DEF Closed
<1> QED
  BY <1>1, AncestorsAreLeast

\* The walk takes one link after the other (Check's loop over parents).
LEMMA LinksAreFollowed ==
  ASSUME NEW T, NEW ts \in Seq(T), NEW f
  PROVE  /\ walk(ts, f)[0] = [cur |-> f, seen |-> {f}, over |-> FALSE, cycle |-> FALSE]
         /\ \A i \in 1..(Len(ts) + 1) : walk(ts, f)[i] = follow(ts, f, walk(ts, f)[i - 1])
<1> DEFINE start == [cur |-> f, seen |-> {f}, over |-> FALSE, cycle |-> FALSE]
           Upto(n, g) == g = [i \in 0..n |-> IF i = 0 THEN start ELSE follow(ts, f, g[i - 1])]
           S == {n \in Nat : \E g : Upto(n, g)}
           N == Len(ts) + 1
<1>0. N \in Nat
  BY LenProperties
<1>1. 0 \in S
  <2>1. Upto(0, [i \in 0..0 |-> start])
    OBVIOUS
  <2> QED
    BY <2>1
<1> HIDE DEF N, start
<1>2. \A k \in Nat : k < N /\ k \in S => k + 1 \in S
  <2> SUFFICES ASSUME NEW k \in Nat, k \in S
               PROVE  k + 1 \in S
    OBVIOUS
  <2>1. PICK g : Upto(k, g)
    OBVIOUS
  <2> DEFINE h == [i \in 0..(k + 1) |-> IF i = k + 1 THEN follow(ts, f, g[k]) ELSE g[i]]
  <2>2. ASSUME NEW i \in 0..(k + 1)
        PROVE  h[i] = IF i = 0 THEN start ELSE follow(ts, f, h[i - 1])
    <3>1. CASE i = k + 1
      BY <3>1
    <3>2. CASE i \in 0..k
      <4>1. g[i] = IF i = 0 THEN start ELSE follow(ts, f, g[i - 1])
        BY <2>1, <3>2
      <4>2. h[i] = g[i] /\ (i # 0 => h[i - 1] = g[i - 1])
        BY <3>2
      <4> QED
        BY <4>1, <4>2
    <3> QED
      BY <3>1, <3>2
  <2> HIDE DEF h
  <2>3. Upto(k + 1, h)
    BY <2>2 DEF h
  <2> QED
    BY <2>3
<1> HIDE DEF S
<1>4. N \in S
  BY <1>0, <1>1, <1>2, Induct
<1>5. PICK g : Upto(N, g)
  BY <1>4 DEF S
<1>6. walk(ts, f) = [i \in 0..N |-> IF i = 0 THEN start ELSE follow(ts, f, walk(ts, f)[i - 1])]
  BY <1>5 DEF walk, N, start
<1>7. walk(ts, f)[0] = start /\ \A i \in 1..N : walk(ts, f)[i] = follow(ts, f, walk(ts, f)[i - 1])
  BY <1>0, <1>6
<1> QED
  BY <1>7 DEF N, start

\* Where the walk from a frame has been: at the frame and at frames above it; as
\* long as it goes on, at a new one with every link.
WalkState(ts) == [cur : FramesOf(ts), seen : SUBSET FramesOf(ts), over : BOOLEAN, cycle : BOOLEAN]
Walked(ts, f, i, st) ==
  /\ st \in WalkState(ts)
  /\ f \in st.seen /\ st.cur \in st.seen /\ st.seen \subseteq {f} \cup AncestorsOf(ts, f)
  /\ st.cycle => f \in AncestorsOf(ts, f)
  /\ ~st.over => ~st.cycle
  /\ ~st.over => st.seen \ {st.cur} \subseteq Children(ts)
  /\ ~st.over => Cardinality(st.seen) = i + 1

LEMMA OneLinkUp ==
  ASSUME NEW T, NEW ts \in Seq(T), NEW f \in FramesOf(ts), NEW i \in Nat, NEW st,
         Walked(ts, f, i, st)
  PROVE  Walked(ts, f, i + 1, follow(ts, f, st))
<1> DEFINE new == follow(ts, f, st)
           p == firstParent(ts, st.cur)
<1>0. st \in WalkState(ts)
  BY DEF Walked
<1>1. CASE st.over \/ ParentsOf(ts, st.cur) = {}
  <2>1. new = [st EXCEPT !.over = TRUE]
    BY <1>1 DEF follow
  <2>2. new \in WalkState(ts) /\ new.over /\ new.cur = st.cur /\ new.seen = st.seen /\ new.cycle = st.cycle
    BY <1>0, <2>1 DEF WalkState
  <2> QED
    BY <2>2 DEF Walked
<1>2. CASE ~(st.over \/ ParentsOf(ts, st.cur) = {})
  <2>1. new = [cur |-> p, seen |-> st.seen \cup {p}, over |-> p \in st.seen, cycle |-> p = f]
    BY <1>2 DEF follow
  <2>2. p \in Up(ts, st.cur) /\ p \in FramesOf(ts) /\ st.cur \in Children(ts)
    BY <1>2, ParentsAreUp
  <2>3. p \in AncestorsOf(ts, f)
    BY <2>2, AncestorsAreLeast DEF Walked, Closed
  <2>4. new \in WalkState(ts) /\ new.cur = p /\ new.seen = st.seen \cup {p}
    BY <1>0, <2>1, <2>2 DEF WalkState
  <2>5. (new.over <=> p \in st.seen) /\ (new.cycle <=> p = f)
    <3>1. new.over = (p \in st.seen) /\ new.cycle = (p = f)
      BY <2>1
    <3> QED
      BY <3>1
  <2>6. ~new.over => Cardinality(new.seen) = i + 1 + 1
    <3>1. IsFiniteSet(st.seen)
      BY <1>0, FewChildren, FS_Subset DEF WalkState
    <3>2. Cardinality(st.seen) = i + 1
      BY <1>2 DEF Walked
    <3> QED
      BY <2>4, <2>5, <3>1, <3>2, FS_AddElement
  <2>7. ~new.over => new.seen \ {new.cur} \subseteq Children(ts)
    BY <1>2, <2>2, <2>4, <2>5 DEF Walked
  <2>8. ~new.over => ~new.cycle
    BY <2>5 DEF Walked
  <2>9. /\ f \in new.seen /\ new.cur \in new.seen /\ new.seen \subseteq {f} \cup AncestorsOf(ts, f)
        /\ new.cycle => f \in AncestorsOf(ts, f)
    BY <2>3, <2>4, <2>5 DEF Walked
  <2> HIDE DEF new
  <2>10. Walked(ts, f, i + 1, new)
    BY <2>4, <2>6, <2>7, <2>8, <2>9 DEF Walked
  <2> QED
    BY <2>10 DEF new
<1> QED
  BY <1>1, <1>2

\* A walk is over when every link has been tried.
LEMMA WalksEnd ==
  ASSUME NEW T, NEW ts \in Seq(T), NEW f \in FramesOf(ts)
  PROVE  /\ \A i \in 0..(Len(ts) + 1) : Walked(ts, f, i, walk(ts, f)[i])
         /\ walk(ts, f)[Len(ts) + 1].over
<1> DEFINE N == Len(ts) + 1
           S == {i \in Nat : Walked(ts, f, i, walk(ts, f)[i])}
<1>0. N \in Nat
  BY LenProperties
<1>1. 0 \in S
  <2> DEFINE start == [cur |-> f, seen |-> {f}, over |-> FALSE, cycle |-> FALSE]
  <2>1. walk(ts, f)[0] = start
    BY LinksAreFollowed
  <2>2. start \in WalkState(ts) /\ start.cur = f /\ start.seen = {f} /\ ~start.over /\ ~start.cycle
    BY DEF WalkState
  <2>3. Cardinality({f}) = 1
    BY FS_Singleton
  <2> HIDE DEF start
  <2>4. Walked(ts, f, 0, start)
    BY <2>2, <2>3 DEF Walked
  <2> QED
    BY <2>1, <2>4
<1>2. \A k \in Nat : k < N /\ k \in S => k + 1 \in S
  <2> SUFFICES ASSUME NEW k \in Nat, k < N, k \in S
               PROVE  k + 1 \in S
    OBVIOUS
  <2>1. walk(ts, f)[k + 1] = follow(ts, f, walk(ts, f)[k])
    <3>1. k + 1 \in 1..N /\ k + 1 - 1 = k
      BY <1>0
    <3>2. \A i \in 1..N : walk(ts, f)[i] = follow(ts, f, walk(ts, f)[i - 1])
      BY LinksAreFollowed
    <3> QED
      BY <3>1, <3>2
  <2>2. Walked(ts, f, k + 1, follow(ts, f, walk(ts, f)[k]))
    BY OneLinkUp
  <2> QED
    BY <2>1, <2>2
<1>3. \A i \in 0..N : i \in S
  <2> SUFFICES ASSUME NEW i \in 0..N
               PROVE  i \in S
    OBVIOUS
  <2> HIDE DEF S
  <2>1. i \in Nat /\ \A k \in Nat : k < i /\ k \in S => k + 1 \in S
    BY <1>0, <1>2
  <2> QED
    BY <1>1, <2>1, Induct
<1>4. walk(ts, f)[N].over
  <2> DEFINE st == walk(ts, f)[N]
  <2> SUFFICES ASSUME ~st.over
               PROVE  FALSE
    OBVIOUS
  <2>1. N \in 0..N
    BY <1>0
  <2>2. Walked(ts, f, N, st)
    BY <1>3, <2>1
  <2> HIDE DEF st
  <2>3. /\ st.seen \in SUBSET FramesOf(ts) /\ st.cur \in st.seen
        /\ st.seen \ {st.cur} \subseteq Children(ts) /\ Cardinality(st.seen) = N + 1
    BY <2>2 DEF Walked, WalkState
  <2>4. IsFiniteSet(st.seen)
    BY <2>3, FewChildren, FS_Subset
  <2>5. Cardinality(st.seen \ {st.cur}) = Cardinality(st.seen) - 1
    BY <2>3, <2>4, FS_RemoveElement
  <2>6. /\ Cardinality(st.seen \ {st.cur}) <= Cardinality(Children(ts))
        /\ Cardinality(Children(ts)) <= Len(ts) /\ Cardinality(Children(ts)) \in Nat
    BY <2>3, FewChildren, FS_Subset, FS_CardinalityType
  <2>7. Len(ts) \in Nat
    BY LenProperties
  <2> QED
    BY <2>3, <2>5, <2>6, <2>7
<1> QED
  BY <1>3, <1>4

\* Whose parents have been seen: everybody's but that of the frame the walk is at.
Cleared(ts, f, st) ==
  ~st.cycle => \A g \in st.seen : (g = st.cur /\ ~st.over) \/ Up(ts, g) \subseteq st.seen \ {f}

LEMMA OneMoreCleared ==
  ASSUME NEW T, NEW ts \in Seq(T), NEW f \in FramesOf(ts), NEW i \in Nat, NEW st,
         \A g \in FramesOf(ts) : ~Several(ParentsOf(ts, g)),
         Walked(ts, f, i, st), Cleared(ts, f, st)
  PROVE  Cleared(ts, f, follow(ts, f, st))
<1> DEFINE new == follow(ts, f, st)
           p == firstParent(ts, st.cur)
<1>0. st \in WalkState(ts) /\ (~st.over => ~st.cycle)
  BY DEF Walked
<1>1. CASE st.over \/ ParentsOf(ts, st.cur) = {}
  <2>1. new = [st EXCEPT !.over = TRUE]
    BY <1>1 DEF follow
  <2>2. new.over /\ new.cur = st.cur /\ new.seen = st.seen /\ new.cycle = st.cycle
    BY <1>0, <2>1 DEF WalkState
  <2>3. ~st.over => Up(ts, st.cur) = {}
    BY <1>1, ParentsAreUp
  <2> QED
    BY <2>2, <2>3 DEF Cleared
<1>2. CASE ~(st.over \/ ParentsOf(ts, st.cur) = {})
  <2>1. new = [cur |-> p, seen |-> st.seen \cup {p}, over |-> p \in st.seen, cycle |-> p = f]
    BY <1>2 DEF follow
  <2>2. new.over = (p \in st.seen) /\ new.cycle = (p = f)
    BY <2>1
  <2>3. new.cur = p /\ new.seen = st.seen \cup {p}
    BY <2>1
  <2>4. Up(ts, st.cur) = {p}
    BY <1>0, <1>2, ParentsAreUp DEF WalkState
  <2> SUFFICES ASSUME ~new.cycle, NEW g \in new.seen
               PROVE  (g = new.cur /\ ~new.over) \/ Up(ts, g) \subseteq new.seen \ {f}
    BY DEF Cleared
  <2>5. p # f
    BY <2>2
  <2>6. CASE g = st.cur
    BY <2>3, <2>4, <2>5, <2>6
  <2>7. CASE g \in st.seen /\ g # st.cur
    <3>1. Up(ts, g) \subseteq st.seen \ {f}
      BY <1>0, <1>2, <2>7 DEF Cleared
    <3> QED
      BY <2>3, <3>1
  <2>8. CASE g \notin st.seen
    <3>1. g = p
      BY <2>3, <2>8
    <3>2. ~new.over
      BY <2>2, <2>8, <3>1
    <3> QED
      BY <2>3, <3>1, <3>2
  <2> QED
    BY <2>6, <2>7, <2>8
<1> QED
  BY <1>1, <1>2

\* Walking from a frame finds the frame again exactly if it is above itself.
LEMMA CyclesAreFound ==
  ASSUME NEW T, NEW ts \in Seq(T), NEW f \in FramesOf(ts)
  PROVE  /\ InCycle(ts, f) => f \in AncestorsOf(ts, f)
         /\ (\A g \in FramesOf(ts) : ~Several(ParentsOf(ts, g))) =>
              (f \in AncestorsOf(ts, f) => InCycle(ts, f))
<1> DEFINE N == Len(ts) + 1
           st == walk(ts, f)[N]
<1>0. N \in Nat /\ N \in 0..N
  BY LenProperties
<1>1. Walked(ts, f, N, st) /\ st.over /\ InCycle(ts, f) = st.cycle
  BY <1>0, WalksEnd DEF InCycle
<1>2. ASSUME \A g \in FramesOf(ts) : ~Several(ParentsOf(ts, g)), ~st.cycle
      PROVE  f \notin AncestorsOf(ts, f)
  <2> DEFINE S == {i \in Nat : Cleared(ts, f, walk(ts, f)[i])}
  <2>1. 0 \in S
    <3>1. walk(ts, f)[0] = [cur |-> f, seen |-> {f}, over |-> FALSE, cycle |-> FALSE]
      BY LinksAreFollowed
    <3> QED
      BY <3>1 DEF Cleared
  <2>2. \A k \in Nat : k < N /\ k \in S => k + 1 \in S
    <3> SUFFICES ASSUME NEW k \in Nat, k < N, k \in S
                 PROVE  k + 1 \in S
      OBVIOUS
    <3>1. k + 1 \in 1..N /\ k + 1 - 1 = k /\ k \in 0..N
      BY <1>0
    <3>2. \A i \in 1..N : walk(ts, f)[i] = follow(ts, f, walk(ts, f)[i - 1])
      BY LinksAreFollowed
    <3>3. walk(ts, f)[k + 1] = follow(ts, f, walk(ts, f)[k])
      BY <3>1, <3>2
    <3>4. Walked(ts, f, k, walk(ts, f)[k])
      BY <3>1, WalksEnd
    <3>5. Cleared(ts, f, follow(ts, f, walk(ts, f)[k]))
      BY <1>2, <3>4, OneMoreCleared
    <3> QED
      BY <3>3, <3>5
  <2> HIDE DEF S
  <2>3. N \in S
    BY <1>0, <2>1, <2>2, Induct
  <2>4. Cleared(ts, f, st)
    BY <2>3 DEF S
  <2> HIDE DEF st
  <2>5. \A g \in st.seen : Up(ts, g) \subseteq st.seen \ {f}
    BY <1>1, <1>2, <2>4 DEF Cleared
  <2> DEFINE above == st.seen \ {f}
  <2>6. above \in SUBSET FramesOf(ts) /\ Up(ts, f) \subseteq above /\ Closed(ts, above)
    BY <1>1, <2>5 DEF Walked, WalkState, Closed
  <2>7. AncestorsOf(ts, f) \subseteq above
    BY <2>6, AncestorsAreLeast
  <2> QED
    BY <2>7
<1> HIDE DEF st
<1>3. st.cycle => f \in AncestorsOf(ts, f)
  BY <1>1 DEF Walked
<1> QED
  BY <1>1, <1>2, <1>3

\* A root is a frame with nothing above it.
LEMMA RootsAreBare ==
  ASSUME NEW T, NEW ts \in Seq(T)
  PROVE  \A f \in FramesOf(ts) : /\ f \in Roots(ts) <=> Up(ts, f) = {}
                                 /\ f \in Roots(ts) => AncestorsOf(ts, f) = {}
<1> SUFFICES ASSUME NEW f \in FramesOf(ts)
             PROVE  (f \in Roots(ts) <=> Up(ts, f) = {}) /\ (f \in Roots(ts) => AncestorsOf(ts, f) = {})
  OBVIOUS
<1>1. f \in Roots(ts) <=> f \notin Children(ts)
  BY DEF Roots, Children
<1>2. f \notin Children(ts) <=> Up(ts, f) = {}
  BY ParentsAreUp
<1>3. Up(ts, f) = {} => AncestorsOf(ts, f) = {}
  BY AncestorsAreLeast DEF Closed
<1> QED
  BY <1>1, <1>2, <1>3

\* Without cycles, every frame has a root above it.
LEMMA RootAbove ==
  ASSUME NEW T, NEW ts \in Seq(T), \A g \in FramesOf(ts) : g \notin AncestorsOf(ts, g),
         NEW f \in FramesOf(ts)
  PROVE  \E r \in Roots(ts) : r = f \/ r \in AncestorsOf(ts, f)
<1> DEFINE A == {f} \cup AncestorsOf(ts, f)
           Depths == {Cardinality(AncestorsOf(ts, g)) : g \in A}
<1>1. /\ \A g \in FramesOf(ts) : IsFiniteSet(AncestorsOf(ts, g)) /\ Cardinality(AncestorsOf(ts, g)) \in Nat
      /\ A \subseteq FramesOf(ts)
  BY AncestorsAreLeast, FewChildren, FS_Subset, FS_CardinalityType
<1>2. Depths \in SUBSET Nat /\ Depths # {}
  BY <1>1
<1> HIDE DEF Depths
<1>3. PICK d \in Depths : \A e \in Depths : d <= e
  BY <1>2, Least
<1> USE DEF Depths
<1>4. PICK r \in A : \A g \in A : Cardinality(AncestorsOf(ts, r)) <= Cardinality(AncestorsOf(ts, g))
  BY <1>3
<1>5. ASSUME NEW g \in Up(ts, r)
      PROVE  FALSE
  <2>1. g \in AncestorsOf(ts, r) /\ g \in A /\ g \in FramesOf(ts)
    BY <1>1, AncestorsAreLeast DEF Closed
  <2>2. AncestorsOf(ts, g) \subseteq AncestorsOf(ts, r) /\ g \notin AncestorsOf(ts, g)
    BY <2>1, AncestorsOfAncestors
  <2>3. r \in FramesOf(ts)
    BY <1>1
  <2>4. /\ Cardinality(AncestorsOf(ts, g)) <= Cardinality(AncestorsOf(ts, r))
        /\ Cardinality(AncestorsOf(ts, g)) # Cardinality(AncestorsOf(ts, r))
    BY <1>1, <2>1, <2>2, <2>3, FS_Subset
  <2> QED
    BY <1>1, <1>4, <2>1, <2>3, <2>4
<1>6. r \in Roots(ts)
  BY <1>1, <1>5, RootsAreBare
<1> QED
  BY <1>6

\* The checks find exactly the lists of transforms that are not a tree, whatever
\* their number (FrameTree.Check).
LEMMA TreesPassAlone ==
  ASSUME NEW T, NEW ts \in Seq(T)
  PROVE  Check(ts) = {} <=> IsTree(ts)
<1> DEFINE Single == \A f \in FramesOf(ts) : ~Several(ParentsOf(ts, f))
           Acyclic == \A f \in FramesOf(ts) : f \notin AncestorsOf(ts, f)
<1>1. Check(ts) = {} <=> /\ Single
                         /\ \A f \in FramesOf(ts) : ~InCycle(ts, f)
                         /\ ~Several(Roots(ts))
  BY DEF Check
<1>2. Single => (Acyclic <=> \A f \in FramesOf(ts) : ~InCycle(ts, f))
  BY CyclesAreFound
<1>3. Single <=> \A i, j \in DOMAIN ts : ts[i].child = ts[j].child => i = j
  BY DEF Several, ParentsOf, FramesOf
<1>4. CASE ts = <<>>
  <2>1. FramesOf(ts) = {}
    BY <1>4 DEF FramesOf
  <2>2. Roots(ts) = {}
    BY <2>1 DEF Roots
  <2> QED
    BY <1>1, <1>4, <2>1, <2>2 DEF IsTree, Several
<1>5. CASE ts # <<>>
  <2>1. PICK any : any \in FramesOf(ts)
    <3>1. 1 \in DOMAIN ts
      BY <1>5, EmptySeq, LenProperties
    <3> QED
      BY <3>1 DEF FramesOf
  <2>2. ASSUME Single, Acyclic, ~Several(Roots(ts))
        PROVE  IsTree(ts)
    <3>1. \A f \in FramesOf(ts) : \E r \in Roots(ts) : r = f \/ r \in AncestorsOf(ts, f)
      BY <2>2, RootAbove
    <3>2. PICK root \in Roots(ts) : root = any \/ root \in AncestorsOf(ts, any)
      BY <2>1, <3>1
    <3>3. \A r \in Roots(ts) : r = root
      BY <2>2, <3>2 DEF Several
    <3>4. root \in FramesOf(ts) /\ \A f \in FramesOf(ts) : root = f \/ root \in AncestorsOf(ts, f)
      BY <3>1, <3>2, <3>3 DEF Roots
    <3> QED
      BY <1>3, <2>2, <3>4 DEF IsTree
  <2>3. ASSUME IsTree(ts)
        PROVE  Single /\ Acyclic /\ ~Several(Roots(ts))
    <3>1. Single
      BY <1>3, <1>5, <2>3 DEF IsTree
    <3>2. PICK root \in FramesOf(ts) : \A f \in FramesOf(ts) :
            f \notin AncestorsOf(ts, f) /\ (f = root \/ root \in AncestorsOf(ts, f))
      BY <1>5, <2>3 DEF IsTree
    <3>3. \A r \in Roots(ts) : r \in FramesOf(ts) /\ AncestorsOf(ts, r) = {}
      BY RootsAreBare DEF Roots
    <3>4. \A r \in Roots(ts) : r = root
      BY <3>2, <3>3
    <3> QED
      BY <3>1, <3>2, <3>4 DEF Several
  <2> QED
    BY <1>1, <1>2, <2>2, <2>3
<1> QED
  BY <1>4, <1>5

\* A frame's turn tries one link after the other (path's inner loop).
LEMMA LinksAreTried ==
  ASSUME NEW T, NEW ts \in Seq(T), NEW source, NEW st
  PROVE  /\ visits(ts, source, st)[0] = popped(st)
         /\ \A i \in 1..Len(ts) :
              visits(ts, source, st)[i] = visit(source, Head(st.queue), visits(ts, source, st)[i - 1], ts[i])
<1> DEFINE start == popped(st)
           Upto(n, g) ==
             g = [i \in 0..n |-> IF i = 0 THEN start ELSE visit(source, Head(st.queue), g[i - 1], ts[i])]
           S == {n \in Nat : \E g : Upto(n, g)}
           N == Len(ts)
<1>0. N \in Nat
  BY LenProperties
<1>1. 0 \in S
  <2>1. Upto(0, [i \in 0..0 |-> start])
    OBVIOUS
  <2> QED
    BY <2>1
<1> HIDE DEF N, start
<1>2. \A k \in Nat : k < N /\ k \in S => k + 1 \in S
  <2> SUFFICES ASSUME NEW k \in Nat, k \in S
               PROVE  k + 1 \in S
    OBVIOUS
  <2>1. PICK g : Upto(k, g)
    OBVIOUS
  <2> DEFINE h == [i \in 0..(k + 1) |-> IF i = k + 1 THEN visit(source, Head(st.queue), g[k], ts[i]) ELSE g[i]]
  <2>2. ASSUME NEW i \in 0..(k + 1)
        PROVE  h[i] = IF i = 0 THEN start ELSE visit(source, Head(st.queue), h[i - 1], ts[i])
    <3>1. CASE i = k + 1
      BY <3>1
    <3>2. CASE i \in 0..k
      <4>1. g[i] = IF i = 0 THEN start ELSE visit(source, Head(st.queue), g[i - 1], ts[i])
        BY <2>1, <3>2
      <4>2. h[i] = g[i] /\ (i # 0 => h[i - 1] = g[i - 1])
        BY <3>2
      <4> QED
        BY <4>1, <4>2
    <3> QED
      BY <3>1, <3>2
  <2> HIDE DEF h
  <2>3. Upto(k + 1, h)
    BY <2>2 DEF h
  <2> QED
    BY <2>3
<1> HIDE DEF S
<1>4. N \in S
  BY <1>0, <1>1, <1>2, Induct
<1>5. PICK g : Upto(N, g)
  BY <1>4 DEF S
<1>6. visits(ts, source, st) =
        [i \in 0..N |-> IF i = 0 THEN start
                       ELSE visit(source, Head(st.queue), visits(ts, source, st)[i - 1], ts[i])]
  BY <1>5 DEF visits, N, start
<1>7. /\ visits(ts, source, st)[0] = start
      /\ \A i \in 1..N :
           visits(ts, source, st)[i] = visit(source, Head(st.queue), visits(ts, source, st)[i - 1], ts[i])
  BY <1>0, <1>6
<1> QED
  BY <1>7 DEF N, start

\* The search takes one turn after the other (path's outer loop).
LEMMA TurnsAreTaken ==
  ASSUME NEW T, NEW ts \in Seq(T), NEW target, NEW source
  PROVE  /\ search(ts, target, source)[0] = searchFrom(target)
         /\ \A i \in 1..Cardinality(FramesOf(ts)) :
              search(ts, target, source)[i] = turn(ts, source, search(ts, target, source)[i - 1])
<1> DEFINE start == searchFrom(target)
           Upto(n, g) == g = [i \in 0..n |-> IF i = 0 THEN start ELSE turn(ts, source, g[i - 1])]
           S == {n \in Nat : \E g : Upto(n, g)}
           N == Cardinality(FramesOf(ts))
<1>0. N \in Nat
  BY LenProperties, FewChildren, FS_CardinalityType
<1>1. 0 \in S
  <2>1. Upto(0, [i \in 0..0 |-> start])
    OBVIOUS
  <2> QED
    BY <2>1
<1> HIDE DEF N, start
<1>2. \A k \in Nat : k < N /\ k \in S => k + 1 \in S
  <2> SUFFICES ASSUME NEW k \in Nat, k \in S
               PROVE  k + 1 \in S
    OBVIOUS
  <2>1. PICK g : Upto(k, g)
    OBVIOUS
  <2> DEFINE h == [i \in 0..(k + 1) |-> IF i = k + 1 THEN turn(ts, source, g[k]) ELSE g[i]]
  <2>2. ASSUME NEW i \in 0..(k + 1)
        PROVE  h[i] = IF i = 0 THEN start ELSE turn(ts, source, h[i - 1])
    <3>1. CASE i = k + 1
      BY <3>1
    <3>2. CASE i \in 0..k
      <4>1. g[i] = IF i = 0 THEN start ELSE turn(ts, source, g[i - 1])
        BY <2>1, <3>2
      <4>2. h[i] = g[i] /\ (i # 0 => h[i - 1] = g[i - 1])
        BY <3>2
      <4> QED
        BY <4>1, <4>2
    <3> QED
      BY <3>1, <3>2
  <2> HIDE DEF h
  <2>3. Upto(k + 1, h)
    BY <2>2 DEF h
  <2> QED
    BY <2>3
<1> HIDE DEF S
<1>4. N \in S
  BY <1>0, <1>1, <1>2, Induct
<1>5. PICK g : Upto(N, g)
  BY <1>4 DEF S
<1>6. search(ts, target, source) =
        [i \in 0..N |-> IF i = 0 THEN start ELSE turn(ts, source, search(ts, target, source)[i - 1])]
  BY <1>5 DEF search, N, start
<1>7. /\ search(ts, target, source)[0] = start
      /\ \A i \in 1..N : search(ts, target, source)[i] = turn(ts, source, search(ts, target, source)[i - 1])
  BY <1>0, <1>6
<1> QED
  BY <1>7 DEF N, start

SomeLinks(T) == Seq([tf : T, inverse : BOOLEAN])
SearchState(T, ts) ==
  [queue : Seq([frame : FramesOf(ts), via : SomeLinks(T)]), seen : SUBSET FramesOf(ts),
   found : SUBSET SomeLinks(T)]
\* A frame in the queue, and one whose first j links lead to frames seen.
Waiting(q, g) == \E k \in DOMAIN q : q[k].frame = g
Met(ts, g, j, S) == \A i \in 1..j : g \in {ts[i].parent, ts[i].child} => {ts[i].parent, ts[i].child} \subseteq S

LEMMA QueuesMove ==
  ASSUME NEW R, NEW q \in Seq(R), q # <<>>
  PROVE  /\ Head(q) \in R /\ Tail(q) \in Seq(R) /\ Len(q) \in Nat /\ Len(Tail(q)) = Len(q) - 1
         /\ \A g : Waiting(q, g) => g = Head(q).frame \/ Waiting(Tail(q), g)
         /\ \A g : Waiting(Tail(q), g) => Waiting(q, g)
         /\ Waiting(q, Head(q).frame)
<1>1. /\ Head(q) \in R /\ Tail(q) \in Seq(R) /\ Len(q) \in Nat \ {0} /\ Len(Tail(q)) = Len(q) - 1
      /\ Head(q) = q[1] /\ \A i \in 1..Len(Tail(q)) : Tail(q)[i] = q[i + 1]
  BY HeadTailProperties, LenProperties, EmptySeq
<1>2. DOMAIN q = 1..Len(q) /\ DOMAIN Tail(q) = 1..Len(Tail(q))
  BY <1>1, LenProperties
<1>3. \A k \in DOMAIN q : k = 1 \/ (k - 1 \in DOMAIN Tail(q) /\ Tail(q)[k - 1] = q[k])
  BY <1>1, <1>2
<1>4. \A k \in DOMAIN Tail(q) : k + 1 \in DOMAIN q /\ Tail(q)[k] = q[k + 1]
  BY <1>1, <1>2
<1>5. 1 \in DOMAIN q
  BY <1>1, <1>2
<1>6. \A g : Waiting(q, g) => g = Head(q).frame \/ Waiting(Tail(q), g)
  BY <1>1, <1>3 DEF Waiting
<1>7. \A g : Waiting(Tail(q), g) => Waiting(q, g)
  <2> SUFFICES ASSUME NEW g, NEW k \in DOMAIN Tail(q), Tail(q)[k].frame = g
               PROVE  \E m \in DOMAIN q : q[m].frame = g
    BY DEF Waiting
  <2> QED
    BY <1>4
<1>8. Waiting(q, Head(q).frame)
  BY <1>1, <1>5 DEF Waiting
<1> QED
  BY <1>1, <1>6, <1>7, <1>8

LEMMA QueuesGrow ==
  ASSUME NEW R, NEW q \in Seq(R), NEW e \in R
  PROVE  /\ Append(q, e) \in Seq(R) /\ Len(q) \in Nat /\ Len(Append(q, e)) = Len(q) + 1
         /\ \A g : Waiting(Append(q, e), g) <=> Waiting(q, g) \/ g = e.frame
<1>1. /\ Append(q, e) \in Seq(R) /\ Len(q) \in Nat /\ Len(Append(q, e)) = Len(q) + 1
      /\ \A i \in 1..Len(q) : Append(q, e)[i] = q[i]
      /\ Append(q, e)[Len(q) + 1] = e
  BY AppendProperties, LenProperties
<1>2. DOMAIN q = 1..Len(q) /\ DOMAIN Append(q, e) = 1..(Len(q) + 1)
  BY <1>1, LenProperties
<1>3. \A k \in DOMAIN Append(q, e) : k = Len(q) + 1 \/ k \in DOMAIN q
  BY <1>1, <1>2
<1>4. \A k \in DOMAIN q : k \in DOMAIN Append(q, e)
  BY <1>1, <1>2
<1>5. Len(q) + 1 \in DOMAIN Append(q, e)
  BY <1>1, <1>2
<1> QED
  BY <1>1, <1>2, <1>3, <1>4, <1>5 DEF Waiting

\* In the turn of the frame at the head of st's queue, after j links: its j links
\* are met and what is seen and not yet waiting has had its turn.
Visited(T, ts, source, st, j, s) ==
  /\ s \in SearchState(T, ts)
  /\ s.found = {} =>
       /\ source \notin s.seen /\ st.seen \subseteq s.seen
       /\ Met(ts, Head(st.queue).frame, j, s.seen)
       /\ \A k \in DOMAIN s.queue : s.queue[k].frame \in s.seen
       /\ \A g \in s.seen : g \in st.seen \/ Waiting(s.queue, g)
       /\ \A g : Waiting(Tail(st.queue), g) => Waiting(s.queue, g)
       /\ Len(s.queue) + Cardinality(st.seen) = Len(st.queue) - 1 + Cardinality(s.seen)

LEMMA OneLinkTried ==
  ASSUME NEW T, NEW ts \in Seq(T), NEW source, NEW st \in SearchState(T, ts), st.queue # <<>>,
         Head(st.queue).frame \in st.seen,
         NEW j \in 1..Len(ts), NEW s, Visited(T, ts, source, st, j - 1, s)
  PROVE  Visited(T, ts, source, st, j, visit(source, Head(st.queue), s, ts[j]))
<1> DEFINE cur == Head(st.queue)
           t == ts[j]
           l == IF t.parent = cur.frame THEN [tf |-> t, inverse |-> FALSE] ELSE [tf |-> t, inverse |-> TRUE]
           next == IF l.inverse THEN t.parent ELSE t.child
           via == Append(cur.via, l)
           new == visit(source, cur, s, t)
<1>0. /\ cur.frame \in FramesOf(ts) /\ cur.via \in SomeLinks(T) /\ cur.frame \in st.seen
      /\ s \in SearchState(T, ts)
      /\ j \in Nat /\ 1..j = 1..(j - 1) \cup {j}
  <2>1. cur \in [frame : FramesOf(ts), via : SomeLinks(T)]
    BY QueuesMove DEF SearchState
  <2>2. j \in Nat /\ 1..j = 1..(j - 1) \cup {j}
    BY LenProperties
  <2> QED
    BY <2>1, <2>2 DEF Visited
<1>1. t \in T /\ j \in DOMAIN ts /\ {t.parent, t.child} \subseteq FramesOf(ts)
  BY ElementOfSeq, LenProperties DEF FramesOf
<1>2. l \in [tf : T, inverse : BOOLEAN] /\ next \in {t.parent, t.child}
      /\ (cur.frame \in {t.parent, t.child} => {t.parent, t.child} = {cur.frame, next})
  BY <1>1
<1> HIDE DEF l
<1>3. via \in SomeLinks(T)
  BY <1>0, <1>2, AppendProperties DEF SomeLinks
<1> HIDE DEF next, via
<1>4. CASE cur.frame \notin {t.parent, t.child} \/ next \in s.seen \/ s.found # {}
  <2>1. new = s
    BY <1>4 DEF visit, next, l
  <2>2. s.found = {} => Met(ts, cur.frame, j, s.seen)
    <3> SUFFICES ASSUME s.found = {}, NEW i \in 1..j, cur.frame \in {ts[i].parent, ts[i].child}
                 PROVE  {ts[i].parent, ts[i].child} \subseteq s.seen
      BY DEF Met
    <3>1. Met(ts, cur.frame, j - 1, s.seen) /\ cur.frame \in s.seen
      BY <1>0 DEF Visited
    <3>2. CASE i = j
      BY <1>2, <1>4, <3>1, <3>2
    <3>3. CASE i \in 1..(j - 1)
      BY <3>1, <3>3 DEF Met
    <3> QED
      BY <1>0, <3>2, <3>3
  <2> QED
    BY <2>1, <2>2 DEF Visited
<1>5. CASE ~(cur.frame \notin {t.parent, t.child} \/ next \in s.seen \/ s.found # {})
  <2> DEFINE e == [frame |-> next, via |-> via]
             queue == Append(s.queue, e)
             seen == s.seen \cup {next}
  <2>1. new = [queue |-> queue, seen |-> seen, found |-> IF next = source THEN {via} ELSE {}]
    BY <1>5 DEF visit, next, l, via
  <2>2. e \in [frame : FramesOf(ts), via : SomeLinks(T)] /\ e.frame = next /\ next \in FramesOf(ts)
    BY <1>1, <1>2, <1>3
  <2> HIDE DEF e
  <2>3. s.queue \in Seq([frame : FramesOf(ts), via : SomeLinks(T)])
    BY <1>0 DEF SearchState
  <2>4. /\ queue \in Seq([frame : FramesOf(ts), via : SomeLinks(T)])
        /\ Len(s.queue) \in Nat /\ Len(queue) = Len(s.queue) + 1
        /\ \A g : Waiting(queue, g) <=> Waiting(s.queue, g) \/ g = next
    <3> DEFINE R == [frame : FramesOf(ts), via : SomeLinks(T)]
    <3>1. e \in R /\ s.queue \in Seq(R)
      BY <2>2, <2>3
    <3> HIDE DEF R
    <3>2. /\ Append(s.queue, e) \in Seq(R) /\ Len(s.queue) \in Nat
          /\ Len(Append(s.queue, e)) = Len(s.queue) + 1
          /\ \A g : Waiting(Append(s.queue, e), g) <=> Waiting(s.queue, g) \/ g = e.frame
      BY <3>1, QueuesGrow
    <3> QED
      BY <2>2, <3>2 DEF R
  <2>5. IsFiniteSet(s.seen) /\ Cardinality(seen) = Cardinality(s.seen) + 1 /\ Cardinality(s.seen) \in Nat
        /\ Cardinality(st.seen) \in Nat
    BY <1>0, <1>5, FewChildren, FS_Subset, FS_CardinalityType, FS_AddElement DEF SearchState
  <2> HIDE DEF queue
  <2>6. /\ new.queue = queue /\ new.seen = seen /\ new \in SearchState(T, ts)
        /\ new.found = {} => next # source
    <3>1. new.queue = queue /\ new.seen = seen /\ new.found = IF next = source THEN {via} ELSE {}
      <4> DEFINE found == IF next = source THEN {via} ELSE {}
      <4> HIDE DEF new, seen, found
      <4>1. new = [queue |-> queue, seen |-> seen, found |-> found]
        BY <2>1 DEF new, seen, found
      <4>2. new.queue = queue /\ new.seen = seen /\ new.found = found
        BY <4>1
      <4> QED
        BY <4>2 DEF found
    <3>2. seen \in SUBSET FramesOf(ts)
      BY <1>0, <2>2 DEF SearchState
    <3>3. (IF next = source THEN {via} ELSE {}) \in SUBSET SomeLinks(T)
      BY <1>3
    <3> HIDE DEF seen
    <3>4. new \in SearchState(T, ts)
      BY <2>1, <2>4, <3>2, <3>3 DEF SearchState
    <3> QED
      BY <3>1, <3>4
  <2> HIDE DEF new
  <2> SUFFICES ASSUME new.found = {}
               PROVE  /\ source \notin seen /\ st.seen \subseteq seen
                      /\ Met(ts, cur.frame, j, seen)
                      /\ \A k \in DOMAIN queue : queue[k].frame \in seen
                      /\ \A g \in seen : g \in st.seen \/ Waiting(queue, g)
                      /\ \A g : Waiting(Tail(st.queue), g) => Waiting(queue, g)
                      /\ Len(queue) + Cardinality(st.seen) = Len(st.queue) - 1 + Cardinality(seen)
    BY <2>6 DEF Visited, new
  <2>7. /\ source \notin s.seen /\ st.seen \subseteq s.seen
        /\ Met(ts, cur.frame, j - 1, s.seen)
        /\ \A k \in DOMAIN s.queue : s.queue[k].frame \in s.seen
        /\ \A g \in s.seen : g \in st.seen \/ Waiting(s.queue, g)
        /\ \A g : Waiting(Tail(st.queue), g) => Waiting(s.queue, g)
        /\ Len(s.queue) + Cardinality(st.seen) = Len(st.queue) - 1 + Cardinality(s.seen)
    BY <1>5 DEF Visited
  <2>8. Met(ts, cur.frame, j, seen)
    BY <1>0, <1>2, <2>7 DEF Met
  <2>9. \A k \in DOMAIN queue : queue[k].frame \in seen
    <3>1. \A g : Waiting(s.queue, g) => g \in s.seen
      BY <2>7 DEF Waiting
    <3>2. \A k \in DOMAIN queue : Waiting(queue, queue[k].frame)
      BY DEF Waiting
    <3> QED
      BY <2>4, <3>1, <3>2
  <2>10. Len(queue) + Cardinality(st.seen) = Len(st.queue) - 1 + Cardinality(seen)
    <3>1. Len(st.queue) \in Nat
      BY QueuesMove DEF SearchState
    <3> HIDE DEF seen
    <3>2. Len(s.queue) + Cardinality(st.seen) = Len(st.queue) - 1 + Cardinality(s.seen)
      BY <2>7
    <3>3. Len(s.queue) \in Nat /\ Len(queue) = Len(s.queue) + 1
      BY <2>4
    <3> DEFINE a == Len(s.queue)
               b == Cardinality(st.seen)
               c == Len(st.queue)
               d == Cardinality(s.seen)
    <3>4. /\ a \in Nat /\ b \in Nat /\ c \in Nat /\ d \in Nat /\ a + b = c - 1 + d
          /\ Len(queue) = a + 1 /\ Cardinality(seen) = d + 1
      BY <2>5, <3>1, <3>2, <3>3
    <3> HIDE DEF a, b, c, d
    <3>5. Len(queue) + b = c - 1 + Cardinality(seen)
      BY <3>4
    <3> QED
      BY <3>5 DEF b, c
  <2> QED
    BY <2>4, <2>6, <2>7, <2>8, <2>9, <2>10
<1> QED
  BY <1>4, <1>5

\* After i turns: what is seen waits or has all its links met, the queue is as long
\* as there are frames seen that have not had a turn, and the source is not seen
\* until it is found.
Searched(T, ts, target, source, i, st) ==
  /\ st \in SearchState(T, ts)
  /\ st.found = {} =>
       /\ source \notin st.seen /\ target \in st.seen
       /\ \A k \in DOMAIN st.queue : st.queue[k].frame \in st.seen
       /\ \A g \in st.seen : Waiting(st.queue, g) \/ Met(ts, g, Len(ts), st.seen)
       /\ st.queue # <<>> => Len(st.queue) + i = Cardinality(st.seen)

LEMMA OneTurn ==
  ASSUME NEW T, NEW ts \in Seq(T), NEW target, NEW source, NEW i \in Nat, NEW st,
         Searched(T, ts, target, source, i, st)
  PROVE  Searched(T, ts, target, source, i + 1, turn(ts, source, st))
<1>0. st \in SearchState(T, ts)
  BY DEF Searched
<1>1. CASE st.queue = <<>> \/ st.found # {}
  BY <1>1 DEF turn, Searched
<1>2. CASE ~(st.queue = <<>> \/ st.found # {})
  <2> DEFINE cur == Head(st.queue)
             N == Len(ts)
             R == [frame : FramesOf(ts), via : SomeLinks(T)]
             S == {j \in Nat : Visited(T, ts, source, st, j, visits(ts, source, st)[j])}
             new == visits(ts, source, st)[N]
  <2>0. N \in Nat /\ st.queue \in Seq(R) /\ st.queue # <<>>
    BY <1>0, <1>2, LenProperties DEF SearchState
  <2>1. /\ Tail(st.queue) \in Seq(R) /\ Len(st.queue) \in Nat
        /\ Len(Tail(st.queue)) = Len(st.queue) - 1
        /\ \A g : Waiting(st.queue, g) => g = cur.frame \/ Waiting(Tail(st.queue), g)
        /\ \A g : Waiting(Tail(st.queue), g) => Waiting(st.queue, g)
        /\ Waiting(st.queue, cur.frame)
    <3> HIDE DEF R
    <3> QED
      BY <2>0, QueuesMove
  <2>2. \A g : Waiting(st.queue, g) => g \in st.seen
    BY <1>2 DEF Searched, Waiting
  <2>3. 0 \in S
    <3>1. visits(ts, source, st)[0] = popped(st)
      BY LinksAreTried
    <3> DEFINE s == popped(st)
    <3>2. s \in SearchState(T, ts) /\ s.queue = Tail(st.queue) /\ s.seen = st.seen /\ s.found = {}
      BY <1>0, <1>2, <2>1 DEF SearchState, popped
    <3> HIDE DEF s
    <3>3. Met(ts, cur.frame, 0, s.seen)
      BY DEF Met
    <3>4. \A k \in DOMAIN s.queue : s.queue[k].frame \in s.seen
      <4>1. \A k \in DOMAIN s.queue : Waiting(s.queue, s.queue[k].frame)
        BY DEF Waiting
      <4> QED
        BY <2>1, <2>2, <3>2, <4>1
    <3>5. Len(s.queue) + Cardinality(st.seen) = Len(st.queue) - 1 + Cardinality(s.seen)
      BY <2>1, <3>2
    <3>6. source \notin s.seen
      BY <1>2, <3>2 DEF Searched
    <3>7. Visited(T, ts, source, st, 0, s)
      BY <3>2, <3>3, <3>4, <3>5, <3>6 DEF Visited
    <3> QED
      BY <3>1, <3>7 DEF s
  <2>4. \A j \in Nat : j < N /\ j \in S => j + 1 \in S
    <3> SUFFICES ASSUME NEW j \in Nat, j < N, j \in S
                 PROVE  j + 1 \in S
      OBVIOUS
    <3>1. j + 1 \in 1..N /\ j + 1 - 1 = j
      BY <2>0
    <3>2. \A k \in 1..N : visits(ts, source, st)[k] = visit(source, cur, visits(ts, source, st)[k - 1], ts[k])
      BY LinksAreTried
    <3>3. visits(ts, source, st)[j + 1] = visit(source, cur, visits(ts, source, st)[j], ts[j + 1])
      BY <3>1, <3>2
    <3>4. Visited(T, ts, source, st, (j + 1) - 1, visits(ts, source, st)[j])
      BY <3>1
    <3>5. cur.frame \in st.seen
      BY <2>1, <2>2
    <3>6. Visited(T, ts, source, st, j + 1, visit(source, cur, visits(ts, source, st)[j], ts[j + 1]))
      BY <1>0, <1>2, <3>1, <3>4, <3>5, OneLinkTried
    <3> QED
      BY <3>3, <3>6
  <2> HIDE DEF S
  <2>5. N \in S
    BY <2>0, <2>3, <2>4, Induct
  <2>6. Visited(T, ts, source, st, N, new) /\ turn(ts, source, st) = new
    BY <1>2, <2>5 DEF S, turn
  <2> HIDE DEF new, cur, N
  <2>7. new \in SearchState(T, ts)
    BY <2>6 DEF Visited
  <2>8. ASSUME new.found = {}
        PROVE  /\ source \notin new.seen /\ target \in new.seen
               /\ \A k \in DOMAIN new.queue : new.queue[k].frame \in new.seen
               /\ \A g \in new.seen : Waiting(new.queue, g) \/ Met(ts, g, N, new.seen)
               /\ Len(new.queue) + (i + 1) = Cardinality(new.seen)
    <3>1. /\ source \notin new.seen /\ st.seen \subseteq new.seen
          /\ \A k \in DOMAIN new.queue : new.queue[k].frame \in new.seen
          /\ Met(ts, cur.frame, N, new.seen)
      BY <2>6, <2>8 DEF Visited, cur
    <3>2. target \in st.seen
      BY <1>2 DEF Searched
    <3>3. ASSUME NEW g \in new.seen, ~Waiting(new.queue, g)
          PROVE  Met(ts, g, N, new.seen)
      <4>1. g \in st.seen /\ ~Waiting(Tail(st.queue), g)
        BY <2>6, <2>8, <3>3 DEF Visited
      <4>2. CASE g = cur.frame
        BY <3>1, <4>2
      <4>3. CASE g # cur.frame
        <5>1. Met(ts, g, N, st.seen)
          BY <1>2, <2>1, <4>1, <4>3 DEF Searched, N
        <5> QED
          BY <3>1, <5>1 DEF Met
      <4> QED
        BY <4>2, <4>3
    <3>4. Len(new.queue) + (i + 1) = Cardinality(new.seen)
      <4>1. Len(new.queue) + Cardinality(st.seen) = Len(st.queue) - 1 + Cardinality(new.seen)
        BY <2>6, <2>8 DEF Visited
      <4>2. Len(st.queue) + i = Cardinality(st.seen)
        BY <1>2 DEF Searched
      <4>3. Len(new.queue) \in Nat /\ Cardinality(new.seen) \in Nat
        BY <2>7, FewChildren, FS_Subset, FS_CardinalityType, LenProperties DEF SearchState
      <4> DEFINE a == Len(new.queue)
                 b == Cardinality(st.seen)
                 c == Len(st.queue)
                 d == Cardinality(new.seen)
      <4>4. a \in Nat /\ c \in Nat /\ d \in Nat /\ a + b = c - 1 + d /\ c + i = b
        BY <2>1, <4>1, <4>2, <4>3
      <4> HIDE DEF a, b, c, d
      <4>5. a + (i + 1) = d
        BY <4>4
      <4> QED
        BY <4>5 DEF a, d
    <3> QED
      BY <3>1, <3>2, <3>3, <3>4
  <2>9. Searched(T, ts, target, source, i + 1, new)
    BY <2>7, <2>8 DEF Searched, N
  <2> QED
    BY <2>6, <2>9
<1> QED
  BY <1>1, <1>2

\* A search that finds nothing has seen the whole of what hangs together.
LEMMA SearchesEnd ==
  ASSUME NEW T, NEW ts \in Seq(T), NEW target \in FramesOf(ts), NEW source, source # target,
         search(ts, target, source)[Cardinality(FramesOf(ts))].found = {}
  PROVE  \E seen \in SUBSET FramesOf(ts) :
           /\ target \in seen /\ source \notin seen
           /\ \A i \in DOMAIN ts : ts[i].parent \in seen <=> ts[i].child \in seen
<1> DEFINE C == Cardinality(FramesOf(ts))
           S == {i \in Nat : Searched(T, ts, target, source, i, search(ts, target, source)[i])}
           st == search(ts, target, source)[C]
<1>0. C \in Nat /\ IsFiniteSet(FramesOf(ts))
  BY FewChildren, FS_CardinalityType
<1>1. 0 \in S
  <2> DEFINE e == [frame |-> target, via |-> <<>>]
             q == <<e>>
             R == [frame : FramesOf(ts), via : SomeLinks(T)]
             start == [queue |-> q, seen |-> {target}, found |-> {}]
  <2>1. search(ts, target, source)[0] = start
    BY TurnsAreTaken DEF searchFrom
  <2>2. <<>> \in SomeLinks(T)
    BY EmptySeq DEF SomeLinks
  <2>3. e \in R /\ e.frame = target
    BY <2>2
  <2> HIDE DEF e, R
  <2>4. q \in Seq(R) /\ Len(q) = 1 /\ DOMAIN q = {1} /\ q[1] = e
    BY <2>3
  <2> HIDE DEF q
  <2>5. start \in SearchState(T, ts) /\ start.queue = q /\ start.seen = {target} /\ start.found = {}
    BY <2>4 DEF SearchState, R
  <2> HIDE DEF start
  <2>6. Waiting(q, target)
    BY <2>3, <2>4 DEF Waiting
  <2>7. Len(q) + 0 = Cardinality({target})
    <3>1. Cardinality({target}) = 1
      BY FS_Singleton
    <3>2. Len(q) + 0 = 1
      BY <2>4
    <3> QED
      BY <3>1, <3>2
  <2>8. Searched(T, ts, target, source, 0, start)
    BY <2>3, <2>4, <2>5, <2>6, <2>7 DEF Searched
  <2> QED
    BY <2>1, <2>8 DEF start, q, e
<1>2. \A k \in Nat : k < C /\ k \in S => k + 1 \in S
  <2> SUFFICES ASSUME NEW k \in Nat, k < C, k \in S
               PROVE  k + 1 \in S
    OBVIOUS
  <2>1. k + 1 \in 1..C /\ k + 1 - 1 = k
    BY <1>0
  <2>2. \A i \in 1..C : search(ts, target, source)[i] = turn(ts, source, search(ts, target, source)[i - 1])
    BY TurnsAreTaken
  <2>3. search(ts, target, source)[k + 1] = turn(ts, source, search(ts, target, source)[k])
    BY <2>1, <2>2
  <2>4. Searched(T, ts, target, source, k + 1, turn(ts, source, search(ts, target, source)[k]))
    BY OneTurn
  <2> QED
    BY <2>3, <2>4
<1> HIDE DEF S
<1>3. C \in S
  BY <1>0, <1>1, <1>2, Induct
<1>4. Searched(T, ts, target, source, C, st) /\ st.found = {}
  BY <1>3 DEF S
<1> HIDE DEF st
<1>5. /\ source \notin st.seen /\ target \in st.seen /\ st.seen \in SUBSET FramesOf(ts)
      /\ \A g \in st.seen : Waiting(st.queue, g) \/ Met(ts, g, Len(ts), st.seen)
      /\ st.queue # <<>> => Len(st.queue) + C = Cardinality(st.seen)
  BY <1>4 DEF Searched, SearchState
<1>6. st.queue = <<>>
  <2> SUFFICES ASSUME st.queue # <<>>
               PROVE  FALSE
    OBVIOUS
  <2>1. Len(st.queue) \in Nat /\ Len(st.queue) # 0
    BY <1>4, LenProperties, EmptySeq DEF Searched, SearchState
  <2>2. Cardinality(st.seen) <= C /\ Cardinality(st.seen) \in Nat
    BY <1>0, <1>5, FS_Subset, FS_CardinalityType
  <2>3. Len(st.queue) + C = Cardinality(st.seen)
    BY <1>5
  <2> HIDE DEF C
  <2> QED
    BY <1>0, <2>1, <2>2, <2>3
<1>7. \A g : ~Waiting(st.queue, g)
  BY <1>6 DEF Waiting
<1>8. \A g \in st.seen : Met(ts, g, Len(ts), st.seen)
  BY <1>5, <1>7
<1>9. DOMAIN ts = 1..Len(ts)
  BY LenProperties
<1>10. \A i \in DOMAIN ts : ts[i].parent \in st.seen <=> ts[i].child \in st.seen
  BY <1>8, <1>9 DEF Met
<1> QED
  BY <1>5, <1>10

\* In a tree any two frames are connected: the root is above both.
LEMMA TreesConnect ==
  ASSUME NEW T, NEW ts \in Seq(T), IsTree(ts), NEW a \in FramesOf(ts), NEW b \in FramesOf(ts)
  PROVE  Connects(ts, a, b)
<1>1. CASE a = b
  BY <1>1 DEF Connects, path
<1>2. CASE a # b
  <2> SUFFICES ASSUME search(ts, a, b)[Cardinality(FramesOf(ts))].found = {}
               PROVE  FALSE
    BY <1>2 DEF Connects, path
  <2>1. PICK seen \in SUBSET FramesOf(ts) :
          /\ a \in seen /\ b \notin seen
          /\ \A i \in DOMAIN ts : ts[i].parent \in seen <=> ts[i].child \in seen
    BY <1>2, SearchesEnd
  <2> DEFINE unseen == FramesOf(ts) \ seen
  <2>2. Closed(ts, seen) /\ Closed(ts, unseen)
    BY <2>1 DEF Closed, Up, FramesOf
  <2>3. AncestorsOf(ts, a) \subseteq seen
    BY <2>1, <2>2, AncestorsAreLeast DEF Closed
  <2>4. AncestorsOf(ts, b) \subseteq unseen
    BY <2>1, <2>2, AncestorsAreLeast DEF Closed
  <2>5. ts # <<>>
    BY DEF FramesOf
  <2>6. PICK root \in FramesOf(ts) : \A f \in FramesOf(ts) : f = root \/ root \in AncestorsOf(ts, f)
    BY <2>5 DEF IsTree
  <2>7. root \in seen /\ root \in unseen
    BY <2>1, <2>3, <2>4, <2>6
  <2> QED
    BY <2>7
<1> QED
  BY <1>1, <1>2

\* The checks find exactly the lists of transforms that are not a tree, and in a tree
\* a lookup finds a way between any two frames, for any number of transforms between
\* any frames (FrameTree.Check, FrameTree.path, FrameTree.Connects).
THEOREM TreesAreChecked ==
  ASSUME NEW T, NEW ts \in Seq(T)
  PROVE  ChecksAreRight(ts)
BY TreesPassAlone, TreesConnect DEF ChecksAreRight

-----------------------------------------------------------------------------
(* What the check says of startup.                                           *)

\* A declaration the scanner reads as the compiler does.
ReadAlike(d) ==
  /\ d.seen = "plainly" /\ DOMAIN d.names = {1} /\ Field(d) = d.names[1]
  /\ Field(d).field # NoText /\ Field(d).handler \notin {"types", "elsewhere"}

LEMMA DeclsAreRead ==
  ASSUME NEW app, IsApp(app), ~Unseen(app),
         NEW i \in DOMAIN app.nodes, NEW j \in DOMAIN app.nodes[i].decls
  PROVE  ReadAlike(app.nodes[i].decls[j])
<1> DEFINE d == app.nodes[i].decls[j]
<1>1. d \in ToSet(app.nodes[i].decls)
  BY DEF ToSet
<1> HIDE DEF d
<1>2. d.seen = "plainly" /\ Len(d.names) = 1 /\ Field(d).handler \notin {"types", "elsewhere"}
  BY <1>1 DEF Unseen
<1>3. d.names \in Seq(ToSet(d.names)) /\ \A k \in DOMAIN d.names : d.names[k].field # NoText
  BY <1>1 DEF IsApp, IsList
<1>4. DOMAIN d.names = {1} /\ Head(d.names) = d.names[1]
  <2>1. DOMAIN d.names = 1..1
    BY <1>2, <1>3, LenProperties
  <2>2. Head(d.names) = d.names[1]
    BY <1>2, <1>3, EmptySeq
  <2> QED
    BY <2>1, <2>2
<1> QED
  BY <1>2, <1>3, <1>4 DEF ReadAlike, Field, d

\* The scanner finds each declaration, and startup binds the one field of each.
LEMMA FieldsAreBound ==
  ASSUME NEW app, IsApp(app), ~Unseen(app), NEW i \in DOMAIN app.nodes
  PROVE  /\ \A K : Scanned(app.nodes[i], K) = {j \in DOMAIN app.nodes[i].decls : app.nodes[i].decls[j].kind \in K}
         /\ \A b \in Bound(app.nodes[i]) : \E j \in DOMAIN app.nodes[i].decls :
              b.d = app.nodes[i].decls[j] /\ b.f = Field(b.d) /\ ReadAlike(b.d)
         /\ \A j \in DOMAIN app.nodes[i].decls :
              [d |-> app.nodes[i].decls[j], f |-> Field(app.nodes[i].decls[j])] \in Bound(app.nodes[i])
         /\ \A b, c \in Bound(app.nodes[i]) : b.d = c.d => b = c
<1> DEFINE n == app.nodes[i]
<1>1. \A j \in DOMAIN n.decls : ReadAlike(n.decls[j])
  BY DeclsAreRead
<1> HIDE DEF n
<1>2. \A K : Scanned(n, K) = {j \in DOMAIN n.decls : n.decls[j].kind \in K}
  BY <1>1 DEF Scanned, ReadAlike
<1>3. \A b \in Bound(n) : \E d \in ToSet(n.decls) : \E k \in DOMAIN d.names : b = [d |-> d, f |-> d.names[k]]
  BY DEF Bound
<1>4. \A b \in Bound(n) : \E j \in DOMAIN n.decls : \E k \in DOMAIN n.decls[j].names :
        b = [d |-> n.decls[j], f |-> n.decls[j].names[k]]
  BY <1>3 DEF ToSet
<1>5. ASSUME NEW b \in Bound(n)
      PROVE  \E j \in DOMAIN n.decls : b = [d |-> n.decls[j], f |-> Field(n.decls[j])]
  <2>1. PICK j \in DOMAIN n.decls : \E k \in DOMAIN n.decls[j].names :
          b = [d |-> n.decls[j], f |-> n.decls[j].names[k]]
    BY <1>4
  <2>2. PICK k \in DOMAIN n.decls[j].names : b = [d |-> n.decls[j], f |-> n.decls[j].names[k]]
    BY <2>1
  <2>3. n.decls[j].names[k] = Field(n.decls[j])
    BY <1>1 DEF ReadAlike
  <2> QED
    BY <2>2, <2>3
<1>6. \A b \in Bound(n) : \E j \in DOMAIN n.decls :
        b.d = n.decls[j] /\ b.f = Field(b.d) /\ ReadAlike(b.d)
  BY <1>1, <1>5
<1>7. ASSUME NEW j \in DOMAIN n.decls
      PROVE  [d |-> n.decls[j], f |-> Field(n.decls[j])] \in Bound(n)
  <2>1. n.decls[j] \in ToSet(n.decls) /\ 1 \in DOMAIN n.decls[j].names /\ Field(n.decls[j]) = n.decls[j].names[1]
    BY <1>1 DEF ToSet, ReadAlike
  <2> QED
    BY <2>1 DEF Bound
<1>8. \A b, c \in Bound(n) : b.d = c.d => b = c
  BY <1>5
<1> QED
  BY <1>2, <1>6, <1>7, <1>8 DEF n

LEMMA DeclsAreFound ==
  ASSUME NEW app, IsApp(app), ~Unseen(app), NEW i \in DOMAIN app.nodes, NEW b \in Bound(app.nodes[i])
  PROVE  /\ \A K : b.d.kind \in K => b.d \in DeclsOf(app.nodes[i], K) /\ b.d \in Decls(app, K)
         /\ b.d \in ToSet(app.nodes[i].decls)
         /\ b.f = Field(b.d) /\ ReadAlike(b.d)
<1>1. PICK j \in DOMAIN app.nodes[i].decls : b.d = app.nodes[i].decls[j] /\ b.f = Field(b.d) /\ ReadAlike(b.d)
  BY FieldsAreBound
<1>2. \A K : b.d.kind \in K => j \in Scanned(app.nodes[i], K)
  BY <1>1, FieldsAreBound
<1>3. \A K : b.d.kind \in K => b.d \in DeclsOf(app.nodes[i], K)
  BY <1>1, <1>2 DEF DeclsOf
<1> QED
  BY <1>1, <1>3 DEF Decls, ToSet

Passed(app) == IsApp(app) /\ ~HasErrors(app) /\ ~Unseen(app)

LEMMA TagsOfNames ==
  /\ NameTag["Sub"] = "topic" /\ NameTag["Pub"] = "topic"
  /\ NameTag["Svc"] = "service" /\ NameTag["Client"] = "service"
  /\ NameTag["Action"] = "action"
  BY DEF NameTag

\* Each kind of field binds: what its bind method asks for is among what the check
\* asked, or what the scanner leaves to it.
LEMMA TopicsBind ==
  ASSUME NEW app, Passed(app), NEW i \in DOMAIN app.nodes, NEW b \in Bound(app.nodes[i]),
         b.d.kind \in {"Sub", "Pub"}
  PROVE  bindTopic(app, b.d) /\ (b.d.kind = "Sub" => bindSub(app, b))
<1> DEFINE d == b.d
<1>1. /\ d \in Decls(app, {"Sub", "Pub"}) /\ d \in Decls(app, {"Sub", "Pub", "Svc", "Client", "Action"})
      /\ d.kind = "Sub" => d \in Decls(app, {"Sub", "Timer", "Svc", "Action"})
      /\ d \in ToSet(app.nodes[i].decls) /\ b.f = Field(d) /\ ReadAlike(d)
  BY DeclsAreFound DEF Passed
<1>2. NameTag[d.kind] = "topic"
  BY TagsOfNames
<1> HIDE DEF d
<1>3. Get(d, "topic") # NoText /\ QoSName(Get(d, "qos")) \in DOMAIN QoSProfiles
      /\ (d.kind = "Sub" => HasHandler(d))
  BY <1>1, <1>2 DEF Passed, HasErrors, EndpointErrors
<1>4. d.types[1].ros # NoText
  BY <1>1 DEF Passed, Unseen, d
<1>5. Frame(d) # NoText => d.types[1].header /\ Has(Tree(app), Frame(d))
  BY <1>1, <1>4 DEF Passed, HasErrors, FrameErrors
<1>6. d.kind = "Sub" => Handled(b)
  BY <1>1, <1>3 DEF HasHandler, Handled, ReadAlike
<1> QED
  BY <1>3, <1>5, <1>6 DEF bindTopic, bindSub, frameTag, d

LEMMA HandlersBind ==
  ASSUME NEW app, Passed(app), NEW i \in DOMAIN app.nodes, NEW b \in Bound(app.nodes[i])
  PROVE  /\ b.d.kind = "Timer" => bindTimer(b) /\ 0 \notin ParseRate(Get(b.d, "rate"))
         /\ b.d.kind = "Svc" => bindSvc(b)
         /\ b.d.kind = "Client" => bindClient(b.d)
         /\ b.d.kind = "Action" => bindAction(app, b)
         /\ b.d.kind = "ActionClient" => bindActionClient(app, b.d)
<1> DEFINE d == b.d
<1>1. /\ \A K : d.kind \in K => d \in Decls(app, K)
      /\ d \in ToSet(app.nodes[i].decls) /\ b.f = Field(d) /\ ReadAlike(d)
  BY DeclsAreFound DEF Passed
<1> HIDE DEF d
<1>2. d.kind \in {"Timer", "Svc", "Action"} => Handled(b)
  <2>1. d.kind \in {"Timer", "Svc", "Action"} => HasHandler(d)
    BY <1>1 DEF Passed, HasErrors, EndpointErrors
  <2> QED
    BY <1>1, <2>1 DEF HasHandler, Handled, ReadAlike
<1>3. d.kind = "Timer" => ParseRate(Get(d, "rate")) # {} /\ 0 \notin ParseRate(Get(d, "rate"))
  BY <1>1 DEF Passed, HasErrors, EndpointErrors, Unseen
<1>4. d.kind \in {"Svc", "Client", "Action"} => Get(d, NameTag[d.kind]) # NoText
  BY <1>1 DEF Passed, HasErrors, EndpointErrors
<1>5. /\ d.kind \in {"Client", "ActionClient"} => ~BadTimeout(Get(d, "timeout"))
      /\ d.kind = "ActionClient" => Get(d, "action") # NoText
      /\ d.kind \in {"Action", "ActionClient"} => Registered(app, d)
  BY <1>1 DEF Passed, Unseen
<1>6. d.kind = "Timer" => bindTimer(b) /\ 0 \notin ParseRate(Get(d, "rate"))
  BY <1>2, <1>3 DEF bindTimer, d
<1>7. d.kind = "Svc" => bindSvc(b)
  BY <1>2, <1>4, TagsOfNames DEF bindSvc, d
<1>8. d.kind = "Client" => bindClient(d)
  BY <1>4, <1>5, TagsOfNames DEF bindClient
<1>9. d.kind = "Action" => bindAction(app, b)
  BY <1>2, <1>4, <1>5, TagsOfNames DEF bindAction, d
<1>10. d.kind = "ActionClient" => bindActionClient(app, d)
  BY <1>5 DEF bindActionClient
<1> QED
  BY <1>6, <1>7, <1>8, <1>9, <1>10 DEF d

\* A node that passes the check has a mission and steps, or neither.
LEMMA MissionsAreWhole ==
  ASSUME NEW app, Passed(app), NEW i \in DOMAIN app.nodes
  PROVE  LET n == app.nodes[i] IN
         /\ \A b, c \in Bound(n) : b.d.kind = "Mission" /\ c.d.kind = "Mission" => b = c
         /\ \A b \in Bound(n) : b.d.kind = "Mission" =>
              Missions(n) # {} /\ Get(b.d, "start") = MissionStart(n)
         /\ \A b \in Bound(n) : b.d.kind = "Step" => Missions(n) # {} /\ b.d \in Steps(n)
         /\ Missions(n) # {} => \E b \in Bound(n) : b.d.kind = "Mission"
         /\ Declared(n) = {b.f.field : b \in {x \in Bound(n) : x.d.kind = "Step"}}
<1> DEFINE n == app.nodes[i]
<1>0. n.decls \in Seq(ToSet(n.decls)) /\ DOMAIN n.decls \in SUBSET Nat
  BY LenProperties DEF Passed, IsApp, IsList
<1>1. /\ \A K : Scanned(n, K) = {j \in DOMAIN n.decls : n.decls[j].kind \in K}
      /\ \A b \in Bound(n) : \E j \in DOMAIN n.decls : b.d = n.decls[j] /\ b.f = Field(b.d)
      /\ \A j \in DOMAIN n.decls : [d |-> n.decls[j], f |-> Field(n.decls[j])] \in Bound(n)
      /\ \A b, c \in Bound(n) : b.d = c.d => b = c
  BY FieldsAreBound DEF Passed
<1>2. ~Several(Missions(n)) /\ (Missions(n) = {} => Steps(n) = {})
  BY DEF Passed, HasErrors, MissionErrors
<1> HIDE DEF n
<1>3. Missions(n) = {j \in DOMAIN n.decls : n.decls[j].kind = "Mission"}
  BY <1>1 DEF Missions
<1>4. Steps(n) = {n.decls[j] : j \in {x \in DOMAIN n.decls : n.decls[x].kind = "Step"}}
  <2>1. Scanned(n, {"Step"}) = {x \in DOMAIN n.decls : n.decls[x].kind = "Step"}
    BY <1>1
  <2> QED
    BY <2>1 DEF Steps, DeclsOf
<1>5. \A b \in Bound(n) : b.d.kind = "Mission" => \E j \in Missions(n) : b.d = n.decls[j]
  BY <1>1, <1>3
<1>6. \A j \in Missions(n) : j = Min(Missions(n))
  <2>1. Missions(n) \in SUBSET Nat
    BY <1>0, <1>3
  <2>2. Missions(n) # {} => Min(Missions(n)) \in Missions(n)
    BY <2>1, LeastIsMin
  <2> QED
    BY <1>2, <2>2 DEF Several
<1>7. \A b, c \in Bound(n) : b.d.kind = "Mission" /\ c.d.kind = "Mission" => b = c
  BY <1>1, <1>5, <1>6
<1>8. \A b \in Bound(n) : b.d.kind = "Mission" => Missions(n) # {} /\ Get(b.d, "start") = MissionStart(n)
  BY <1>5, <1>6 DEF MissionStart
<1>9. \A b \in Bound(n) : b.d.kind = "Step" => b.d \in Steps(n)
  BY <1>1, <1>4
<1>10. Missions(n) # {} => \E b \in Bound(n) : b.d.kind = "Mission"
  BY <1>1, <1>3
<1>11. Declared(n) = {b.f.field : b \in {x \in Bound(n) : x.d.kind = "Step"}}
  <2>1. \A s \in Steps(n) : \E b \in Bound(n) : b.d.kind = "Step" /\ b.f.field = Field(s).field
    <3> SUFFICES ASSUME NEW j \in DOMAIN n.decls, n.decls[j].kind = "Step"
                 PROVE  \E b \in Bound(n) : b.d.kind = "Step" /\ b.f.field = Field(n.decls[j]).field
      BY <1>4
    <3> DEFINE b == [d |-> n.decls[j], f |-> Field(n.decls[j])]
    <3>1. b \in Bound(n)
      BY <1>1
    <3>2. b.d = n.decls[j] /\ b.f = Field(n.decls[j])
      OBVIOUS
    <3> HIDE DEF b
    <3> QED
      BY <3>1, <3>2
  <2>2. \A b \in Bound(n) : b.d.kind = "Step" => \E s \in Steps(n) : Field(s).field = b.f.field
    BY <1>1, <1>9
  <2> QED
    BY <2>1, <2>2 DEF Declared
<1> QED
  BY <1>2, <1>7, <1>8, <1>9, <1>10, <1>11 DEF n

LEMMA MissionsAreWired ==
  ASSUME NEW app, Passed(app), NEW i \in DOMAIN app.nodes
  PROVE  /\ wireMission(app.nodes[i])
         /\ \A b \in Bound(app.nodes[i]) : b.d.kind = "Mission" => bindMission(b.d)
         /\ \A b \in Bound(app.nodes[i]) : b.d.kind = "Step" => bindStep(b)
<1> DEFINE n == app.nodes[i]
           missions == {b \in Bound(n) : b.d.kind = "Mission"}
           steps == {b \in Bound(n) : b.d.kind = "Step"}
           names == {b.f.field : b \in steps}
<1>1. /\ \A b, c \in missions : b = c
      /\ \A b \in missions : Missions(n) # {} /\ Get(b.d, "start") = MissionStart(n)
      /\ \A b \in steps : Missions(n) # {} /\ b.d \in Steps(n)
      /\ Missions(n) # {} => missions # {}
      /\ Declared(n) = names
  BY MissionsAreWhole
<1>2. ~MissionErrors(n)
  BY DEF Passed, HasErrors
<1>3. \A b \in Bound(n) : b.f = Field(b.d) /\ ReadAlike(b.d) /\ b.d \in ToSet(n.decls)
  BY DeclsAreFound DEF Passed
<1>4. \A b \in steps : Get(b.d, "retry") \notin DOMAIN Signed
  BY <1>3 DEF Passed, Unseen
<1> HIDE DEF n, missions, steps, names
<1>5. Missions(n) # {} => MissionStart(n) \in names
  BY <1>1, <1>2 DEF MissionErrors
<1>6. \A b \in steps : /\ HasHandler(b.d) /\ Targets(b.d) \subseteq names \cup StepEnds
                       /\ ~BadTimeout(Get(b.d, "timeout")) /\ ~BadBackoff(Get(b.d, "backoff"))
                       /\ Get(b.d, "retry") \in DOMAIN Counts \cup DOMAIN Signed \cup {NoText}
  BY <1>1, <1>2 DEF MissionErrors
<1>7. \A b \in steps : {NextStep(b.d), Get(b.d, "fail")} \subseteq names \cup StepEnds \cup {NoText}
  BY <1>6 DEF Targets
<1>8. missions = {} => steps = {}
  BY <1>1
<1>9. \A b \in missions : Get(b.d, "start") \in names
  BY <1>1, <1>5
<1>10. wireMission(n)
  BY <1>1, <1>7, <1>8, <1>9 DEF wireMission, missions, steps, names, Several
<1>11. \A b \in steps : Handled(b)
  BY <1>3, <1>6 DEF HasHandler, Handled, ReadAlike, steps
<1>12. \A b \in steps : bindStep(b)
  BY <1>4, <1>6, <1>11 DEF bindStep
<1>13. NoText \notin names
  BY <1>3 DEF names, steps, ReadAlike
<1>14. \A b \in missions : bindMission(b.d)
  BY <1>9, <1>13 DEF bindMission
<1> QED
  BY <1>10, <1>12, <1>14 DEF n, missions, steps

LEMMA OthersBind ==
  ASSUME NEW app, Passed(app), NEW i \in DOMAIN app.nodes, NEW b \in Bound(app.nodes[i])
  PROVE  /\ b.d.kind = "Param" => bindParam(b.d)
         /\ b.d.kind = "Group" => bindGroup(app, b.d)
         /\ b.d.kind = "Lifecycle" => bindLifecycle(b.d)
<1> DEFINE d == b.d
<1>1. /\ \A K : d.kind \in K => d \in DeclsOf(app.nodes[i], K) /\ d \in Decls(app, K)
      /\ d \in ToSet(app.nodes[i].decls)
  BY DeclsAreFound DEF Passed
<1> HIDE DEF d
<1>2. d.kind = "Param" => bindParam(d)
  BY <1>1 DEF Passed, Unseen, bindParam
<1>3. d.kind = "Group" => bindGroup(app, d)
  BY <1>1 DEF Passed, HasErrors, GroupErrors, bindGroup
<1>4. d.kind = "Lifecycle" => bindLifecycle(d)
  <2> SUFFICES ASSUME d.kind = "Lifecycle"
               PROVE  bindLifecycle(d)
    OBVIOUS
  <2>1. /\ splitList(d) # <<>> /\ NoText \notin ToSet(splitList(d)) /\ IsInjective(splitList(d))
        /\ ~BadTimeout(Get(d, "timeout"))
    BY <1>1 DEF Passed, HasErrors, LifecycleErrors
  <2>2. d.nodes # <<>>
    BY <2>1 DEF splitList
  <2>3. \A k \in DOMAIN d.nodes : d.nodes[k].name # NoText
    BY <2>1 DEF splitList, ToSet
  <2> QED
    BY <2>1, <2>2, <2>3 DEF bindLifecycle, parseNodeList
<1> QED
  BY <1>2, <1>3, <1>4 DEF d

\* A bound endpoint is one of the ends the graph has under its name.
LEMMA EndsAreInTheGraph ==
  ASSUME NEW app, Passed(app), NEW i \in DOMAIN app.nodes, NEW b \in Bound(app.nodes[i]), NEW role
  PROVE  \E j \in DOMAIN app.nodes[i].decls :
           /\ b.d = app.nodes[i].decls[j]
           /\ Inside(<<i, j>>, b.d) \in Ends(app, b.d.kind, role, Get(b.d, NameTag[b.d.kind]))
<1>1. PICK j \in DOMAIN app.nodes[i].decls : b.d = app.nodes[i].decls[j]
  BY FieldsAreBound DEF Passed
<1>2. j \in Scanned(app.nodes[i], {b.d.kind})
  BY <1>1, FieldsAreBound DEF Passed
<1>3. Inside(<<i, j>>, b.d) \in EndsIn(app, i, b.d.kind, Get(b.d, NameTag[b.d.kind]))
  BY <1>1, <1>2 DEF EndsIn
<1> QED
  BY <1>1, <1>3 DEF Ends

LEMMA NamesAreInTheGraph ==
  ASSUME NEW app, Passed(app), NEW i \in DOMAIN app.nodes, NEW b \in Bound(app.nodes[i]),
         b.d.kind \in {"Sub", "Pub", "Svc", "Client", "Action"}, NEW K, b.d.kind \in K
  PROVE  Get(b.d, NameTag[b.d.kind]) \in Named(app, K)
<1>1. b.d \in Decls(app, K) /\ b.d \in Decls(app, {"Sub", "Pub", "Svc", "Client", "Action"})
  BY DeclsAreFound DEF Passed
<1>2. Get(b.d, NameTag[b.d.kind]) # NoText
  BY <1>1 DEF Passed, HasErrors, EndpointErrors
<1> QED
  BY <1>1, <1>2 DEF Named

\* What two ends of a graph that has them both in one set of like ends share.
LEMMA EndsAreAlike ==
  ASSUME NEW d, NEW e, NEW at, NEW to, NEW eps, Inside(at, d) \in eps, Inside(to, e) \in eps
  PROVE  /\ SameTypes(eps) => d.types = e.types
         /\ ~Several(eps) => at = to
<1> DEFINE x == Inside(at, d)
           y == Inside(to, e)
<1>1. x.at = at /\ y.at = to /\ x.types = d.types /\ y.types = e.types /\ ~x.ext /\ ~y.ext
  BY DEF Inside
<1> HIDE DEF x, y
<1>2. x \in eps /\ y \in eps
  BY DEF x, y
<1> QED
  BY <1>1, <1>2 DEF SameTypes, Several

LEMMA ServersAreAlone ==
  ASSUME NEW app, Passed(app)
  PROVE  OneServerEach(app)
<1> SUFFICES ASSUME NEW kind \in {"Svc", "Action"}, NEW s \in Servers(app, kind), NEW t \in Servers(app, kind),
                    Get(s.b.d, NameTag[kind]) = Get(t.b.d, NameTag[kind])
             PROVE  s = t
  BY DEF OneServerEach
<1>1. PICK i \in DOMAIN app.nodes : \E b \in Bound(app.nodes[i]) : b.d.kind = kind /\ s = [node |-> i, b |-> b]
  BY DEF Servers
<1>2. PICK b \in Bound(app.nodes[i]) : b.d.kind = kind /\ s = [node |-> i, b |-> b]
  BY <1>1
<1>3. PICK k \in DOMAIN app.nodes : \E c \in Bound(app.nodes[k]) : c.d.kind = kind /\ t = [node |-> k, b |-> c]
  BY DEF Servers
<1>4. PICK c \in Bound(app.nodes[k]) : c.d.kind = kind /\ t = [node |-> k, b |-> c]
  BY <1>3
<1>5. s.b = b /\ t.b = c
  BY <1>2, <1>4
<1> DEFINE name == Get(b.d, NameTag[kind])
           role == IF kind = "Svc" THEN "server" ELSE "action_server"
<1>6. Get(c.d, NameTag[kind]) = name
  BY <1>5
<1>7. ~Several(Ends(app, kind, role, name))
  <2>1. CASE kind = "Svc"
    <3>1. name \in Named(app, {"Svc", "Client"})
      BY <1>2, <2>1, NamesAreInTheGraph
    <3> QED
      BY <2>1, <3>1 DEF Passed, HasErrors, ServiceErrors
  <2>2. CASE kind = "Action"
    <3>1. name \in Named(app, {"Action", "ActionClient"})
      BY <1>2, <2>2, NamesAreInTheGraph
    <3> QED
      BY <2>2, <3>1 DEF Passed, HasErrors, ActionErrors
  <2> QED
    BY <2>1, <2>2
<1> HIDE DEF name, role
<1>8. PICK j \in DOMAIN app.nodes[i].decls :
        b.d = app.nodes[i].decls[j] /\ Inside(<<i, j>>, b.d) \in Ends(app, kind, role, name)
  BY <1>2, EndsAreInTheGraph DEF name
<1>9. PICK m \in DOMAIN app.nodes[k].decls :
        c.d = app.nodes[k].decls[m] /\ Inside(<<k, m>>, c.d) \in Ends(app, kind, role, name)
  BY <1>4, <1>6, EndsAreInTheGraph
<1>10. <<i, j>> = <<k, m>>
  BY <1>7, <1>8, <1>9, EndsAreAlike
<1>11. i = k /\ b.d = c.d
  BY <1>8, <1>9, <1>10
<1>12. b = c
  BY <1>11, FieldsAreBound DEF Passed
<1> QED
  BY <1>2, <1>4, <1>11, <1>12

\* Startup succeeds (newAppOpts).
LEMMA AppsStart ==
  ASSUME NEW app, Passed(app)
  PROVE  StartsUp(app)
<1>1. ASSUME NEW i \in DOMAIN app.nodes, NEW b \in Bound(app.nodes[i])
      PROVE  Binds(app, b) /\ (b.d.kind = "Timer" => 0 \notin ParseRate(Get(b.d, "rate")))
  <2>1. /\ b.d.kind \in {"Sub", "Pub"} => bindTopic(app, b.d)
        /\ b.d.kind = "Sub" => bindSub(app, b)
    BY TopicsBind
  <2>2. b.d.kind = "Mission" => bindMission(b.d)
    BY MissionsAreWired
  <2>3. b.d.kind = "Step" => bindStep(b)
    BY MissionsAreWired
  <2> QED
    BY <2>1, <2>2, <2>3, HandlersBind, OthersBind DEF Binds
<1>2. \A i \in DOMAIN app.nodes : wireMission(app.nodes[i])
  BY MissionsAreWired
<1>3. \A i \in DOMAIN app.nodes : app.nodes[i].hooks = "right"
  BY DEF Passed, Unseen
<1> QED
  BY <1>1, <1>2, <1>3, ServersAreAlone DEF StartsUp

LEMMA BoundSomewhere ==
  ASSUME NEW app, NEW kinds, NEW d \in BoundDecls(app, kinds)
  PROVE  \E i \in DOMAIN app.nodes : \E b \in Bound(app.nodes[i]) : b.d = d /\ d.kind \in kinds
<1>1. PICK b \in UNION {Bound(app.nodes[i]) : i \in DOMAIN app.nodes} : b.d = d /\ b.d.kind \in kinds
  BY DEF BoundDecls
<1> QED
  BY <1>1

\* The ends of a topic, and of a service.
TopicEnds(app, t) == Ends(app, "Pub", "publisher", t) \cup Ends(app, "Sub", "subscriber", t)
ServiceEnds(app, s) == Ends(app, "Svc", "server", s) \cup Ends(app, "Client", "client", s)

LEMMA TopicsAreAlike ==
  ASSUME NEW app, Passed(app), NEW d \in BoundDecls(app, {"Pub", "Sub"})
  PROVE  /\ \E at : Inside(at, d) \in TopicEnds(app, Get(d, "topic"))
         /\ SameTypes(TopicEnds(app, Get(d, "topic")))
<1>1. PICK i \in DOMAIN app.nodes : \E b \in Bound(app.nodes[i]) : b.d = d /\ d.kind \in {"Pub", "Sub"}
  BY BoundSomewhere
<1>2. PICK b \in Bound(app.nodes[i]) : b.d = d /\ d.kind \in {"Pub", "Sub"}
  BY <1>1
<1>3. NameTag[d.kind] = "topic"
  BY <1>2, TagsOfNames
<1>4. Get(d, "topic") \in Named(app, {"Sub", "Pub"})
  BY <1>2, <1>3, NamesAreInTheGraph
<1>5. SameTypes(TopicEnds(app, Get(d, "topic")))
  BY <1>4 DEF Passed, HasErrors, TopicErrors, TopicEnds
<1>6. CASE d.kind = "Pub"
  BY <1>2, <1>3, <1>5, <1>6, EndsAreInTheGraph DEF TopicEnds
<1>7. CASE d.kind = "Sub"
  BY <1>2, <1>3, <1>5, <1>7, EndsAreInTheGraph DEF TopicEnds
<1> QED
  BY <1>2, <1>6, <1>7

LEMMA ServicesAreAlike ==
  ASSUME NEW app, Passed(app), NEW d \in BoundDecls(app, {"Svc", "Client"})
  PROVE  /\ \E at : Inside(at, d) \in ServiceEnds(app, Get(d, "service"))
         /\ SameTypes(ServiceEnds(app, Get(d, "service")))
<1>1. PICK i \in DOMAIN app.nodes : \E b \in Bound(app.nodes[i]) : b.d = d /\ d.kind \in {"Svc", "Client"}
  BY BoundSomewhere
<1>2. PICK b \in Bound(app.nodes[i]) : b.d = d /\ d.kind \in {"Svc", "Client"}
  BY <1>1
<1>3. NameTag[d.kind] = "service"
  BY <1>2, TagsOfNames
<1>4. Get(d, "service") \in Named(app, {"Svc", "Client"})
  BY <1>2, <1>3, NamesAreInTheGraph
<1>5. SameTypes(ServiceEnds(app, Get(d, "service")))
  BY <1>4 DEF Passed, HasErrors, ServiceErrors, ServiceEnds
<1>6. CASE d.kind = "Svc"
  BY <1>2, <1>3, <1>5, <1>6, EndsAreInTheGraph DEF ServiceEnds
<1>7. CASE d.kind = "Client"
  BY <1>2, <1>3, <1>5, <1>7, EndsAreInTheGraph DEF ServiceEnds
<1> QED
  BY <1>2, <1>6, <1>7

LEMMA TypesAreAgreed ==
  ASSUME NEW app, Passed(app)
  PROVE  TypesAgree(app, {"Pub", "Sub"}, "topic") /\ TypesAgree(app, {"Svc", "Client"}, "service")
<1>1. ASSUME NEW d \in BoundDecls(app, {"Pub", "Sub"}), NEW e \in BoundDecls(app, {"Pub", "Sub"}),
             Get(d, "topic") = Get(e, "topic")
      PROVE  d.types = e.types
  <2>1. PICK at : Inside(at, d) \in TopicEnds(app, Get(d, "topic"))
    BY TopicsAreAlike
  <2>2. PICK to : Inside(to, e) \in TopicEnds(app, Get(d, "topic"))
    BY <1>1, TopicsAreAlike
  <2>3. SameTypes(TopicEnds(app, Get(d, "topic")))
    BY TopicsAreAlike
  <2> QED
    BY <2>1, <2>2, <2>3, EndsAreAlike
<1>2. ASSUME NEW d \in BoundDecls(app, {"Svc", "Client"}), NEW e \in BoundDecls(app, {"Svc", "Client"}),
             Get(d, "service") = Get(e, "service")
      PROVE  d.types = e.types
  <2>1. PICK at : Inside(at, d) \in ServiceEnds(app, Get(d, "service"))
    BY ServicesAreAlike
  <2>2. PICK to : Inside(to, e) \in ServiceEnds(app, Get(d, "service"))
    BY <1>2, ServicesAreAlike
  <2>3. SameTypes(ServiceEnds(app, Get(d, "service")))
    BY ServicesAreAlike
  <2> QED
    BY <2>1, <2>2, <2>3, EndsAreAlike
<1> QED
  BY <1>1, <1>2 DEF TypesAgree

\* Two frames that endpoints name connect: both are in the tree, and it is one.
LEMMA FramesAreConnected ==
  ASSUME NEW app, Passed(app)
  PROVE  FramesConnect(app)
<1> DEFINE tree == Tree(app)
<1> SUFFICES ASSUME NEW d \in BoundDecls(app, {"Pub", "Sub"}), NEW e \in BoundDecls(app, {"Pub", "Sub"}),
                    Frame(d) # NoText, Frame(e) # NoText
             PROVE  Connects(tree, Frame(d), Frame(e))
  BY DEF FramesConnect
<1>1. ASSUME NEW x \in BoundDecls(app, {"Pub", "Sub"}), Frame(x) # NoText
      PROVE  Has(tree, Frame(x))
  <2>1. PICK i \in DOMAIN app.nodes : \E b \in Bound(app.nodes[i]) : b.d = x /\ x.kind \in {"Pub", "Sub"}
    BY BoundSomewhere
  <2>2. PICK b \in Bound(app.nodes[i]) : b.d = x /\ x.kind \in {"Pub", "Sub"}
    BY <2>1
  <2>3. x \in Decls(app, {"Sub", "Pub"})
    BY <2>2, DeclsAreFound DEF Passed
  <2> QED
    BY <1>1, <2>3 DEF Passed, HasErrors, FrameErrors
<1>2. Frame(d) \in FramesOf(tree) /\ Frame(e) \in FramesOf(tree)
  BY <1>1 DEF Has
<1>3. Check(tree) = {}
  BY DEF Passed, HasErrors, FrameErrors
<1>4. tree \in Seq(ToSet(tree))
  <2>1. CASE app.frames = {}
    BY <2>1, EmptySeq DEF Tree
  <2>2. CASE app.frames # {}
    <3>1. tree \in app.frames
      BY <2>2 DEF Tree
    <3> QED
      BY <3>1 DEF Passed, IsApp, IsList
  <2> QED
    BY <2>1, <2>2
<1> HIDE DEF tree
<1>5. IsTree(tree)
  BY <1>3, <1>4, TreesPassAlone
<1> QED
  BY <1>2, <1>4, <1>5, TreesConnect

LEMMA TreeGetsPublished ==
  ASSUME NEW app, Passed(app)
  PROVE  TreeIsPublished(app)
<1> DEFINE hasTF == [i \in DOMAIN app.nodes |-> \E b \in Bound(app.nodes[i]) : b.d.kind = "TF"]
           nodes == {i \in DOMAIN hasTF : hasTF[i]}
<1>1. nodes = {i \in DOMAIN app.nodes : \E b \in Bound(app.nodes[i]) : b.d.kind = "TF"}
  OBVIOUS
<1>2. Decls(app, {"TF"}) # {} <=> nodes # {}
  <2>1. ASSUME NEW i \in nodes
        PROVE  Decls(app, {"TF"}) # {}
    <3>1. PICK b \in Bound(app.nodes[i]) : b.d.kind = "TF"
      BY <1>1, <2>1
    <3>2. i \in DOMAIN app.nodes
      BY <2>1
    <3> QED
      BY <3>1, <3>2, DeclsAreFound DEF Passed
  <2>2. ASSUME NEW d \in Decls(app, {"TF"})
        PROVE  nodes # {}
    <3>1. PICK i \in DOMAIN app.nodes : d \in DeclsOf(app.nodes[i], {"TF"})
      BY DEF Decls
    <3>2. PICK j \in DOMAIN app.nodes[i].decls : d = app.nodes[i].decls[j] /\ d.kind = "TF"
      BY <3>1 DEF DeclsOf, Scanned
    <3> DEFINE b == [d |-> d, f |-> Field(d)]
    <3>3. b \in Bound(app.nodes[i]) /\ b.d = d
      BY <3>2, FieldsAreBound DEF Passed
    <3> HIDE DEF b
    <3> QED
      BY <1>1, <3>2, <3>3
  <2> QED
    BY <2>1, <2>2
<1>3. nodes \in SUBSET Nat /\ 0 \notin nodes
  <2>1. app.nodes \in Seq(ToSet(app.nodes))
    BY DEF Passed, IsApp, IsList
  <2>2. DOMAIN app.nodes = 1..Len(app.nodes) /\ Len(app.nodes) \in Nat
    BY <2>1, LenProperties
  <2> QED
    BY <2>2
<1> HIDE DEF nodes
<1>4. nodes # {} => Min(nodes) # 0
  BY <1>3, LeastIsMin
<1>5. bindTF(Tree(app), hasTF) = IF nodes = {} \/ Published(Tree(app)) = <<>> THEN 0 ELSE Min(nodes)
  BY DEF bindTF, nodes
<1> HIDE DEF hasTF
<1>6. bindTF(Tree(app), hasTF) # 0 <=> Decls(app, {"TF"}) # {} /\ Published(Tree(app)) # <<>>
  BY <1>2, <1>4, <1>5
<1> QED
  BY <1>6 DEF TreeIsPublished, hasTF

\* What the scanner's walk over the steps has marked (markReachable), round by round.
LEMMA StepsAreMarked ==
  ASSUME NEW n, Cardinality(Steps(n)) \in Nat
  PROVE  /\ markReachable(n)[0] = {MissionStart(n)} \cap Declared(n)
         /\ \A k \in 1..Cardinality(Steps(n)) : markReachable(n)[k] = Further(n, markReachable(n)[k - 1])
<1> DEFINE start == {MissionStart(n)} \cap Declared(n)
           Upto(m, g) == g = [k \in 0..m |-> IF k = 0 THEN start ELSE Further(n, g[k - 1])]
           S == {m \in Nat : \E g : Upto(m, g)}
           N == Cardinality(Steps(n))
<1>0. N \in Nat
  OBVIOUS
<1>1. 0 \in S
  <2>1. Upto(0, [k \in 0..0 |-> start])
    OBVIOUS
  <2> QED
    BY <2>1
<1> HIDE DEF N, start
<1>2. \A m \in Nat : m < N /\ m \in S => m + 1 \in S
  <2> SUFFICES ASSUME NEW m \in Nat, m \in S
               PROVE  m + 1 \in S
    OBVIOUS
  <2>1. PICK g : Upto(m, g)
    OBVIOUS
  <2> DEFINE h == [k \in 0..(m + 1) |-> IF k = m + 1 THEN Further(n, g[m]) ELSE g[k]]
  <2>2. ASSUME NEW k \in 0..(m + 1)
        PROVE  h[k] = IF k = 0 THEN start ELSE Further(n, h[k - 1])
    <3>1. CASE k = m + 1
      BY <3>1
    <3>2. CASE k \in 0..m
      <4>1. g[k] = IF k = 0 THEN start ELSE Further(n, g[k - 1])
        BY <2>1, <3>2
      <4>2. h[k] = g[k] /\ (k # 0 => h[k - 1] = g[k - 1])
        BY <3>2
      <4> QED
        BY <4>1, <4>2
    <3> QED
      BY <3>1, <3>2
  <2> HIDE DEF h
  <2>3. Upto(m + 1, h)
    BY <2>2 DEF h
  <2> QED
    BY <2>3
<1> HIDE DEF S
<1>4. N \in S
  BY <1>0, <1>1, <1>2, Induct
<1>5. PICK g : Upto(N, g)
  BY <1>4 DEF S
<1>6. markReachable(n) = [k \in 0..N |-> IF k = 0 THEN start ELSE Further(n, markReachable(n)[k - 1])]
  BY <1>5 DEF markReachable, N, start
<1>7. markReachable(n)[0] = start /\ \A k \in 1..N : markReachable(n)[k] = Further(n, markReachable(n)[k - 1])
  BY <1>0, <1>6
<1> QED
  BY <1>7 DEF N, start

\* A node has finitely many steps, and no more names of steps than steps.
LEMMA FewSteps ==
  ASSUME NEW T, NEW n, n.decls \in Seq(T)
  PROVE  /\ IsFiniteSet(Steps(n)) /\ IsFiniteSet(Declared(n))
         /\ Cardinality(Declared(n)) <= Cardinality(Steps(n))
         /\ Cardinality(Steps(n)) \in Nat /\ Cardinality(Declared(n)) \in Nat
<1>1. Len(n.decls) \in Nat /\ DOMAIN n.decls = 1..Len(n.decls)
  BY LenProperties
<1>2. IsFiniteSet(1..Len(n.decls))
  <2>1. 1 \in Int /\ Len(n.decls) \in Int
    BY <1>1
  <2> QED
    BY <2>1, FS_Interval, Zenon
<1> DEFINE at == Scanned(n, {"Step"})
           c == [j \in at |-> n.decls[j]]
           f == [s \in Steps(n) |-> Field(s).field]
<1>3. at \subseteq 1..Len(n.decls)
  BY <1>1 DEF Scanned
<1>4. c \in Surjection(at, Steps(n)) /\ f \in Surjection(Steps(n), Declared(n))
  BY DEF Surjection, Steps, DeclsOf, Declared
<1> HIDE DEF at, c, f
<1>5. IsFiniteSet(at)
  BY <1>2, <1>3, FS_Subset
<1>6. IsFiniteSet(Steps(n))
  BY <1>4, <1>5, FS_Surjection
<1>7. IsFiniteSet(Declared(n)) /\ Cardinality(Declared(n)) <= Cardinality(Steps(n))
  BY <1>4, <1>6, FS_Surjection
<1> QED
  BY <1>6, <1>7, FS_CardinalityType

\* Each round that marks anything marks one step more, so the last marks nothing: the
\* rounds are enough.
LEMMA MarksAreEnough ==
  ASSUME NEW T, NEW n, n.decls \in Seq(T), MissionStart(n) \in Declared(n)
  PROVE  MissionStart(n) \in Reachable(n) /\ Further(n, Reachable(n)) = Reachable(n)
<1> DEFINE N == Cardinality(Steps(n))
           D == Declared(n)
           M(k) == markReachable(n)[k]
           Good(k) == /\ M(k) \subseteq D /\ MissionStart(n) \in M(k)
                      /\ Further(n, M(k)) = M(k) \/ Cardinality(M(k)) >= k + 1
           S == {k \in Nat : Good(k)}
<1>1. N \in Nat /\ IsFiniteSet(D) /\ Cardinality(D) <= N /\ Cardinality(D) \in Nat
  BY FewSteps
<1>2. M(0) = {MissionStart(n)} \cap D /\ \A k \in 1..N : M(k) = Further(n, M(k - 1))
  BY <1>1, StepsAreMarked
<1> HIDE DEF N, D, M
<1>3. M(0) = {MissionStart(n)} /\ M(0) \subseteq D
  BY <1>2 DEF D
<1>4. Cardinality(M(0)) = 1
  BY <1>3, FS_Singleton
<1>5. 0 \in S
  BY <1>3, <1>4
<1>6. \A k \in Nat : k < N /\ k \in S => k + 1 \in S
  <2> SUFFICES ASSUME NEW k \in Nat, k < N, Good(k)
               PROVE  Good(k + 1)
    OBVIOUS
  <2>1. k + 1 \in 1..N /\ (k + 1) - 1 = k
    BY <1>1
  <2>2. M(k + 1) = Further(n, M(k))
    BY <1>2, <2>1
  <2>3. M(k) \subseteq M(k + 1) /\ M(k + 1) \subseteq D
    BY <2>2 DEF Further, D
  <2>4. CASE Further(n, M(k)) = M(k)
    BY <2>2, <2>3, <2>4
  <2>5. CASE Further(n, M(k)) # M(k)
    <3>1. Cardinality(M(k)) >= k + 1
      BY <2>5
    <3>2. IsFiniteSet(M(k)) /\ IsFiniteSet(M(k + 1))
      BY <1>1, <2>3, FS_Subset
    <3>3. Cardinality(M(k)) < Cardinality(M(k + 1))
      <4>1. M(k) # M(k + 1)
        BY <2>2, <2>5
      <4>2. Cardinality(M(k)) <= Cardinality(M(k + 1)) /\ Cardinality(M(k)) # Cardinality(M(k + 1))
        BY <2>3, <3>2, <4>1, FS_Subset
      <4>3. Cardinality(M(k)) \in Nat /\ Cardinality(M(k + 1)) \in Nat
        BY <3>2, FS_CardinalityType
      <4> QED
        BY <4>2, <4>3
    <3>4. Cardinality(M(k)) \in Nat /\ Cardinality(M(k + 1)) \in Nat
      BY <3>2, FS_CardinalityType
    <3>5. Cardinality(M(k + 1)) >= (k + 1) + 1
      BY <3>1, <3>3, <3>4
    <3> QED
      BY <2>3, <3>5
  <2> QED
    BY <2>4, <2>5
<1>7. N \in S
  <2> HIDE DEF S
  <2> QED
    BY <1>1, <1>5, <1>6, Induct
<1>8. Good(N)
  BY <1>7
<1>9. Further(n, M(N)) = M(N)
  <2>1. IsFiniteSet(M(N)) /\ Cardinality(M(N)) <= Cardinality(D)
    BY <1>1, <1>8, FS_Subset
  <2>2. Cardinality(M(N)) \in Nat
    BY <2>1, FS_CardinalityType
  <2> QED
    BY <1>1, <1>8, <2>1, <2>2
<1> QED
  BY <1>8, <1>9 DEF M, N, Reachable

\* What is marked is closed under the moves of a mission that passed.
LEMMA MissionStepsAreReached ==
  ASSUME NEW app, Passed(app), NEW i \in DOMAIN app.nodes, Missions(app.nodes[i]) # {}
  PROVE  StepsAreReached(app.nodes[i])
<1> DEFINE n == app.nodes[i]
<1>1. n.decls \in Seq(ToSet(n.decls))
  BY DEF Passed, IsApp, IsList
<1>2. /\ MissionStart(n) \in Declared(n)
      /\ \A s \in Steps(n) : Targets(s) \subseteq Declared(n) \cup StepEnds
  BY DEF Passed, HasErrors, MissionErrors
<1> HIDE DEF n
<1>3. MissionStart(n) \in Reachable(n) /\ Further(n, Reachable(n)) = Reachable(n)
  BY <1>1, <1>2, MarksAreEnough
<1>4. ASSUME NEW s \in Steps(n), Field(s).field \in Reachable(n)
      PROVE  ({NextStep(s), Get(s, "fail")} \cup s.calls) \ (StepEnds \cup {NoText}) \subseteq Reachable(n)
  <2>1. Declared(n) \cap Targets(s) \subseteq Further(n, Reachable(n))
    BY <1>4 DEF Further
  <2> QED
    BY <1>2, <1>3, <2>1 DEF Targets
<1> QED
  BY <1>3, <1>4 DEF StepsAreReached, n

\* An application that passes the check and is written as the scanner reads it
\* starts, and what it was checked for holds of it.
LEMMA CheckedAppsStart ==
  ASSUME NEW app, IsApp(app)
  PROVE  HoldsUp(app)
<1> SUFFICES ASSUME Passed(app)
             PROVE  /\ StartsUp(app)
                    /\ TypesAgree(app, {"Pub", "Sub"}, "topic") /\ TypesAgree(app, {"Svc", "Client"}, "service")
                    /\ FramesConnect(app) /\ TreeIsPublished(app)
                    /\ \A i \in DOMAIN app.nodes :
                         Missions(app.nodes[i]) # {} => StepsAreReached(app.nodes[i])
  BY DEF HoldsUp, Passed
<1> QED
  BY AppsStart, TypesAreAgreed, FramesAreConnected, TreeGetsPublished, MissionStepsAreReached

-----------------------------------------------------------------------------
(* Lists.                                                                    *)

\* The places of a list are the numbers up to its length.
LEMMA ListLen ==
  ASSUME NEW a, IsList(a)
  PROVE  Len(a) \in Nat /\ DOMAIN a = 1..Len(a) /\ \A i \in 1..Len(a) : a[i] \in ToSet(a)
BY LenProperties DEF IsList, ToSet

\* Two lists one after the other.
LEMMA ListsJoin ==
  ASSUME NEW a, NEW b, IsList(a), IsList(b)
  PROVE  /\ IsList(a \o b) /\ ToSet(a \o b) = ToSet(a) \cup ToSet(b)
         /\ Len(a \o b) = Len(a) + Len(b)
         /\ \A i \in 1..Len(a) : (a \o b)[i] = a[i]
         /\ \A i \in 1..Len(b) : (a \o b)[Len(a) + i] = b[i]
<1> DEFINE T == ToSet(a) \cup ToSet(b)
           m == Len(a)
           n == Len(b)
           c == a \o b
<1>1. a \in Seq(T) /\ b \in Seq(T)
  BY SeqMonotonic DEF IsList
<1>2. m \in Nat /\ n \in Nat /\ DOMAIN a = 1..m /\ DOMAIN b = 1..n
  BY ListLen
<1>3. c \in Seq(T) /\ Len(c) = m + n /\ \A i \in 1..(m + n) : c[i] = IF i <= m THEN a[i] ELSE b[i - m]
  BY <1>1, ConcatProperties
<1>4. DOMAIN c = 1..(m + n)
  BY <1>3, LenProperties
<1> HIDE DEF c, m, n, T
<1>5. \A i \in 1..m : c[i] = a[i]
  BY <1>2, <1>3
<1>6. \A i \in 1..n : c[m + i] = b[i]
  <2> SUFFICES ASSUME NEW i \in 1..n PROVE c[m + i] = b[i]
    OBVIOUS
  <2>1. m + i \in 1..(m + n) /\ ~(m + i <= m) /\ (m + i) - m = i
    BY <1>2
  <2> QED
    BY <1>3, <2>1
<1>7. ToSet(c) = ToSet(a) \cup ToSet(b)
  <2>1. ASSUME NEW i \in 1..(m + n) PROVE c[i] \in ToSet(a) \cup ToSet(b)
    <3>1. CASE i <= m
      BY <1>2, <1>3, <3>1 DEF ToSet
    <3>2. CASE ~(i <= m)
      <4>1. i - m \in 1..n
        BY <1>2, <3>2
      <4> QED
        BY <1>2, <1>3, <3>2, <4>1 DEF ToSet
    <3> QED
      BY <3>1, <3>2
  <2>2. \A i \in 1..m : i \in 1..(m + n)
    BY <1>2
  <2>3. \A i \in 1..n : m + i \in 1..(m + n)
    BY <1>2
  <2>4. ToSet(c) \subseteq ToSet(a) \cup ToSet(b)
    BY <1>4, <2>1 DEF ToSet
  <2>5. \A i \in 1..m : a[i] \in ToSet(c)
    BY <1>4, <1>5, <2>2 DEF ToSet
  <2>6. \A i \in 1..n : b[i] \in ToSet(c)
    BY <1>4, <1>6, <2>3 DEF ToSet
  <2>7. ToSet(a) \cup ToSet(b) \subseteq ToSet(c)
    BY <1>2, <2>5, <2>6 DEF ToSet
  <2> QED
    BY <2>4, <2>7
<1>8. c \in Seq(ToSet(c))
  <2>1. T = ToSet(c)
    BY <1>7 DEF T
  <2> QED
    BY <1>3, <2>1
<1> QED
  BY <1>3, <1>5, <1>6, <1>7, <1>8 DEF c, m, n, IsList

LEMMA ListOfNone == IsList(<<>>) /\ ToSet(<<>>) = {} /\ Len(<<>>) = 0
BY EmptySeq DEF IsList, ToSet

LEMMA ListOfOne == ASSUME NEW x PROVE IsList(<<x>>) /\ ToSet(<<x>>) = {x} /\ Len(<<x>>) = 1 /\ <<x>>[1] = x
BY DEF IsList, ToSet

\* A function on the first numbers is a list.
LEMMA ListMade ==
  ASSUME NEW n \in Nat, NEW f, f = [i \in 1..n |-> f[i]]
  PROVE  IsList(f) /\ Len(f) = n /\ ToSet(f) = {f[i] : i \in 1..n} /\ DOMAIN f = 1..n
<1>1. DOMAIN f = 1..n
  OBVIOUS
<1>2. ToSet(f) = {f[i] : i \in 1..n}
  BY <1>1 DEF ToSet
<1>3. f \in [1..n -> ToSet(f)]
  BY <1>1, <1>2
<1>4. f \in Seq(ToSet(f))
  BY <1>3, SeqDef
<1>5. Len(f) = n
  BY <1>1, <1>4
<1> QED
  BY <1>1, <1>2, <1>4, <1>5 DEF IsList

-----------------------------------------------------------------------------
\* Filtering goes through the list place by place.
LEMMA AmongSteps ==
  ASSUME NEW s, IsList(s), NEW S
  PROVE  /\ AmongFirst(s, S)[0] = <<>>
         /\ \A i \in 1..Len(s) : AmongFirst(s, S)[i] =
              IF s[i] \in S THEN Append(AmongFirst(s, S)[i - 1], s[i]) ELSE AmongFirst(s, S)[i - 1]
<1> DEFINE Then1(e, x) == IF x \in S THEN Append(e, x) ELSE e
           Done(n, g) == g = [i \in 0..n |-> IF i = 0 THEN <<>> ELSE Then1(g[i - 1], s[i])]
           K == {n \in Nat : \E g : Done(n, g)}
<1> HIDE DEF Then1
<1>1. 0 \in K
  <2>1. Done(0, [i \in 0..0 |-> <<>>])
    OBVIOUS
  <2> QED
    BY <2>1
<1>2. \A k \in Nat : k < Len(s) /\ k \in K => k + 1 \in K
  <2> SUFFICES ASSUME NEW k \in Nat, k \in K
               PROVE  k + 1 \in K
    OBVIOUS
  <2>1. PICK g : Done(k, g)
    OBVIOUS
  <2> DEFINE h == [i \in 0..(k + 1) |-> IF i = k + 1 THEN Then1(g[k], s[i]) ELSE g[i]]
  <2>2. ASSUME NEW i \in 0..(k + 1)
        PROVE  h[i] = IF i = 0 THEN <<>> ELSE Then1(h[i - 1], s[i])
    <3>1. CASE i = k + 1
      BY <3>1
    <3>2. CASE i \in 0..k
      <4>1. g[i] = IF i = 0 THEN <<>> ELSE Then1(g[i - 1], s[i])
        BY <2>1, <3>2
      <4>2. h[i] = g[i] /\ (i # 0 => h[i - 1] = g[i - 1])
        BY <3>2
      <4> QED
        BY <4>1, <4>2
    <3> QED
      BY <3>1, <3>2
  <2> HIDE DEF h
  <2>3. Done(k + 1, h)
    BY <2>2 DEF h
  <2> QED
    BY <2>3
<1> HIDE DEF K
<1>3. Len(s) \in Nat
  BY ListLen
<1>4. Len(s) \in K
  BY <1>1, <1>2, <1>3, Induct
<1>5. PICK g : Done(Len(s), g)
  BY <1>4 DEF K
<1>6. AmongFirst(s, S) = [i \in 0..Len(s) |-> IF i = 0 THEN <<>> ELSE Then1(AmongFirst(s, S)[i - 1], s[i])]
  BY <1>5 DEF AmongFirst, Then1
<1>7. /\ AmongFirst(s, S)[0] = <<>>
      /\ \A i \in 1..Len(s) : AmongFirst(s, S)[i] = Then1(AmongFirst(s, S)[i - 1], s[i])
  BY <1>3, <1>6
<1> QED
  BY <1>7 DEF Then1

\* What is left of a list is a list.
LEMMA AmongIsList ==
  ASSUME NEW s, IsList(s), NEW S
  PROVE  IsList(Among(s, S)) /\ ToSet(Among(s, S)) = ToSet(s) \cap S
<1> DEFINE T == ToSet(s)
           A(k) == AmongFirst(s, S)[k]
           Good(k) == A(k) \in Seq(T) /\ ToSet(A(k)) = {s[i] : i \in 1..k} \cap S
           K == {k \in Nat : Good(k)}
<1>1. Len(s) \in Nat /\ DOMAIN s = 1..Len(s) /\ \A i \in 1..Len(s) : s[i] \in T
  BY ListLen
<1>2. A(0) = <<>> /\ \A i \in 1..Len(s) : A(i) = IF s[i] \in S THEN Append(A(i - 1), s[i]) ELSE A(i - 1)
  BY AmongSteps
<1> HIDE DEF A, T
<1>3. 0 \in K
  <2>1. A(0) \in Seq(T)
    BY <1>2, EmptySeq
  <2>2. ToSet(A(0)) = {}
    BY <1>2, ListOfNone
  <2>3. {s[i] : i \in 1..0} = {}
    OBVIOUS
  <2> QED
    BY <2>1, <2>2, <2>3
<1>4. \A k \in Nat : k < Len(s) /\ k \in K => k + 1 \in K
  <2> SUFFICES ASSUME NEW k \in Nat, k < Len(s), Good(k)
               PROVE  Good(k + 1)
    OBVIOUS
  <2> DEFINE x == s[k + 1]
  <2>1. k + 1 \in 1..Len(s) /\ (k + 1) - 1 = k
    BY <1>1
  <2>2. x \in T /\ A(k + 1) = IF x \in S THEN Append(A(k), x) ELSE A(k)
    BY <1>1, <1>2, <2>1
  <2>3. {s[i] : i \in 1..(k + 1)} = {s[i] : i \in 1..k} \cup {x}
    OBVIOUS
  <2> HIDE DEF x
  <2>4. CASE x \in S
    <3> DEFINE e == <<x>>
    <3>1. A(k + 1) = A(k) \o e
      BY <2>2, <2>4, AppendIsConcat
    <3>2. IsList(A(k)) /\ IsList(e) /\ ToSet(e) = {x}
      BY SeqOfRange, ListOfOne, RangeEquality, LenProperties DEF IsList, ToSet
    <3> HIDE DEF e
    <3>3. ToSet(A(k + 1)) = ToSet(A(k)) \cup {x}
      BY <3>1, <3>2, ListsJoin
    <3>4. A(k + 1) \in Seq(T)
      BY <2>2, <2>4, AppendProperties
    <3> QED
      BY <2>3, <2>4, <3>3, <3>4
  <2>5. CASE x \notin S
    BY <2>2, <2>3, <2>5
  <2> QED
    BY <2>4, <2>5
<1> HIDE DEF K
<1>5. Len(s) \in K
  BY <1>1, <1>3, <1>4, Induct
<1>6. Good(Len(s))
  BY <1>5 DEF K
<1>7. ToSet(A(Len(s))) = T \cap S
  BY <1>1, <1>6 DEF T, ToSet
<1>8. A(Len(s)) \in Seq(ToSet(A(Len(s))))
  <2> DEFINE a == A(Len(s))
  <2>1. a \in Seq(T)
    BY <1>6
  <2> HIDE DEF a
  <2>2. Len(a) \in Nat /\ DOMAIN a = 1..Len(a) /\ a \in [1..Len(a) -> T]
    BY <2>1, LenProperties
  <2>3. a \in [1..Len(a) -> ToSet(a)]
    BY <2>2 DEF ToSet
  <2>4. a \in Seq(ToSet(a))
    BY <2>2, <2>3, SeqDef
  <2> QED
    BY <2>4 DEF a
<1> QED
  BY <1>7, <1>8 DEF A, T, Among, IsList

\* Filtering two lists one after the other.
LEMMA AmongTwo ==
  ASSUME NEW a, NEW b, IsList(a), IsList(b), NEW S
  PROVE  Among(a \o b, S) = Among(a, S) \o Among(b, S)
<1> DEFINE c == a \o b
           m == Len(a)
           n == Len(b)
           A(k) == AmongFirst(a, S)[k]
           B(k) == AmongFirst(b, S)[k]
           C(k) == AmongFirst(c, S)[k]
           T == ToSet(b) \cup ToSet(Among(a, S))
           Same == {k \in Nat : C(k) = A(k)}
           Good(k) == C(m + k) = A(m) \o B(k) /\ B(k) \in Seq(T)
           Both == {k \in Nat : Good(k)}
<1>1. /\ IsList(c) /\ Len(c) = m + n /\ m \in Nat /\ n \in Nat
      /\ \A i \in 1..m : c[i] = a[i]
      /\ \A i \in 1..n : c[m + i] = b[i]
  BY ListsJoin, ListLen
<1>2. A(0) = <<>> /\ \A i \in 1..m : A(i) = IF a[i] \in S THEN Append(A(i - 1), a[i]) ELSE A(i - 1)
  BY AmongSteps
<1>3. B(0) = <<>> /\ \A i \in 1..n : B(i) = IF b[i] \in S THEN Append(B(i - 1), b[i]) ELSE B(i - 1)
  BY AmongSteps
<1>4. C(0) = <<>> /\ \A i \in 1..(m + n) : C(i) = IF c[i] \in S THEN Append(C(i - 1), c[i]) ELSE C(i - 1)
  <2> HIDE DEF c, m, n
  <2> QED
    BY <1>1, AmongSteps
<1>5. A(m) = Among(a, S) /\ B(n) = Among(b, S) /\ C(m + n) = Among(c, S)
  BY <1>1 DEF Among
<1>6. A(m) \in Seq(T) /\ \A i \in 1..n : b[i] \in T
  <2>1. \A i \in 1..n : b[i] \in ToSet(b)
    BY ListLen
  <2>2. A(m) \in Seq(ToSet(Among(a, S)))
    BY <1>5, AmongIsList DEF IsList
  <2> QED
    BY <2>1, <2>2, SeqMonotonic
<1> HIDE DEF A, B, C, T, c, m, n
<1>7. m \in Same
  <2>1. 0 \in Same
    BY <1>2, <1>4
  <2>2. \A k \in Nat : k < m /\ k \in Same => k + 1 \in Same
    <3> SUFFICES ASSUME NEW k \in Nat, k < m, C(k) = A(k)
                 PROVE  C(k + 1) = A(k + 1)
      OBVIOUS
    <3>1. k + 1 \in 1..m /\ k + 1 \in 1..(m + n) /\ (k + 1) - 1 = k
      BY <1>1
    <3> QED
      BY <1>1, <1>2, <1>4, <3>1
  <2> HIDE DEF Same
  <2> QED
    BY <1>1, <2>1, <2>2, Induct
<1>8. n \in Both
  <2>1. 0 \in Both
    <3>1. m + 0 = m /\ C(m) = A(m)
      BY <1>1, <1>7
    <3>2. A(m) \o <<>> = A(m) /\ <<>> \in Seq(T)
      BY <1>6, ConcatEmptySeq, EmptySeq
    <3> QED
      BY <1>3, <3>1, <3>2
  <2>2. \A k \in Nat : k < n /\ k \in Both => k + 1 \in Both
    <3> SUFFICES ASSUME NEW k \in Nat, k < n, Good(k)
                 PROVE  Good(k + 1)
      OBVIOUS
    <3> DEFINE x == b[k + 1]
    <3>1. k + 1 \in 1..n /\ (k + 1) - 1 = k
      BY <1>1
    <3>2. m + (k + 1) \in 1..(m + n) /\ (m + (k + 1)) - 1 = m + k
      BY <1>1
    <3>3. x \in T /\ c[m + (k + 1)] = x
      BY <1>1, <1>6, <3>1
    <3>4. B(k + 1) = IF x \in S THEN Append(B(k), x) ELSE B(k)
      BY <1>3, <3>1
    <3>5. C(m + (k + 1)) = IF x \in S THEN Append(C(m + k), x) ELSE C(m + k)
      BY <1>4, <3>2, <3>3
    <3> HIDE DEF x
    <3>6. Append(A(m) \o B(k), x) = A(m) \o Append(B(k), x) /\ Append(B(k), x) \in Seq(T)
      <4> DEFINE e == <<x>>
      <4>1. e \in Seq(T)
        BY <3>3
      <4>2. Append(B(k), x) = B(k) \o e /\ Append(B(k), x) \in Seq(T)
        BY <3>3, AppendIsConcat, AppendProperties
      <4>3. A(m) \o B(k) \in Seq(T)
        BY <1>6, ConcatProperties
      <4>4. Append(A(m) \o B(k), x) = (A(m) \o B(k)) \o e
        BY <3>3, <4>3, AppendIsConcat
      <4> HIDE DEF e
      <4>5. (A(m) \o B(k)) \o e = A(m) \o (B(k) \o e)
        BY <1>6, <4>1, ConcatAssociative
      <4> QED
        BY <4>2, <4>4, <4>5
    <3> QED
      BY <3>4, <3>5, <3>6
  <2> HIDE DEF Both
  <2> QED
    BY <1>1, <2>1, <2>2, Induct
<1> QED
  BY <1>5, <1>8 DEF c

\* Nothing is lost of a list that is all wanted,
LEMMA AmongAll ==
  ASSUME NEW s, IsList(s), NEW S, ToSet(s) \subseteq S
  PROVE  Among(s, S) = s
<1> DEFINE A(k) == AmongFirst(s, S)[k]
           T == ToSet(s)
           Good(k) == A(k) \in Seq(T) /\ Len(A(k)) = k /\ \A i \in 1..k : A(k)[i] = s[i]
           K == {k \in Nat : Good(k)}
<1>1. Len(s) \in Nat /\ \A i \in 1..Len(s) : s[i] \in T
  BY ListLen
<1>2. A(0) = <<>> /\ \A i \in 1..Len(s) : A(i) = IF s[i] \in S THEN Append(A(i - 1), s[i]) ELSE A(i - 1)
  BY AmongSteps
<1> HIDE DEF A
<1>3. 0 \in K
  <2> HIDE DEF T
  <2>1. A(0) \in Seq(T) /\ Len(A(0)) = 0
    BY <1>2, EmptySeq
  <2>2. \A i \in 1..0 : A(0)[i] = s[i]
    OBVIOUS
  <2> QED
    BY <2>1, <2>2
<1>4. \A k \in Nat : k < Len(s) /\ k \in K => k + 1 \in K
  <2> SUFFICES ASSUME NEW k \in Nat, k < Len(s), Good(k)
               PROVE  Good(k + 1)
    OBVIOUS
  <2>1. k + 1 \in 1..Len(s) /\ (k + 1) - 1 = k
    BY <1>1
  <2>2. s[k + 1] \in T /\ A(k + 1) = Append(A(k), s[k + 1])
    BY <1>1, <1>2, <2>1
  <2> HIDE DEF T
  <2>3. /\ A(k + 1) \in Seq(T) /\ Len(A(k + 1)) = k + 1 /\ A(k + 1)[k + 1] = s[k + 1]
        /\ \A i \in 1..k : A(k + 1)[i] = A(k)[i]
    BY <2>2, AppendProperties
  <2> QED
    BY <2>3
<1> HIDE DEF K
<1>5. Len(s) \in K
  BY <1>1, <1>3, <1>4, Induct
<1>6. Good(Len(s))
  BY <1>5 DEF K
<1> HIDE DEF T
<1>7. s \in Seq(T)
  BY DEF T, IsList
<1>8. A(Len(s)) = s
  BY <1>6, <1>7, SeqEqual
<1> QED
  BY <1>8 DEF A, Among

\* and nothing is left of one that is not.
LEMMA AmongNone ==
  ASSUME NEW s, IsList(s), NEW S, ToSet(s) \cap S = {}
  PROVE  Among(s, S) = <<>>
<1>1. IsList(Among(s, S)) /\ ToSet(Among(s, S)) = {}
  BY AmongIsList
<1>2. Among(s, S) \in Seq({})
  BY <1>1 DEF IsList
<1>3. Among(s, S) # <<>> => Len(Among(s, S)) \in Nat \ {0}
  BY <1>2, EmptySeq
<1> QED
  BY <1>1, <1>3, ListLen

-----------------------------------------------------------------------------
(* Flags.                                                                    *)

\* A nonempty set of numbers up to one of them has a greatest.
LEMMA Greatest ==
  ASSUME NEW n \in Nat, NEW S, S \subseteq 1..n, S # {}
  PROVE  Max(S) \in S /\ \A i \in S : Max(S) >= i
<1> DEFINE R == {n - i : i \in S}
<1>1. R \subseteq Nat /\ R # {}
  <2>1. \A i \in S : i \in Nat /\ i <= n /\ n - i \in Nat
    OBVIOUS
  <2>2. R \subseteq Nat
    BY <2>1
  <2>3. PICK i \in S : TRUE
    OBVIOUS
  <2>4. n - i \in R
    BY <2>3
  <2> QED
    BY <2>2, <2>4
<1>2. PICK r \in R : \A q \in R : r <= q
  <2> HIDE DEF R
  <2> QED
    BY <1>1, Least
<1>3. PICK i \in S : r = n - i
  BY <1>2
<1>4. \A j \in S : i >= j
  <2> SUFFICES ASSUME NEW j \in S PROVE i >= j
    OBVIOUS
  <2>1. n - i <= n - j
    BY <1>2, <1>3
  <2> QED
    BY <2>1
<1> QED
  BY <1>4 DEF Max

\* What a list of flags gives a flag.
Said(flags, flag) == {x[2] : x \in {y \in ToSet(flags) : y[1] = flag}}

\* Two lists of flags one after the other say what each of them says.
LEMMA SaidByBoth ==
  ASSUME NEW a, NEW b, IsList(a), IsList(b), NEW f
  PROVE  Said(a \o b, f) = Said(a, f) \cup Said(b, f)
<1>1. ToSet(a \o b) = ToSet(a) \cup ToSet(b)
  BY ListsJoin
<1> QED
  BY <1>1 DEF Said

\* Its value is the one it is given.
LEMMA ValueSaid ==
  ASSUME NEW F, IsList(F), NEW f, NEW d
  PROVE  /\ Said(F, f) = {} => Value(F, f, d) = d
         /\ \A v : Said(F, f) = {v} => Value(F, f, d) = v
         /\ IsGiven(F, f) <=> Said(F, f) # {}
<1> DEFINE of == {i \in DOMAIN F : F[i][1] = f}
<1>1. Len(F) \in Nat /\ DOMAIN F = 1..Len(F)
  BY ListLen
<1>2. of \subseteq 1..Len(F)
  BY <1>1
<1>3. \A i \in of : F[i][2] \in Said(F, f)
  BY DEF Said, ToSet
<1>4. Said(F, f) # {} => of # {}
  BY DEF Said, ToSet
<1>5. Value(F, f, d) = IF of = {} THEN d ELSE F[Max(of)][2]
  BY DEF Value
<1>6. IsGiven(F, f) <=> Said(F, f) # {}
  BY DEF IsGiven, Said
<1> HIDE DEF of
<1>7. of # {} => Max(of) \in of
  BY <1>1, <1>2, Greatest
<1> QED
  BY <1>3, <1>4, <1>5, <1>6, <1>7

\* What one flag says,
LEMMA SaidOnce ==
  ASSUME NEW g, NEW v, NEW f
  PROVE  IsList(<<<<g, v>>>>) /\ Said(<<<<g, v>>>>, f) = IF f = g THEN {v} ELSE {}
<1> DEFINE x == <<g, v>>
<1>1. x[1] = g /\ x[2] = v
  OBVIOUS
<1> HIDE DEF x
<1>2. IsList(<<x>>) /\ ToSet(<<x>>) = {x}
  BY ListOfOne
<1>3. Said(<<x>>, f) = IF f = g THEN {v} ELSE {}
  BY <1>1, <1>2 DEF Said
<1> QED
  BY <1>2, <1>3 DEF x

\* what none says,
LEMMA SaidByNone == ASSUME NEW f PROVE IsList(<<>>) /\ Said(<<>>, f) = {}
BY ListOfNone DEF Said

\* One flag, when there is something to give it.
Once(ok, g, v, f) == IF ok /\ f = g THEN {v} ELSE {}

\* and what one says that is left out when there is nothing to say.
LEMMA SaidIfGiven ==
  ASSUME NEW g, NEW v, NEW f
  PROVE  IsList(Given(g, v)) /\ Said(Given(g, v), f) = Once(v # Unset, g, v, f)
BY SaidOnce, SaidByNone DEF Given, Once

LEMMA SaidIfServed ==
  ASSUME NEW g, NEW v, NEW f
  PROVE  IsList(GivenAddr(g, v)) /\ Said(GivenAddr(g, v), f) = Once(v # <<>>, g, v, f)
BY SaidOnce, SaidByNone DEF GivenAddr, Once

LEMMA SaidIfNamed ==
  ASSUME NEW g, NEW v, NEW f, NEW at
  PROVE  IsList(GivenFile(g, v, at)) /\ Said(GivenFile(g, v, at), f) = Once(v # NoFile, g, at, f)
BY SaidOnce, SaidByNone DEF GivenFile, Once

\* The flags of the transport, and that of tracing.
LEMMA SaidByTransport ==
  ASSUME NEW env, NEW f
  PROVE  /\ IsList(transportFlags(env))
         /\ Said(transportFlags(env), f) = Once(env.transport # Unset, "transport", env.transport, f)
              \cup Once(env.endpoint # Unset, "zenoh-endpoint", env.endpoint, f)
              \cup Once(env.domain # Unset, "domain", env.domain, f)
<1> DEFINE a == Given("transport", env.transport)
           b == Given("zenoh-endpoint", env.endpoint)
           c == Given("domain", env.domain)
<1>1. transportFlags(env) = (a \o b) \o c
  BY DEF transportFlags
<1>2. IsList(a) /\ Said(a, f) = Once(env.transport # Unset, "transport", env.transport, f)
  BY SaidIfGiven
<1>3. IsList(b) /\ Said(b, f) = Once(env.endpoint # Unset, "zenoh-endpoint", env.endpoint, f)
  BY SaidIfGiven
<1>4. IsList(c) /\ Said(c, f) = Once(env.domain # Unset, "domain", env.domain, f)
  BY SaidIfGiven
<1> HIDE DEF a, b, c
<1>5. IsList(a \o b) /\ Said(a \o b, f) = Said(a, f) \cup Said(b, f)
  BY <1>2, <1>3, ListsJoin, SaidByBoth
<1>6. IsList((a \o b) \o c) /\ Said((a \o b) \o c, f) = Said(a \o b, f) \cup Said(c, f)
  BY <1>4, <1>5, ListsJoin, SaidByBoth
<1> QED
  BY <1>1, <1>2, <1>3, <1>4, <1>5, <1>6

LEMMA SaidByTrace ==
  ASSUME NEW env, NEW f
  PROVE  IsList(traceFlag(env)) /\ Said(traceFlag(env), f) = Once(env.trace, "trace", TRUE, f)
<1>1. CASE env.trace
  BY <1>1, SaidOnce DEF traceFlag, Once
<1>2. CASE ~env.trace
  BY <1>2, SaidByNone DEF traceFlag, Once
<1> QED
  BY <1>1, <1>2

\* The parameter files, each as Where says it is found.
LEMMA SaidByParams ==
  ASSUME NEW files, IsList(files), NEW ps, DOMAIN ps = DOMAIN files,
         ps = [i \in DOMAIN files |-> ps[i]], \A i \in DOMAIN files : ps[i][1] = "params", NEW f
  PROVE  /\ IsList(ps)
         /\ Said(ps, f) = IF f = "params" THEN {ps[i][2] : i \in DOMAIN files} ELSE {}
<1>1. Len(files) \in Nat /\ DOMAIN files = 1..Len(files)
  BY ListLen
<1>2. IsList(ps)
  BY <1>1, ListMade
<1>3. Said(ps, f) = IF f = "params" THEN {ps[i][2] : i \in DOMAIN files} ELSE {}
  BY DEF Said, ToSet
<1> QED
  BY <1>2, <1>3

LEMMA SaidJoined ==
  ASSUME NEW a, NEW b, IsList(a), IsList(b), NEW f, NEW A, NEW B, Said(a, f) = A, Said(b, f) = B
  PROVE  IsList(a \o b) /\ Said(a \o b, f) = A \cup B
BY ListsJoin, SaidByBoth

SaidOfTransport(env, f) ==
  Once(env.transport # Unset, "transport", env.transport, f)
  \cup Once(env.endpoint # Unset, "zenoh-endpoint", env.endpoint, f)
  \cup Once(env.domain # Unset, "domain", env.domain, f)

SaidOfFiles(app, frames, groups, description, f) ==
  (Once(app.framesFile # NoFile, "frames", frames, f)
  \cup Once(app.groupsFile # NoFile, "groups", groups, f))
  \cup Once(app.descriptionFile # NoFile, "description", description, f)

\* Adding the files (GivenFile).
LEMMA SaidWithFiles ==
  ASSUME NEW app, NEW frames, NEW groups, NEW description, NEW a, IsList(a), NEW f
  PROVE  LET b == ((a \o GivenFile("frames", app.framesFile, frames))
                   \o GivenFile("groups", app.groupsFile, groups))
                  \o GivenFile("description", app.descriptionFile, description)
         IN  IsList(b) /\ Said(b, f) = Said(a, f) \cup SaidOfFiles(app, frames, groups, description, f)
<1> DEFINE x == GivenFile("frames", app.framesFile, frames)
           y == GivenFile("groups", app.groupsFile, groups)
           z == GivenFile("description", app.descriptionFile, description)
           X == Once(app.framesFile # NoFile, "frames", frames, f)
           Y == Once(app.groupsFile # NoFile, "groups", groups, f)
           Z == Once(app.descriptionFile # NoFile, "description", description, f)
<1>1. IsList(x) /\ Said(x, f) = X
  BY SaidIfNamed
<1>2. IsList(y) /\ Said(y, f) = Y
  BY SaidIfNamed
<1>3. IsList(z) /\ Said(z, f) = Z
  BY SaidIfNamed
<1>4. SaidOfFiles(app, frames, groups, description, f) = (X \cup Y) \cup Z
  BY DEF SaidOfFiles
<1> HIDE DEF x, y, z, X, Y, Z
<1>5. IsList(a \o x) /\ Said(a \o x, f) = Said(a, f) \cup X
  BY <1>1, SaidJoined
<1>6. IsList((a \o x) \o y) /\ Said((a \o x) \o y, f) = (Said(a, f) \cup X) \cup Y
  BY <1>2, <1>5, SaidJoined
<1>7. IsList(((a \o x) \o y) \o z) /\ Said(((a \o x) \o y) \o z, f) = ((Said(a, f) \cup X) \cup Y) \cup Z
  BY <1>3, <1>6, SaidJoined
<1> QED
  BY <1>4, <1>7 DEF x, y, z

\* What the flags of a unit say.
SaidOfParams(S, f) == IF f = "params" THEN S ELSE {}
ToldInside(app) == {InRelease(BaseName(app.env.params[i])) : i \in DOMAIN app.env.params}
ToldOutside(app) == {InSources(app.env.params[i]) : i \in DOMAIN app.env.params}

LEMMA SaidByUnits ==
  ASSUME NEW app, app.env # NoEnv, IsList(app.env.params), NEW f
  PROVE  /\ IsList(runtimeFlags(app))
         /\ Said(runtimeFlags(app), f) =
              (((SaidOfTransport(app.env, f) \cup Once(TRUE, "params", InRelease("params.yaml"), f))
                \cup SaidOfParams(ToldInside(app), f))
               \cup SaidOfFiles(app, InRelease("frames.json"), InRelease("groups.json"),
                                InRelease(BaseName(app.descriptionFile)), f))
              \cup Once(app.env.trace, "trace", TRUE, f)
<1> DEFINE t == transportFlags(app.env)
           g == <<<<"params", InRelease("params.yaml")>>>>
           p == [i \in DOMAIN app.env.params |-> <<"params", InRelease(BaseName(app.env.params[i]))>>]
           r == traceFlag(app.env)
           b == (((t \o g) \o p) \o GivenFile("frames", app.framesFile, InRelease("frames.json")))
                \o GivenFile("groups", app.groupsFile, InRelease("groups.json"))
           c == b \o GivenFile("description", app.descriptionFile, InRelease(BaseName(app.descriptionFile)))
           T == SaidOfTransport(app.env, f)
           G == Once(TRUE, "params", InRelease("params.yaml"), f)
           P == SaidOfParams(ToldInside(app), f)
           L == SaidOfFiles(app, InRelease("frames.json"), InRelease("groups.json"),
                            InRelease(BaseName(app.descriptionFile)), f)
           R == Once(app.env.trace, "trace", TRUE, f)
<1>1. runtimeFlags(app) = c \o r
  BY DEF runtimeFlags, GivenFile
<1>2. IsList(t) /\ Said(t, f) = T
  BY SaidByTransport DEF SaidOfTransport
<1>3. IsList(g) /\ Said(g, f) = G
  BY SaidOnce DEF Once
<1>4. IsList(p) /\ Said(p, f) = P
  <2>1. /\ DOMAIN p = DOMAIN app.env.params /\ p = [i \in DOMAIN app.env.params |-> p[i]]
        /\ \A i \in DOMAIN app.env.params : p[i][1] = "params"
    OBVIOUS
  <2>2. {p[i][2] : i \in DOMAIN app.env.params} = ToldInside(app)
    BY DEF ToldInside
  <2> HIDE DEF p, P
  <2>3. IsList(p) /\ Said(p, f) = IF f = "params" THEN {p[i][2] : i \in DOMAIN app.env.params} ELSE {}
    BY <2>1, SaidByParams
  <2> QED
    BY <2>2, <2>3 DEF SaidOfParams, P
<1>5. IsList(r) /\ Said(r, f) = R
  BY SaidByTrace
<1> HIDE DEF t, g, p, r, T, G, P, R
<1>6. IsList(t \o g) /\ Said(t \o g, f) = T \cup G
  BY <1>2, <1>3, SaidJoined
<1>7. IsList((t \o g) \o p) /\ Said((t \o g) \o p, f) = (T \cup G) \cup P
  BY <1>4, <1>6, SaidJoined
<1>8. IsList(c) /\ Said(c, f) = ((T \cup G) \cup P) \cup L
  <2> DEFINE d == (t \o g) \o p
  <2>1. IsList(d) /\ Said(d, f) = (T \cup G) \cup P
    BY <1>7
  <2> HIDE DEF d, L
  <2>2. LET e == ((d \o GivenFile("frames", app.framesFile, InRelease("frames.json")))
                  \o GivenFile("groups", app.groupsFile, InRelease("groups.json")))
                 \o GivenFile("description", app.descriptionFile, InRelease(BaseName(app.descriptionFile)))
        IN  IsList(e) /\ Said(e, f) = Said(d, f) \cup L
    BY <2>1, SaidWithFiles DEF L
  <2> QED
    BY <2>1, <2>2 DEF d
<1> HIDE DEF c, L
<1>9. IsList(c \o r) /\ Said(c \o r, f) = (((T \cup G) \cup P) \cup L) \cup R
  BY <1>5, <1>8, SaidJoined
<1> QED
  BY <1>1, <1>9 DEF T, G, P, L, R

\* Adding two addresses.
SaidOfServed(m, d, f) ==
  Once(m # <<>>, "metrics-addr", m, f) \cup Once(d # <<>>, "dashboard", d, f)

LEMMA SaidWithAddresses ==
  ASSUME NEW a, IsList(a), NEW m, NEW d, NEW f
  PROVE  LET b == (a \o GivenAddr("metrics-addr", m)) \o GivenAddr("dashboard", d)
         IN  IsList(b) /\ Said(b, f) = Said(a, f) \cup SaidOfServed(m, d, f)
<1> DEFINE x == GivenAddr("metrics-addr", m)
           y == GivenAddr("dashboard", d)
           X == Once(m # <<>>, "metrics-addr", m, f)
           Y == Once(d # <<>>, "dashboard", d, f)
<1>1. IsList(x) /\ Said(x, f) = X
  BY SaidIfServed
<1>2. IsList(y) /\ Said(y, f) = Y
  BY SaidIfServed
<1>3. SaidOfServed(m, d, f) = X \cup Y
  BY DEF SaidOfServed
<1> HIDE DEF x, y, X, Y
<1>4. IsList(a \o x) /\ Said(a \o x, f) = Said(a, f) \cup X
  BY <1>1, SaidJoined
<1>5. IsList((a \o x) \o y) /\ Said((a \o x) \o y, f) = (Said(a, f) \cup X) \cup Y
  BY <1>2, <1>4, SaidJoined
<1> QED
  BY <1>3, <1>5 DEF x, y

\* What the flags of a process under development say.
LEMMA SaidByFlags ==
  ASSUME NEW app, app.env # NoEnv, IsList(app.env.params), NEW f
  PROVE  /\ IsList(Flags(app))
         /\ Said(Flags(app), f) =
              (((SaidOfTransport(app.env, f) \cup SaidOfParams(ToldOutside(app), f))
                \cup SaidOfFiles(app, InSources(app.framesFile), InSources(app.groupsFile),
                                 InSources(app.descriptionFile), f))
               \cup SaidOfServed(app.env.metrics, app.env.dashboard, f))
              \cup Once(app.env.trace, "trace", TRUE, f)
<1> DEFINE t == transportFlags(app.env)
           p == [i \in DOMAIN app.env.params |-> <<"params", InSources(app.env.params[i])>>]
           r == traceFlag(app.env)
           d == t \o p
           e == ((d \o GivenFile("frames", app.framesFile, InSources(app.framesFile)))
                 \o GivenFile("groups", app.groupsFile, InSources(app.groupsFile)))
                \o GivenFile("description", app.descriptionFile, InSources(app.descriptionFile))
           h == (e \o GivenAddr("metrics-addr", app.env.metrics)) \o GivenAddr("dashboard", app.env.dashboard)
           T == SaidOfTransport(app.env, f)
           P == SaidOfParams(ToldOutside(app), f)
           L == SaidOfFiles(app, InSources(app.framesFile), InSources(app.groupsFile),
                            InSources(app.descriptionFile), f)
           A == SaidOfServed(app.env.metrics, app.env.dashboard, f)
           R == Once(app.env.trace, "trace", TRUE, f)
<1>1. Flags(app) = h \o r
  BY DEF Flags
<1>2. IsList(t) /\ Said(t, f) = T
  BY SaidByTransport DEF SaidOfTransport
<1>3. IsList(p) /\ Said(p, f) = P
  <2>1. /\ DOMAIN p = DOMAIN app.env.params /\ p = [i \in DOMAIN app.env.params |-> p[i]]
        /\ \A i \in DOMAIN app.env.params : p[i][1] = "params"
    OBVIOUS
  <2>2. {p[i][2] : i \in DOMAIN app.env.params} = ToldOutside(app)
    BY DEF ToldOutside
  <2> HIDE DEF p, P
  <2>3. IsList(p) /\ Said(p, f) = IF f = "params" THEN {p[i][2] : i \in DOMAIN app.env.params} ELSE {}
    BY <2>1, SaidByParams
  <2> QED
    BY <2>2, <2>3 DEF SaidOfParams, P
<1>4. IsList(r) /\ Said(r, f) = R
  BY SaidByTrace
<1> HIDE DEF t, p, r, T, P, R
<1>5. IsList(d) /\ Said(d, f) = T \cup P
  BY <1>2, <1>3, SaidJoined
<1> HIDE DEF d
<1>6. IsList(e) /\ Said(e, f) = Said(d, f) \cup L
  <2> HIDE DEF L
  <2>1. LET x == ((d \o GivenFile("frames", app.framesFile, InSources(app.framesFile)))
                  \o GivenFile("groups", app.groupsFile, InSources(app.groupsFile)))
                 \o GivenFile("description", app.descriptionFile, InSources(app.descriptionFile))
        IN  IsList(x) /\ Said(x, f) = Said(d, f) \cup L
    BY <1>5, SaidWithFiles DEF L
  <2> QED
    BY <2>1
<1> HIDE DEF e, L
<1>7. IsList(h) /\ Said(h, f) = Said(e, f) \cup A
  <2> HIDE DEF A
  <2>1. LET b == (e \o GivenAddr("metrics-addr", app.env.metrics))
                 \o GivenAddr("dashboard", app.env.dashboard)
        IN  IsList(b) /\ Said(b, f) = Said(e, f) \cup A
    BY <1>6, SaidWithAddresses DEF A
  <2> QED
    BY <2>1
<1> HIDE DEF h, A
<1>8. IsList(h \o r) /\ Said(h \o r, f) = (((T \cup P) \cup L) \cup A) \cup R
  BY <1>4, <1>5, <1>6, <1>7, SaidJoined
<1> QED
  BY <1>1, <1>8 DEF T, P, L, A, R

-----------------------------------------------------------------------------
(* The parameter files among them.                                           *)

\* Flags that name no parameter file but the generated one.
AddsNone(app, c) == IsList(c) /\ \A v \in Said(c, "params") : Content(app, v) = {Generated}
\* Flags that name those of ps, in that order.
LoadsThose(app, F, ps) == \E a, b : AddsNone(app, a) /\ AddsNone(app, b) /\ F = (a \o ps) \o b
AreFiles(app, ps) ==
  IsList(ps) /\ \A x \in ToSet(ps) : x[1] = "params" /\ Content(app, x[2]) # {Generated}

Regroups(a, b, c, d) == ((a \o b) \o c) \o d = (a \o b) \o (c \o d)

\* Where lists are joined first does not matter.
LEMMA ListsRegroup ==
  ASSUME NEW a, NEW b, NEW c, NEW d, IsList(a), IsList(b), IsList(c), IsList(d)
  PROVE  Regroups(a, b, c, d)
<1> DEFINE T == ToSet(a) \cup ToSet(b) \cup ToSet(c) \cup ToSet(d)
<1>1. a \in Seq(T) /\ b \in Seq(T) /\ c \in Seq(T) /\ d \in Seq(T)
  BY SeqMonotonic DEF IsList
<1> HIDE DEF T
<1>2. a \o b \in Seq(T)
  BY <1>1, ConcatProperties
<1>3. ASSUME NEW e \in Seq(T) PROVE (e \o c) \o d = e \o (c \o d)
  BY <1>1, ConcatAssociative
<1> QED
  BY <1>2, <1>3 DEF Regroups

\* Filtering keeps a part in the middle that is all wanted.
LEMMA AmongMiddle ==
  ASSUME NEW a, NEW b, NEW c, IsList(a), IsList(b), IsList(c), NEW S, ToSet(b) \subseteq S
  PROVE  Among((a \o b) \o c, S) = (Among(a, S) \o b) \o Among(c, S)
<1>1. Among(a \o b, S) = Among(a, S) \o Among(b, S)
  BY AmongTwo
<1>2. Among(b, S) = b
  BY AmongAll
<1>3. IsList(a \o b)
  BY ListsJoin
<1>4. ASSUME NEW d, IsList(d) PROVE Among(d \o c, S) = Among(d, S) \o Among(c, S)
  BY <1>4, AmongTwo
<1>5. Among((a \o b) \o c, S) = Among(a \o b, S) \o Among(c, S)
  BY <1>3, <1>4
<1> QED
  BY <1>1, <1>2, <1>5

\* Adding flags that name no file, after or before.
LEMMA LoadsMore ==
  ASSUME NEW app, NEW F, NEW ps, AreFiles(app, ps), LoadsThose(app, F, ps), NEW more, AddsNone(app, more)
  PROVE  LoadsThose(app, F \o more, ps)
<1>1. PICK x, y : AddsNone(app, x) /\ AddsNone(app, y) /\ F = (x \o ps) \o y
  BY DEF LoadsThose
<1>2. IsList(x) /\ IsList(y) /\ IsList(more) /\ IsList(ps)
  BY <1>1 DEF AddsNone, AreFiles
<1>3. Regroups(x, ps, y, more)
  BY <1>2, ListsRegroup
<1>4. IsList(y \o more)
  BY <1>2, ListsJoin
<1>5. AddsNone(app, y \o more)
  BY <1>1, <1>2, <1>4, SaidByBoth DEF AddsNone
<1>6. F \o more = (x \o ps) \o (y \o more)
  BY <1>1, <1>3 DEF Regroups
<1> QED
  BY <1>1, <1>5, <1>6 DEF LoadsThose

LEMMA LoadsFirst ==
  ASSUME NEW app, NEW ps, AreFiles(app, ps), NEW c, AddsNone(app, c)
  PROVE  LoadsThose(app, c \o ps, ps)
<1>1. AddsNone(app, <<>>)
  BY SaidByNone DEF AddsNone
<1>2. IsList(c \o ps)
  BY ListsJoin DEF AddsNone, AreFiles
<1>3. (c \o ps) \o <<>> = c \o ps
  BY <1>2, ConcatEmptySeq DEF IsList
<1> QED
  BY <1>1, <1>3 DEF LoadsThose

\* Leaving some flags out that are no files.
LEMMA LoadsAmong ==
  ASSUME NEW app, NEW F, NEW ps, AreFiles(app, ps), LoadsThose(app, F, ps), NEW S, ToSet(ps) \subseteq S
  PROVE  LoadsThose(app, Among(F, S), ps)
<1>1. PICK a, b : AddsNone(app, a) /\ AddsNone(app, b) /\ F = (a \o ps) \o b
  BY DEF LoadsThose
<1>2. IsList(a) /\ IsList(b) /\ IsList(ps) /\ IsList(a \o ps)
  BY <1>1, ListsJoin DEF AddsNone, AreFiles
<1>3. Among(F, S) = (Among(a, S) \o ps) \o Among(b, S)
  BY <1>1, <1>2, AmongMiddle
<1>4. ASSUME NEW c, AddsNone(app, c) PROVE AddsNone(app, Among(c, S))
  <2>1. IsList(Among(c, S)) /\ ToSet(Among(c, S)) \subseteq ToSet(c)
    BY <1>4, AmongIsList DEF AddsNone
  <2> QED
    BY <1>4, <2>1 DEF AddsNone, Said
<1> QED
  BY <1>1, <1>3, <1>4 DEF LoadsThose

\* And those are the files that are loaded.
LEMMA LoadedAre ==
  ASSUME NEW app, NEW F, NEW ps, AreFiles(app, ps), LoadsThose(app, F, ps)
  PROVE  Loaded(app, F) = [i \in DOMAIN ps |-> Content(app, ps[i][2])]
<1> DEFINE S == {f \in ToSet(F) : f[1] = "params" /\ Content(app, f[2]) # {Generated}}
<1>1. PICK a, b : AddsNone(app, a) /\ AddsNone(app, b) /\ F = (a \o ps) \o b
  BY DEF LoadsThose
<1>2. IsList(a) /\ IsList(b) /\ IsList(ps) /\ IsList(a \o ps)
  BY <1>1, ListsJoin DEF AddsNone, AreFiles
<1>3. ToSet(ps) \subseteq S
  <2>1. ToSet(ps) \subseteq ToSet(F)
    BY <1>1, <1>2, ListsJoin
  <2> QED
    BY <2>1 DEF AreFiles
<1>4. ToSet(a) \cap S = {} /\ ToSet(b) \cap S = {}
  BY <1>1 DEF AddsNone, Said
<1>5. Loaded(app, F) = [i \in DOMAIN Among(F, S) |-> Content(app, Among(F, S)[i][2])]
  BY DEF Loaded
<1> HIDE DEF S
<1>6. Among(F, S) = (<<>> \o ps) \o <<>>
  <2>1. Among(F, S) = (Among(a, S) \o ps) \o Among(b, S)
    BY <1>1, <1>2, <1>3, AmongMiddle
  <2>2. Among(a, S) = <<>> /\ Among(b, S) = <<>>
    BY <1>2, <1>4, AmongNone
  <2> QED
    BY <2>1, <2>2
<1>7. Among(F, S) = ps
  BY <1>2, <1>6, ConcatEmptySeq DEF IsList
<1> QED
  BY <1>5, <1>7

-----------------------------------------------------------------------------
(* What the stage holds.                                                     *)

\* The elements of two lists one after the other.
LEMMA ListsShowAll ==
  ASSUME NEW a, NEW b, IsList(a), IsList(b), NEW A, NEW B, ToSet(a) = A, ToSet(b) = B
  PROVE  IsList(a \o b) /\ ToSet(a \o b) = A \cup B
BY ListsJoin

\* A file when there is one, under a name.
IfAny(file, name) == IF file = NoFile THEN {} ELSE {<<name, file>>}
Renamed(app) == {<<BaseName(envParams(app)[i]), envParams(app)[i]>> : i \in DOMAIN envParams(app)}

\* What build writes (deploy.go).
LEMMA FilesWritten ==
  ASSUME NEW app, IsList(envParams(app))
  PROVE  /\ IsList(Written(app))
         /\ ToSet(Written(app)) =
              ((({<<"params.yaml", Generated>>} \cup Renamed(app)) \cup IfAny(app.framesFile, "frames.json"))
               \cup IfAny(app.groupsFile, "groups.json"))
              \cup IfAny(app.descriptionFile, BaseName(app.descriptionFile))
<1> DEFINE g == <<<<"params.yaml", Generated>>>>
           p == [i \in DOMAIN envParams(app) |-> <<BaseName(envParams(app)[i]), envParams(app)[i]>>]
           x == IF app.framesFile = NoFile THEN <<>> ELSE <<<<"frames.json", app.framesFile>>>>
           y == IF app.groupsFile = NoFile THEN <<>> ELSE <<<<"groups.json", app.groupsFile>>>>
           z == IF app.descriptionFile = NoFile THEN <<>>
                ELSE <<<<BaseName(app.descriptionFile), app.descriptionFile>>>>
           G == {<<"params.yaml", Generated>>}
           P == Renamed(app)
           X == IfAny(app.framesFile, "frames.json")
           Y == IfAny(app.groupsFile, "groups.json")
           Z == IfAny(app.descriptionFile, BaseName(app.descriptionFile))
<1>1. Written(app) = (((g \o p) \o x) \o y) \o z
  BY DEF Written
<1>2. IsList(g) /\ ToSet(g) = G
  BY ListOfOne
<1>3. IsList(p) /\ ToSet(p) = P
  <2>1. Len(envParams(app)) \in Nat /\ DOMAIN envParams(app) = 1..Len(envParams(app))
    BY ListLen
  <2>2. ToSet(p) = P
    BY DEF ToSet, Renamed
  <2>3. p = [i \in 1..Len(envParams(app)) |-> p[i]]
    BY <2>1
  <2> HIDE DEF p
  <2>4. IsList(p)
    BY <2>1, <2>3, ListMade
  <2> QED
    BY <2>2, <2>4
<1>4. IsList(x) /\ ToSet(x) = X
  BY ListOfOne, ListOfNone DEF IfAny
<1>5. IsList(y) /\ ToSet(y) = Y
  BY ListOfOne, ListOfNone DEF IfAny
<1>6. IsList(z) /\ ToSet(z) = Z
  BY ListOfOne, ListOfNone DEF IfAny
<1> HIDE DEF g, p, x, y, z, G, P, X, Y, Z
<1>7. IsList(g \o p) /\ ToSet(g \o p) = G \cup P
  BY <1>2, <1>3, ListsShowAll
<1>8. IsList((g \o p) \o x) /\ ToSet((g \o p) \o x) = (G \cup P) \cup X
  BY <1>4, <1>7, ListsShowAll
<1>9. IsList(((g \o p) \o x) \o y) /\ ToSet(((g \o p) \o x) \o y) = ((G \cup P) \cup X) \cup Y
  BY <1>5, <1>8, ListsShowAll
<1>10. /\ IsList((((g \o p) \o x) \o y) \o z)
       /\ ToSet((((g \o p) \o x) \o y) \o z) = (((G \cup P) \cup X) \cup Y) \cup Z
  BY <1>6, <1>9, ListsShowAll
<1> QED
  BY <1>1, <1>10 DEF G, P, X, Y, Z

\* A file written is in the stage, as it was written unless two have one name.
LEMMA FilesStaged ==
  ASSUME NEW app, IsList(envParams(app))
  PROVE  /\ \A x \in ToSet(Written(app)) : Staged(app, x[1]) # {}
         /\ ~Collide(app) => \A x \in ToSet(Written(app)) : Staged(app, x[1]) = {x[2]}
         /\ \A name : (\A x \in ToSet(Written(app)) : x[1] # name) => Staged(app, name) = {}
<1> DEFINE W == Written(app)
           Of(name) == {i \in DOMAIN W : W[i][1] = name}
<1>1. Len(W) \in Nat /\ DOMAIN W = 1..Len(W)
  BY FilesWritten, ListLen
<1>2. \A name : Staged(app, name) = IF Of(name) = {} THEN {} ELSE {W[Max(Of(name))][2]}
  BY DEF Staged
<1>3. ToSet(W) = {W[i] : i \in DOMAIN W}
  BY DEF ToSet
<1>4. ~Collide(app) => \A i, j \in DOMAIN W : i < j => W[i][1] # W[j][1]
  BY DEF Collide
<1> HIDE DEF W
<1>5. \A name : Of(name) # {} => Max(Of(name)) \in Of(name)
  BY <1>1, Greatest
<1>6. ASSUME NEW i \in DOMAIN W
      PROVE  Staged(app, W[i][1]) # {} /\ (~Collide(app) => Staged(app, W[i][1]) = {W[i][2]})
  <2> DEFINE m == Max(Of(W[i][1]))
  <2>1. i \in Of(W[i][1])
    OBVIOUS
  <2>2. m \in DOMAIN W /\ W[m][1] = W[i][1] /\ Staged(app, W[i][1]) = {W[m][2]}
    BY <1>2, <1>5, <2>1
  <2> HIDE DEF m
  <2>3. ~Collide(app) => m = i
    BY <1>1, <1>4, <2>2
  <2> QED
    BY <2>2, <2>3
<1>7. ASSUME NEW name, \A x \in ToSet(W) : x[1] # name PROVE Staged(app, name) = {}
  <2>1. Of(name) = {}
    BY <1>3, <1>7
  <2> QED
    BY <1>2, <2>1
<1> QED
  BY <1>3, <1>6, <1>7 DEF W

-----------------------------------------------------------------------------
(* What a command has resolved.                                              *)

IsResolved(app) ==
  /\ IsDeclaration(app.decl)
  /\ app.env # NoEnv =>
       /\ IsList(app.env.params) /\ IsAddress(app.env.metrics) /\ IsAddress(app.env.dashboard)
       /\ app.env.deploy # <<>> => app.env.deploy[1].prefix # UserHome
  /\ app.framesFile = NoFile => Beside("frames.json") \notin app.decl.files
  /\ app.framesFile # NoFile => app.framesFile \in app.decl.files
  /\ app.groupsFile = BesideConfig(app.decl, "groups.json")
  /\ app.descriptionFile = loadDescription(app.decl)

\* The files beside the application (loadGroups, loadDescription).
LEMMA FilesFound ==
  ASSUME NEW app, IsResolved(app)
  PROVE  /\ IsList(envParams(app))
         /\ app.groupsFile = NoFile => Beside("groups.json") \notin app.decl.files
         /\ app.groupsFile # NoFile => app.groupsFile \in app.decl.files
         /\ app.descriptionFile = NoFile /\ ~Unnamed(app) => Beside("robot.urdf") \notin app.decl.files
         /\ app.descriptionFile # NoFile =>
              app.descriptionFile \in app.decl.files
              /\ BaseName(app.descriptionFile) \in {"robot.urdf", "waffle.urdf"}
<1> DEFINE urdfs == {f \in app.decl.files : IsUrdf(f)}
<1>1. IsList(envParams(app))
  BY ListOfNone DEF envParams, IsResolved
<1>2. /\ app.groupsFile = NoFile => Beside("groups.json") \notin app.decl.files
      /\ app.groupsFile # NoFile => app.groupsFile \in app.decl.files
  BY DEF IsResolved, BesideConfig, Beside, NoFile
<1>3. app.descriptionFile = IF \E f \in urdfs : urdfs = {f} THEN CHOOSE f \in urdfs : TRUE ELSE NoFile
  BY DEF IsResolved, loadDescription
<1>4. \A f : IsUrdf(f) => f # NoFile /\ BaseName(f) \in {"robot.urdf", "waffle.urdf"}
  BY DEF IsUrdf, Beside, NoFile, BaseName
<1>5. IsUrdf(Beside("robot.urdf"))
  BY DEF IsUrdf
<1>6. CASE \E f \in urdfs : urdfs = {f}
  <2>1. app.descriptionFile \in urdfs
    BY <1>3, <1>6
  <2> QED
    BY <1>1, <1>2, <1>4, <2>1
<1>7. CASE ~\E f \in urdfs : urdfs = {f}
  <2>1. app.descriptionFile = NoFile
    BY <1>3, <1>7
  <2>2. Beside("robot.urdf") \in app.decl.files => \E f \in urdfs : f # Beside("robot.urdf")
    BY <1>5, <1>7
  <2>3. Beside("robot.urdf") \in app.decl.files => Unnamed(app)
    BY <1>5, <2>2 DEF Unnamed
  <2> QED
    BY <1>1, <1>2, <2>1, <2>3
<1> QED
  BY <1>6, <1>7

-----------------------------------------------------------------------------
(* What is trusted of a release.                                             *)

\* What a flag names is read from the stage, or from the sources.
LEMMA ContentOf ==
  ASSUME NEW app, NEW name, NEW file
  PROVE  /\ Content(app, InRelease(name)) = Staged(app, name)
         /\ Content(app, InSources(file)) = {file} \cap app.decl.files
BY DEF Content, InRelease, InSources

UnitFlags(app, index) ==
  (runtimeFlags(app) \o GivenAddr("metrics-addr", offsetPort(EnvAddr(app, "metrics"), index)))
  \o GivenAddr("dashboard", offsetPort(EnvAddr(app, "dashboard"), index))

\* What a unit says is what all of them say, and where it serves.
LEMMA SaidByUnit ==
  ASSUME NEW app, IsResolved(app), NEW index, NEW f
  PROVE  /\ IsList(UnitFlags(app, index)) /\ IsList(runtimeFlags(app))
         /\ Said(UnitFlags(app, index), f) =
              Said(runtimeFlags(app), f)
              \cup SaidOfServed(offsetPort(EnvAddr(app, "metrics"), index),
                                offsetPort(EnvAddr(app, "dashboard"), index), f)
<1> DEFINE r == runtimeFlags(app)
           m == offsetPort(EnvAddr(app, "metrics"), index)
           d == offsetPort(EnvAddr(app, "dashboard"), index)
<1>1. IsList(r)
  <2>1. CASE app.env = NoEnv
    BY <2>1, ListOfNone DEF runtimeFlags
  <2>2. CASE app.env # NoEnv
    BY <2>2, SaidByUnits DEF IsResolved
  <2> QED
    BY <2>1, <2>2
<1>2. UnitFlags(app, index) = (r \o GivenAddr("metrics-addr", m)) \o GivenAddr("dashboard", d)
  BY DEF UnitFlags
<1> HIDE DEF r, m, d
<1>3. LET b == (r \o GivenAddr("metrics-addr", m)) \o GivenAddr("dashboard", d)
      IN  IsList(b) /\ Said(b, f) = Said(r, f) \cup SaidOfServed(m, d, f)
  BY <1>1, SaidWithAddresses
<1> QED
  BY <1>1, <1>2, <1>3 DEF r, m, d

\* A release holds the files its units are told to load.
LEMMA ReleasesHoldFiles ==
  ASSUME NEW app, IsResolved(app)
  PROVE  FilesAreShipped(app)
<1> DEFINE fs == {"params", "frames", "groups", "description"}
<1>1. IsList(envParams(app))
  BY FilesFound
<1>2. ASSUME NEW x \in ToSet(Written(app)) PROVE Content(app, InRelease(x[1])) # {}
  <2>1. Staged(app, x[1]) # {}
    BY <1>1, FilesStaged
  <2>2. Content(app, InRelease(x[1])) = Staged(app, x[1])
    BY ContentOf
  <2> QED
    BY <2>1, <2>2
<1>3. ASSUME NEW name, NEW file, <<name, file>> \in ToSet(Written(app))
      PROVE  Content(app, InRelease(name)) # {}
  BY <1>2, <1>3
<1>4. ASSUME NEW f \in fs, NEW v \in Said(runtimeFlags(app), f)
      PROVE  Content(app, v) # {}
  <2>1. app.env # NoEnv
    BY <1>4, SaidByNone DEF runtimeFlags
  <2>2. IsList(app.env.params) /\ envParams(app) = app.env.params
    BY <2>1 DEF IsResolved, envParams
  <2>3. v \in (((SaidOfTransport(app.env, f) \cup Once(TRUE, "params", InRelease("params.yaml"), f))
                \cup SaidOfParams(ToldInside(app), f))
               \cup SaidOfFiles(app, InRelease("frames.json"), InRelease("groups.json"),
                                InRelease(BaseName(app.descriptionFile)), f))
              \cup Once(app.env.trace, "trace", TRUE, f)
    BY <1>4, <2>1, <2>2, SaidByUnits
  <2>4. SaidOfTransport(app.env, f) = {} /\ Once(app.env.trace, "trace", TRUE, f) = {}
    BY <1>4 DEF SaidOfTransport, Once
  <2>5. \/ v = InRelease("params.yaml")
        \/ \E i \in DOMAIN app.env.params : v = InRelease(BaseName(app.env.params[i]))
        \/ app.framesFile # NoFile /\ v = InRelease("frames.json")
        \/ app.groupsFile # NoFile /\ v = InRelease("groups.json")
        \/ app.descriptionFile # NoFile /\ v = InRelease(BaseName(app.descriptionFile))
    BY <2>3, <2>4 DEF Once, SaidOfParams, SaidOfFiles, ToldInside
  <2>6. /\ <<"params.yaml", Generated>> \in ToSet(Written(app))
        /\ \A i \in DOMAIN app.env.params :
             <<BaseName(app.env.params[i]), app.env.params[i]>> \in ToSet(Written(app))
        /\ app.framesFile # NoFile => <<"frames.json", app.framesFile>> \in ToSet(Written(app))
        /\ app.groupsFile # NoFile => <<"groups.json", app.groupsFile>> \in ToSet(Written(app))
        /\ app.descriptionFile # NoFile =>
             <<BaseName(app.descriptionFile), app.descriptionFile>> \in ToSet(Written(app))
    BY <1>1, <2>2, FilesWritten DEF Renamed, IfAny
  <2> QED
    BY <1>3, <2>5, <2>6
<1>5. ASSUME NEW index, NEW i \in DOMAIN UnitFlags(app, index), UnitFlags(app, index)[i][1] \in fs
      PROVE  Content(app, UnitFlags(app, index)[i][2]) # {}
  <2> DEFINE F == UnitFlags(app, index)
             f == F[i][1]
             v == F[i][2]
  <2>1. v \in Said(F, f)
    BY <1>5 DEF Said, ToSet
  <2>2. SaidOfServed(offsetPort(EnvAddr(app, "metrics"), index),
                     offsetPort(EnvAddr(app, "dashboard"), index), f) = {}
    BY <1>5 DEF SaidOfServed, Once
  <2> HIDE DEF F, f, v
  <2>3. v \in Said(runtimeFlags(app), f)
    BY <2>1, <2>2, SaidByUnit DEF F
  <2>4. f \in fs
    BY <1>5 DEF F, f
  <2>5. Content(app, v) # {}
    BY <1>4, <2>3, <2>4
  <2> QED
    BY <2>5 DEF F, v
<1>6. \A u \in SystemdUnits(app) : \E index : u.flags = UnitFlags(app, index)
  BY DEF SystemdUnits, Unit, UnitFlags
<1> QED
  BY <1>5, <1>6 DEF FilesAreShipped

\* How an application is meant to behave, whatever runs it.
IfNamed(file) == IF file = NoFile THEN {} ELSE {file}
Intended(app) ==
  [transport   |-> Or(app.env.transport, "inproc"),
   endpoint    |-> Or(app.env.endpoint, "default"),
   domain      |-> Or(app.env.domain, "0"),
   trace       |-> IF app.env.trace THEN TRUE ELSE FALSE,
   params      |-> [i \in DOMAIN app.env.params |-> {app.env.params[i]}],
   frames      |-> IfNamed(app.framesFile),
   groups      |-> IfNamed(app.groupsFile),
   description |-> IfNamed(app.descriptionFile)]

\* Flags that tell a process so.
TellsFile(app, F, flag, file) ==
  /\ file = NoFile => Said(F, flag) = {}
  /\ file # NoFile => \E at : Said(F, flag) = {at} /\ Content(app, at) = {file}
Tells(app, F) ==
  /\ IsList(F)
  /\ Said(F, "transport") = Once(app.env.transport # Unset, "transport", app.env.transport, "transport")
  /\ Said(F, "zenoh-endpoint") =
       Once(app.env.endpoint # Unset, "zenoh-endpoint", app.env.endpoint, "zenoh-endpoint")
  /\ Said(F, "domain") = Once(app.env.domain # Unset, "domain", app.env.domain, "domain")
  /\ Said(F, "trace") = Once(app.env.trace, "trace", TRUE, "trace")
  /\ Loaded(app, F) = [i \in DOMAIN app.env.params |-> {app.env.params[i]}]
  /\ TellsFile(app, F, "frames", app.framesFile)
  /\ TellsFile(app, F, "groups", app.groupsFile)
  /\ TellsFile(app, F, "description", app.descriptionFile)

\* A file that is not told of is not found either.
IsAbsent(app, name) == Staged(app, name) = {} /\ Beside(name) \notin app.decl.files

\* A file that is told of is found, and none is when none is told of (findFramesFile).
LEMMA FilesAreFound ==
  ASSUME NEW app, NEW F, IsList(F), NEW cwd \in {"release", "app", "elsewhere"}, NEW flag, NEW name,
         NEW file, TellsFile(app, F, flag, file), file = NoFile => IsAbsent(app, name)
  PROVE  Found(app, F, cwd, flag, name) = IfNamed(file)
<1>1. CASE file = NoFile
  <2>1. ~IsGiven(F, flag)
    BY <1>1, ValueSaid DEF TellsFile
  <2>2. Staged(app, name) = {} /\ {Beside(name)} \cap app.decl.files = {}
    BY <1>1 DEF IsAbsent
  <2>3. CASE cwd = "release"
    BY <1>1, <2>1, <2>2, <2>3 DEF Found, IfNamed
  <2>4. CASE cwd = "app"
    BY <1>1, <2>1, <2>2, <2>4 DEF Found, IfNamed
  <2>5. CASE cwd = "elsewhere"
    BY <1>1, <2>1, <2>2, <2>5 DEF Found, IfNamed
  <2> QED
    BY <2>3, <2>4, <2>5
<1>2. CASE file # NoFile
  <2>1. PICK at : Said(F, flag) = {at} /\ Content(app, at) = {file}
    BY <1>2 DEF TellsFile
  <2>2. IsGiven(F, flag) /\ Value(F, flag, NoFile) = at
    BY <2>1, ValueSaid
  <2> QED
    BY <1>2, <2>1, <2>2 DEF Found, IfNamed
<1> QED
  BY <1>1, <1>2

\* What is not named in the configuration is neither in the release nor beside the
\* application under its default name.
LEMMA FilesAreAbsent ==
  ASSUME NEW app, IsResolved(app), app.env # NoEnv, ~Collide(app), ~Unnamed(app)
  PROVE  /\ app.framesFile = NoFile => IsAbsent(app, "frames.json")
         /\ app.groupsFile = NoFile => IsAbsent(app, "groups.json")
         /\ app.descriptionFile = NoFile => IsAbsent(app, "robot.urdf")
<1>1. IsList(envParams(app))
  BY FilesFound
<1>2. ASSUME NEW name \in {"frames.json", "groups.json", "robot.urdf"}
      PROVE  name # "params.yaml" /\ \A x \in Renamed(app) : x[1] # name
  BY DEF Collide, Renamed
<1>3. app.descriptionFile # NoFile => BaseName(app.descriptionFile) \notin {"frames.json", "groups.json"}
  BY FilesFound
<1>4. ASSUME NEW name, \A x \in ToSet(Written(app)) : x[1] # name PROVE Staged(app, name) = {}
  BY <1>1, <1>4, FilesStaged
<1>5. app.framesFile = NoFile => Staged(app, "frames.json") = {}
  <2> SUFFICES ASSUME app.framesFile = NoFile, NEW x \in ToSet(Written(app)) PROVE x[1] # "frames.json"
    BY <1>4
  <2> QED
    BY <1>1, <1>2, <1>3, FilesWritten DEF IfAny
<1>6. app.groupsFile = NoFile => Staged(app, "groups.json") = {}
  <2> SUFFICES ASSUME app.groupsFile = NoFile, NEW x \in ToSet(Written(app)) PROVE x[1] # "groups.json"
    BY <1>4
  <2> QED
    BY <1>1, <1>2, <1>3, FilesWritten DEF IfAny
<1>7. app.descriptionFile = NoFile => Staged(app, "robot.urdf") = {}
  <2> SUFFICES ASSUME app.descriptionFile = NoFile, NEW x \in ToSet(Written(app)) PROVE x[1] # "robot.urdf"
    BY <1>4
  <2> QED
    BY <1>1, <1>2, <1>3, FilesWritten DEF IfAny
<1>8. app.framesFile = NoFile => Beside("frames.json") \notin app.decl.files
  BY DEF IsResolved
<1> QED
  BY <1>5, <1>6, <1>7, <1>8, FilesFound DEF IsAbsent

\* A process that is told so behaves as intended, wherever it runs.
LEMMA BehavesAsIntended ==
  ASSUME NEW app, IsResolved(app), app.env # NoEnv, ~Collide(app), ~Unnamed(app),
         NEW F, Tells(app, F), NEW cwd \in {"release", "app", "elsewhere"}
  PROVE  Behaviour(app, F, cwd) = Intended(app)
<1>1. IsList(F)
  BY DEF Tells
<1>2. ASSUME NEW flag, NEW v, NEW d, Said(F, flag) = Once(v # Unset, flag, v, flag)
      PROVE  Value(F, flag, d) = Or(v, d)
  <2>1. CASE v = Unset
    BY <1>1, <1>2, <2>1, ValueSaid DEF Once, Or
  <2>2. CASE v # Unset
    BY <1>1, <1>2, <2>2, ValueSaid DEF Once, Or
  <2> QED
    BY <2>1, <2>2
<1>3. Value(F, "transport", "inproc") = Or(app.env.transport, "inproc")
  BY <1>2 DEF Tells
<1>4. Value(F, "zenoh-endpoint", "default") = Or(app.env.endpoint, "default")
  BY <1>2 DEF Tells
<1>5. Value(F, "domain", "0") = Or(app.env.domain, "0")
  BY <1>2 DEF Tells
<1>6. Value(F, "trace", FALSE) = IF app.env.trace THEN TRUE ELSE FALSE
  <2>1. CASE app.env.trace
    <3>1. Said(F, "trace") = {TRUE}
      BY <2>1 DEF Tells, Once
    <3> QED
      BY <1>1, <2>1, <3>1, ValueSaid
  <2>2. CASE ~app.env.trace
    <3>1. Said(F, "trace") = {}
      BY <2>2 DEF Tells, Once
    <3> QED
      BY <1>1, <2>2, <3>1, ValueSaid
  <2> QED
    BY <2>1, <2>2
<1>7. Found(app, F, cwd, "frames", "frames.json") = IfNamed(app.framesFile)
  BY <1>1, FilesAreFound, FilesAreAbsent DEF Tells
<1>8. Found(app, F, cwd, "groups", "groups.json") = IfNamed(app.groupsFile)
  BY <1>1, FilesAreFound, FilesAreAbsent DEF Tells
<1>9. Found(app, F, cwd, "description", "robot.urdf") = IfNamed(app.descriptionFile)
  BY <1>1, FilesAreFound, FilesAreAbsent DEF Tells
<1>10. Loaded(app, F) = [i \in DOMAIN app.env.params |-> {app.env.params[i]}]
  BY DEF Tells
<1> QED
  BY <1>3, <1>4, <1>5, <1>6, <1>7, <1>8, <1>9, <1>10, Zenon DEF Behaviour, Intended

\* A list keeps its places when one is added after it.
LEMMA ListKeeps ==
  ASSUME NEW a, NEW b, IsList(a), IsList(b)
  PROVE  IsList(a \o b) /\ \A i \in DOMAIN a : i \in DOMAIN (a \o b) /\ (a \o b)[i] = a[i]
<1>1. IsList(a \o b) /\ Len(a \o b) = Len(a) + Len(b) /\ \A i \in 1..Len(a) : (a \o b)[i] = a[i]
  BY ListsJoin
<1>2. Len(a) \in Nat /\ Len(b) \in Nat /\ DOMAIN a = 1..Len(a)
  BY ListLen
<1>3. DOMAIN (a \o b) = 1..Len(a \o b)
  BY <1>1, ListLen
<1> DEFINE m == Len(a)
           n == Len(b)
           l == Len(a \o b)
           c == a \o b
<1> HIDE DEF m, n, l, c
<1>4. l = m + n /\ m \in Nat /\ n \in Nat /\ DOMAIN a = 1..m /\ DOMAIN c = 1..l
  BY <1>1, <1>2, <1>3 DEF l, m, n, c
<1>5. \A i \in DOMAIN a : i \in DOMAIN c
  BY <1>4
<1> QED
  BY <1>1, <1>2, <1>5 DEF c

\* The parameter files come after the generated one.
LEMMA ParamsComeLater ==
  ASSUME NEW app, IsList(envParams(app)), NEW i \in DOMAIN envParams(app), ~Collide(app)
  PROVE  envParams(app)[i] # Generated
<1> DEFINE g == <<<<"params.yaml", Generated>>>>
           p == [j \in DOMAIN envParams(app) |-> <<BaseName(envParams(app)[j]), envParams(app)[j]>>]
           x == IF app.framesFile = NoFile THEN <<>> ELSE <<<<"frames.json", app.framesFile>>>>
           y == IF app.groupsFile = NoFile THEN <<>> ELSE <<<<"groups.json", app.groupsFile>>>>
           z == IF app.descriptionFile = NoFile THEN <<>>
                ELSE <<<<BaseName(app.descriptionFile), app.descriptionFile>>>>
           k == 1 + i
           W == Written(app)
<1>1. W = (((g \o p) \o x) \o y) \o z
  BY DEF Written
<1>2. IsList(g) /\ Len(g) = 1 /\ DOMAIN g = {1} /\ g[1][1] = "params.yaml"
  BY ListOfOne
<1>3. IsList(p) /\ i \in 1..Len(p) /\ p[i][1] = BaseName(envParams(app)[i])
  <2>1. Len(envParams(app)) \in Nat /\ DOMAIN envParams(app) = 1..Len(envParams(app))
    BY ListLen
  <2>2. p = [j \in 1..Len(envParams(app)) |-> p[j]]
    BY <2>1
  <2>3. p[i][1] = BaseName(envParams(app)[i])
    OBVIOUS
  <2> HIDE DEF p
  <2>4. IsList(p) /\ Len(p) = Len(envParams(app))
    BY <2>1, <2>2, ListMade
  <2> QED
    BY <2>1, <2>3, <2>4
<1>4. IsList(x) /\ IsList(y) /\ IsList(z)
  BY ListOfOne, ListOfNone
<1> HIDE DEF g, p, x, y, z, W
<1>5. IsList(g \o p) /\ {1, k} \subseteq DOMAIN (g \o p) /\ (g \o p)[1] = g[1] /\ (g \o p)[k] = p[i]
  <2>0. /\ IsList(g \o p) /\ Len(g \o p) = Len(g) + Len(p) /\ \A j \in 1..Len(g) : (g \o p)[j] = g[j]
        /\ \A j \in 1..Len(p) : (g \o p)[Len(g) + j] = p[j]
    BY <1>2, <1>3, ListsJoin
  <2>1. /\ IsList(g \o p) /\ Len(g \o p) = 1 + Len(p) /\ (g \o p)[1] = g[1]
        /\ \A j \in 1..Len(p) : (g \o p)[1 + j] = p[j]
    BY <1>2, <2>0
  <2>2. DOMAIN (g \o p) = 1..Len(g \o p) /\ Len(p) \in Nat
    BY <1>3, <2>1, ListLen
  <2> DEFINE n == Len(p)
             D == DOMAIN (g \o p)
  <2> HIDE DEF n, D
  <2>3. D = 1..(1 + n) /\ n \in Nat /\ i \in 1..n
    BY <1>3, <2>1, <2>2 DEF n, D
  <2>4. {1, k} \subseteq D
    BY <2>3
  <2> QED
    BY <1>3, <2>1, <2>4 DEF D
<1>6. IsList((g \o p) \o x) /\ {1, k} \subseteq DOMAIN ((g \o p) \o x)
      /\ ((g \o p) \o x)[1] = g[1] /\ ((g \o p) \o x)[k] = p[i]
  BY <1>4, <1>5, ListKeeps
<1>7. IsList(((g \o p) \o x) \o y) /\ {1, k} \subseteq DOMAIN (((g \o p) \o x) \o y)
      /\ (((g \o p) \o x) \o y)[1] = g[1] /\ (((g \o p) \o x) \o y)[k] = p[i]
  BY <1>4, <1>6, ListKeeps
<1>8. {1, k} \subseteq DOMAIN W /\ W[1] = g[1] /\ W[k] = p[i]
  BY <1>1, <1>4, <1>7, ListKeeps
<1>9. 1 < k
  BY <1>3
<1>10. W[1][1] # W[k][1]
  <2> HIDE DEF k
  <2> QED
    BY <1>8, <1>9 DEF Collide, W
<1>11. BaseName(envParams(app)[i]) # "params.yaml"
  BY <1>2, <1>3, <1>8, <1>10
<1> QED
  BY <1>11 DEF BaseName, Generated

LEMMA AddsNoFile ==
  ASSUME NEW app, NEW c, IsList(c), Said(c, "params") = {}
  PROVE  AddsNone(app, c)
BY DEF AddsNone

\* The flags after those of the parameter files name none.
LEMMA LoadsWithFiles ==
  ASSUME NEW app, NEW F, NEW ps, AreFiles(app, ps), LoadsThose(app, F, ps),
         NEW frames, NEW groups, NEW description
  PROVE  LoadsThose(app, ((F \o GivenFile("frames", app.framesFile, frames))
                          \o GivenFile("groups", app.groupsFile, groups))
                         \o GivenFile("description", app.descriptionFile, description), ps)
<1>1. AddsNone(app, GivenFile("frames", app.framesFile, frames))
  BY SaidIfNamed, AddsNoFile DEF Once
<1>2. AddsNone(app, GivenFile("groups", app.groupsFile, groups))
  BY SaidIfNamed, AddsNoFile DEF Once
<1>3. AddsNone(app, GivenFile("description", app.descriptionFile, description))
  BY SaidIfNamed, AddsNoFile DEF Once
<1>4. LoadsThose(app, F \o GivenFile("frames", app.framesFile, frames), ps)
  BY <1>1, LoadsMore
<1>5. LoadsThose(app, (F \o GivenFile("frames", app.framesFile, frames))
                      \o GivenFile("groups", app.groupsFile, groups), ps)
  BY <1>2, <1>4, LoadsMore
<1> QED
  BY <1>3, <1>5, LoadsMore

LEMMA LoadsWithAddresses ==
  ASSUME NEW app, NEW F, NEW ps, AreFiles(app, ps), LoadsThose(app, F, ps), NEW m, NEW d
  PROVE  LoadsThose(app, (F \o GivenAddr("metrics-addr", m)) \o GivenAddr("dashboard", d), ps)
<1>1. AddsNone(app, GivenAddr("metrics-addr", m)) /\ AddsNone(app, GivenAddr("dashboard", d))
  BY SaidIfServed, AddsNoFile DEF Once
<1>2. LoadsThose(app, F \o GivenAddr("metrics-addr", m), ps)
  BY <1>1, LoadsMore
<1> QED
  BY <1>1, <1>2, LoadsMore

LEMMA LoadsWithTrace ==
  ASSUME NEW app, NEW F, NEW ps, AreFiles(app, ps), LoadsThose(app, F, ps), NEW env
  PROVE  LoadsThose(app, F \o traceFlag(env), ps)
<1>1. Said(traceFlag(env), "params") = {}
  BY SaidByTrace DEF Once
<1> QED
  BY <1>1, SaidByTrace, AddsNoFile, LoadsMore

\* The flags of a unit tell its process how to behave.
LEMMA UnitsTell ==
  ASSUME NEW app, IsResolved(app), app.env # NoEnv, Complete(app), ~Collide(app), ~Unnamed(app),
         NEW index
  PROVE  Tells(app, UnitFlags(app, index))
<1> DEFINE F == UnitFlags(app, index)
           R == runtimeFlags(app)
           es == app.env.params
           t == transportFlags(app.env)
           g == <<<<"params", InRelease("params.yaml")>>>>
           ps == [i \in DOMAIN es |-> <<"params", InRelease(BaseName(es[i]))>>]
           at(f) == Said(F, f)
<1>1. envParams(app) = es /\ IsList(es) /\ IsList(envParams(app))
  BY DEF envParams, IsResolved
<1>2. \A x \in ToSet(Written(app)) : Content(app, InRelease(x[1])) = {x[2]}
  <2> SUFFICES ASSUME NEW x \in ToSet(Written(app)) PROVE Content(app, InRelease(x[1])) = {x[2]}
    OBVIOUS
  <2>1. Staged(app, x[1]) = {x[2]}
    BY <1>1, FilesStaged
  <2>2. Content(app, InRelease(x[1])) = Staged(app, x[1])
    BY ContentOf
  <2> QED
    BY <2>1, <2>2
<1>3. ASSUME NEW name, NEW file, <<name, file>> \in ToSet(Written(app))
      PROVE  Content(app, InRelease(name)) = {file}
  BY <1>2, <1>3
<1>4. /\ <<"params.yaml", Generated>> \in ToSet(Written(app))
      /\ \A i \in DOMAIN es : <<BaseName(es[i]), es[i]>> \in ToSet(Written(app))
      /\ app.framesFile # NoFile => <<"frames.json", app.framesFile>> \in ToSet(Written(app))
      /\ app.groupsFile # NoFile => <<"groups.json", app.groupsFile>> \in ToSet(Written(app))
      /\ app.descriptionFile # NoFile =>
           <<BaseName(app.descriptionFile), app.descriptionFile>> \in ToSet(Written(app))
  BY <1>1, FilesWritten DEF Renamed, IfAny
<1>5. /\ Content(app, InRelease("params.yaml")) = {Generated}
      /\ \A i \in DOMAIN es : Content(app, InRelease(BaseName(es[i]))) = {es[i]}
      /\ app.framesFile # NoFile => Content(app, InRelease("frames.json")) = {app.framesFile}
      /\ app.groupsFile # NoFile => Content(app, InRelease("groups.json")) = {app.groupsFile}
      /\ app.descriptionFile # NoFile =>
           Content(app, InRelease(BaseName(app.descriptionFile))) = {app.descriptionFile}
  BY <1>3, <1>4
<1>6. ASSUME NEW f \in {"transport", "zenoh-endpoint", "domain", "trace", "params", "frames", "groups",
                        "description"}
      PROVE  at(f) = (((SaidOfTransport(app.env, f) \cup Once(TRUE, "params", InRelease("params.yaml"), f))
                \cup SaidOfParams(ToldInside(app), f))
               \cup SaidOfFiles(app, InRelease("frames.json"), InRelease("groups.json"),
                                InRelease(BaseName(app.descriptionFile)), f))
              \cup Once(app.env.trace, "trace", TRUE, f)
  <2>1. SaidOfServed(offsetPort(EnvAddr(app, "metrics"), index),
                     offsetPort(EnvAddr(app, "dashboard"), index), f) = {}
    BY <1>6 DEF SaidOfServed, Once
  <2>2. at(f) = Said(R, f)
    BY <2>1, SaidByUnit
  <2> HIDE DEF at, R
  <2> QED
    BY <1>1, <2>2, SaidByUnits DEF R
<1> HIDE DEF at
<1>7. at("transport") = Once(app.env.transport # Unset, "transport", app.env.transport, "transport")
  BY <1>6 DEF SaidOfTransport, Once, SaidOfParams, SaidOfFiles
<1>8. at("zenoh-endpoint") =
        Once(app.env.endpoint # Unset, "zenoh-endpoint", app.env.endpoint, "zenoh-endpoint")
  BY <1>6 DEF SaidOfTransport, Once, SaidOfParams, SaidOfFiles
<1>9. at("domain") = Once(app.env.domain # Unset, "domain", app.env.domain, "domain")
  BY <1>6 DEF SaidOfTransport, Once, SaidOfParams, SaidOfFiles
<1>10. at("trace") = Once(app.env.trace, "trace", TRUE, "trace")
  <2>1. /\ SaidOfTransport(app.env, "trace") = {} /\ SaidOfParams(ToldInside(app), "trace") = {}
        /\ Once(TRUE, "params", InRelease("params.yaml"), "trace") = {}
        /\ SaidOfFiles(app, InRelease("frames.json"), InRelease("groups.json"),
                       InRelease(BaseName(app.descriptionFile)), "trace") = {}
    BY DEF SaidOfTransport, Once, SaidOfParams, SaidOfFiles
  <2> QED
    BY <1>6, <2>1
<1>11. at("frames") = Once(app.framesFile # NoFile, "frames", InRelease("frames.json"), "frames")
  BY <1>6 DEF SaidOfTransport, Once, SaidOfParams, SaidOfFiles
<1>12. at("groups") = Once(app.groupsFile # NoFile, "groups", InRelease("groups.json"), "groups")
  BY <1>6 DEF SaidOfTransport, Once, SaidOfParams, SaidOfFiles
<1>13. at("description") = Once(app.descriptionFile # NoFile, "description",
                                InRelease(BaseName(app.descriptionFile)), "description")
  BY <1>6 DEF SaidOfTransport, Once, SaidOfParams, SaidOfFiles
<1>14. TellsFile(app, F, "frames", app.framesFile)
  BY <1>5, <1>11 DEF TellsFile, Once, at
<1>15. TellsFile(app, F, "groups", app.groupsFile)
  BY <1>5, <1>12 DEF TellsFile, Once, at
<1>16. TellsFile(app, F, "description", app.descriptionFile)
  BY <1>5, <1>13 DEF TellsFile, Once, at
<1>17. AreFiles(app, ps)
  <2>1. /\ DOMAIN ps = DOMAIN es /\ ps = [i \in DOMAIN es |-> ps[i]]
        /\ \A i \in DOMAIN es : ps[i][1] = "params" /\ ps[i][2] = InRelease(BaseName(es[i]))
    OBVIOUS
  <2>2. \A i \in DOMAIN es : es[i] # Generated
    BY <1>1, ParamsComeLater
  <2> HIDE DEF ps, es
  <2>3. IsList(ps)
    BY <1>1, <2>1, SaidByParams
  <2>4. \A x \in ToSet(ps) : x[1] = "params" /\ Content(app, x[2]) # {Generated}
    BY <1>5, <2>1, <2>2 DEF ToSet
  <2> QED
    BY <2>3, <2>4 DEF AreFiles
<1>18. LoadsThose(app, F, ps)
  <2> DEFINE d == (t \o g) \o ps
             e == ((d \o GivenFile("frames", app.framesFile, InRelease("frames.json")))
                   \o GivenFile("groups", app.groupsFile, InRelease("groups.json")))
                  \o GivenFile("description", app.descriptionFile, InRelease(BaseName(app.descriptionFile)))
             h == e \o traceFlag(app.env)
  <2>1. R = h
    BY DEF runtimeFlags, GivenFile
  <2>2. AddsNone(app, t \o g)
    <3>1. IsList(t) /\ Said(t, "params") = {}
      BY SaidByTransport DEF Once
    <3>2. IsList(g) /\ Said(g, "params") = {InRelease("params.yaml")}
      BY SaidOnce
    <3> HIDE DEF t, g
    <3>3. IsList(t \o g) /\ Said(t \o g, "params") = {} \cup {InRelease("params.yaml")}
      BY <3>1, <3>2, SaidJoined
    <3> QED
      BY <1>5, <3>3 DEF AddsNone
  <2> HIDE DEF t, g, ps
  <2>3. LoadsThose(app, d, ps)
    BY <1>17, <2>2, LoadsFirst
  <2> HIDE DEF d
  <2>4. LoadsThose(app, e, ps)
    BY <1>17, <2>3, LoadsWithFiles
  <2> HIDE DEF e
  <2>5. LoadsThose(app, h, ps)
    BY <1>17, <2>4, LoadsWithTrace
  <2>6. LoadsThose(app, R, ps)
    BY <2>1, <2>5
  <2> HIDE DEF R, h
  <2>7. F = (R \o GivenAddr("metrics-addr", offsetPort(EnvAddr(app, "metrics"), index)))
            \o GivenAddr("dashboard", offsetPort(EnvAddr(app, "dashboard"), index))
    BY DEF UnitFlags, R
  <2> QED
    BY <1>17, <2>6, <2>7, LoadsWithAddresses
<1>19. Loaded(app, F) = [i \in DOMAIN es |-> {es[i]}]
  <2>1. \A i \in DOMAIN es : Content(app, ps[i][2]) = {es[i]}
    BY <1>5
  <2>2. DOMAIN ps = DOMAIN es
    OBVIOUS
  <2> HIDE DEF ps, es, F
  <2>3. Loaded(app, F) = [i \in DOMAIN ps |-> Content(app, ps[i][2])]
    BY <1>17, <1>18, LoadedAre
  <2> QED
    BY <2>1, <2>2, <2>3
<1>20. IsList(F)
  BY SaidByUnit
<1> HIDE DEF F
<1> QED
  BY <1>7, <1>8, <1>9, <1>10, <1>14, <1>15, <1>16, <1>19, <1>20 DEF Tells, at, F

\* The flags that say how a node behaves.
OfNode == {"transport", "zenoh-endpoint", "domain", "trace", "params", "frames", "groups", "description"}
\* The parameter files as development finds them.
SourceFiles(app) == [i \in DOMAIN app.env.params |-> <<"params", InSources(app.env.params[i])>>]
\* Flags that say so as those of `conductor run` do.
SaysTheSame(app, F) ==
  IsList(F) /\ (\A f \in OfNode : Said(F, f) = Said(Flags(app), f)) /\ LoadsThose(app, F, SourceFiles(app))

\* In the sources the parameter files are what their names say.
LEMMA SourcesAreFiles ==
  ASSUME NEW app, IsResolved(app), app.env # NoEnv, Complete(app), ~Collide(app)
  PROVE  /\ AreFiles(app, SourceFiles(app)) /\ DOMAIN SourceFiles(app) = DOMAIN app.env.params
         /\ \A i \in DOMAIN app.env.params : Content(app, SourceFiles(app)[i][2]) = {app.env.params[i]}
<1> DEFINE es == app.env.params
           ps == SourceFiles(app)
<1>1. envParams(app) = es /\ IsList(es) /\ IsList(envParams(app))
  BY DEF envParams, IsResolved
<1>2. /\ DOMAIN ps = DOMAIN es /\ ps = [i \in DOMAIN es |-> ps[i]]
      /\ \A i \in DOMAIN es : ps[i][1] = "params" /\ ps[i][2] = InSources(es[i])
  BY DEF SourceFiles
<1>3. \A i \in DOMAIN es : es[i] # Generated /\ es[i] \in app.decl.files
  BY <1>1, ParamsComeLater DEF Complete
<1> HIDE DEF ps, es
<1>4. IsList(ps)
  BY <1>1, <1>2, SaidByParams
<1>5. ASSUME NEW i \in DOMAIN es PROVE Content(app, ps[i][2]) = {es[i]}
  <2>1. Content(app, InSources(es[i])) = {es[i]} \cap app.decl.files
    BY ContentOf
  <2> QED
    BY <1>2, <1>3, <2>1
<1>6. \A x \in ToSet(ps) : x[1] = "params" /\ Content(app, x[2]) # {Generated}
  BY <1>2, <1>3, <1>5 DEF ToSet
<1> QED
  BY <1>2, <1>4, <1>5, <1>6 DEF AreFiles, ps, es

\* Flags that say the same as those of `conductor run` tell a process how to behave.
LEMMA SourcesTell ==
  ASSUME NEW app, IsResolved(app), app.env # NoEnv, Complete(app), ~Collide(app), ~Unnamed(app),
         NEW F, SaysTheSame(app, F)
  PROVE  Tells(app, F)
<1> DEFINE at(f) == Said(F, f)
<1>1. IsList(app.env.params) /\ IsList(F)
  BY DEF IsResolved, SaysTheSame
<1>2. ASSUME NEW f \in OfNode
      PROVE  at(f) = ((SaidOfTransport(app.env, f) \cup SaidOfParams(ToldOutside(app), f))
                      \cup SaidOfFiles(app, InSources(app.framesFile), InSources(app.groupsFile),
                                       InSources(app.descriptionFile), f))
                     \cup Once(app.env.trace, "trace", TRUE, f)
  <2>1. at(f) = Said(Flags(app), f)
    BY DEF SaysTheSame
  <2>2. SaidOfServed(app.env.metrics, app.env.dashboard, f) = {}
    BY DEF SaidOfServed, Once, OfNode
  <2> HIDE DEF at
  <2> QED
    BY <1>1, <2>1, <2>2, SaidByFlags
<1> HIDE DEF at
<1>3. at("transport") = Once(app.env.transport # Unset, "transport", app.env.transport, "transport")
  BY <1>2 DEF SaidOfTransport, Once, SaidOfParams, SaidOfFiles, OfNode
<1>4. at("zenoh-endpoint") =
        Once(app.env.endpoint # Unset, "zenoh-endpoint", app.env.endpoint, "zenoh-endpoint")
  BY <1>2 DEF SaidOfTransport, Once, SaidOfParams, SaidOfFiles, OfNode
<1>5. at("domain") = Once(app.env.domain # Unset, "domain", app.env.domain, "domain")
  BY <1>2 DEF SaidOfTransport, Once, SaidOfParams, SaidOfFiles, OfNode
<1>6. at("trace") = Once(app.env.trace, "trace", TRUE, "trace")
  <2>1. /\ SaidOfTransport(app.env, "trace") = {} /\ SaidOfParams(ToldOutside(app), "trace") = {}
        /\ SaidOfFiles(app, InSources(app.framesFile), InSources(app.groupsFile),
                       InSources(app.descriptionFile), "trace") = {}
    BY DEF SaidOfTransport, Once, SaidOfParams, SaidOfFiles
  <2>2. "trace" \in OfNode
    BY DEF OfNode
  <2> QED
    BY <1>2, <2>1, <2>2
<1>7. at("frames") = Once(app.framesFile # NoFile, "frames", InSources(app.framesFile), "frames")
  BY <1>2 DEF SaidOfTransport, Once, SaidOfParams, SaidOfFiles, OfNode
<1>8. at("groups") = Once(app.groupsFile # NoFile, "groups", InSources(app.groupsFile), "groups")
  BY <1>2 DEF SaidOfTransport, Once, SaidOfParams, SaidOfFiles, OfNode
<1>9. at("description") = Once(app.descriptionFile # NoFile, "description", InSources(app.descriptionFile),
                               "description")
  BY <1>2 DEF SaidOfTransport, Once, SaidOfParams, SaidOfFiles, OfNode
<1>10. ASSUME NEW file \in app.decl.files PROVE Content(app, InSources(file)) = {file}
  <2>1. Content(app, InSources(file)) = {file} \cap app.decl.files
    BY ContentOf
  <2> QED
    BY <2>1
<1>11. /\ app.framesFile # NoFile => Content(app, InSources(app.framesFile)) = {app.framesFile}
       /\ app.groupsFile # NoFile => Content(app, InSources(app.groupsFile)) = {app.groupsFile}
       /\ app.descriptionFile # NoFile => Content(app, InSources(app.descriptionFile)) = {app.descriptionFile}
  BY <1>10, FilesFound DEF IsResolved
<1>12. TellsFile(app, F, "frames", app.framesFile)
  BY <1>7, <1>11 DEF TellsFile, Once, at
<1>13. TellsFile(app, F, "groups", app.groupsFile)
  BY <1>8, <1>11 DEF TellsFile, Once, at
<1>14. TellsFile(app, F, "description", app.descriptionFile)
  BY <1>9, <1>11 DEF TellsFile, Once, at
<1>15. Loaded(app, F) = [i \in DOMAIN app.env.params |-> {app.env.params[i]}]
  <2> DEFINE ps == SourceFiles(app)
             es == app.env.params
  <2>1. AreFiles(app, ps) /\ DOMAIN ps = DOMAIN es /\ \A i \in DOMAIN es : Content(app, ps[i][2]) = {es[i]}
    BY SourcesAreFiles
  <2>2. LoadsThose(app, F, ps)
    BY DEF SaysTheSame
  <2> HIDE DEF ps, es
  <2>3. Loaded(app, F) = [i \in DOMAIN ps |-> Content(app, ps[i][2])]
    BY <2>1, <2>2, LoadedAre
  <2>4. Loaded(app, F) = [i \in DOMAIN es |-> {es[i]}]
    BY <2>1, <2>3
  <2> QED
    BY <2>4 DEF es
<1> QED
  BY <1>1, <1>3, <1>4, <1>5, <1>6, <1>12, <1>13, <1>14, <1>15 DEF Tells, at

\* Those of `conductor run` do (run.Flags),
LEMMA FlagsSaySo ==
  ASSUME NEW app, IsResolved(app), app.env # NoEnv, Complete(app), ~Collide(app)
  PROVE  SaysTheSame(app, Flags(app))
<1> DEFINE t == transportFlags(app.env)
           ps == SourceFiles(app)
           d == t \o ps
           e == ((d \o GivenFile("frames", app.framesFile, InSources(app.framesFile)))
                 \o GivenFile("groups", app.groupsFile, InSources(app.groupsFile)))
                \o GivenFile("description", app.descriptionFile, InSources(app.descriptionFile))
           h == (e \o GivenAddr("metrics-addr", app.env.metrics)) \o GivenAddr("dashboard", app.env.dashboard)
           F == Flags(app)
<1>1. F = h \o traceFlag(app.env)
  BY DEF Flags, SourceFiles
<1>2. AddsNone(app, t)
  <2>1. IsList(t) /\ Said(t, "params") = {}
    BY SaidByTransport DEF Once
  <2> QED
    BY <2>1, AddsNoFile
<1>3. AreFiles(app, ps)
  BY SourcesAreFiles
<1>4. IsList(F)
  BY SaidByFlags DEF IsResolved
<1> HIDE DEF t, ps, F
<1>5. LoadsThose(app, d, ps)
  BY <1>2, <1>3, LoadsFirst
<1> HIDE DEF d
<1>6. LoadsThose(app, e, ps)
  BY <1>3, <1>5, LoadsWithFiles
<1> HIDE DEF e
<1>7. LoadsThose(app, h, ps)
  BY <1>3, <1>6, LoadsWithAddresses
<1> HIDE DEF h
<1>8. LoadsThose(app, F, ps)
  BY <1>1, <1>3, <1>7, LoadsWithTrace
<1> QED
  BY <1>4, <1>8 DEF SaysTheSame, F, ps

\* Flags added that are about nothing of a node.
LEMMA MoreIsTheSame ==
  ASSUME NEW app, IsResolved(app), app.env # NoEnv, Complete(app), ~Collide(app), NEW F,
         SaysTheSame(app, F), NEW c, IsList(c), \A f \in OfNode : Said(c, f) = {}
  PROVE  SaysTheSame(app, F \o c)
<1>1. IsList(F \o c)
  BY ListsJoin DEF SaysTheSame
<1>2. ASSUME NEW f \in OfNode PROVE Said(F \o c, f) = Said(Flags(app), f)
  <2>1. Said(F \o c, f) = Said(F, f) \cup Said(c, f)
    BY SaidByBoth DEF SaysTheSame
  <2> QED
    BY <2>1 DEF SaysTheSame
<1>3. AddsNone(app, c)
  <2>1. "params" \in OfNode
    BY DEF OfNode
  <2> QED
    BY <2>1, AddsNoFile
<1>4. LoadsThose(app, F \o c, SourceFiles(app))
  BY <1>3, SourcesAreFiles, LoadsMore DEF SaysTheSame
<1> QED
  BY <1>1, <1>2, <1>4 DEF SaysTheSame

\* The dashboard of development is about nothing of a node.
LEMMA DashboardIsNoMatter ==
  ASSUME NEW off, NEW b, NEW c, c = IF off THEN <<>> ELSE <<<<"dashboard", b>>, <<"dashboard-traces", 300>>>>
  PROVE  IsList(c) /\ \A f \in OfNode : Said(c, f) = {}
<1>1. CASE off
  BY <1>1, SaidByNone
<1>2. CASE ~off
  <2> DEFINE x == <<"dashboard", b>>
             y == <<"dashboard-traces", 300>>
             z == <<x>> \o <<y>>
  <2>1. x[1] = "dashboard" /\ y[1] = "dashboard-traces"
    OBVIOUS
  <2>2. c = z
    BY <1>2
  <2> HIDE DEF x, y
  <2>3. IsList(<<x>>) /\ ToSet(<<x>>) = {x}
    BY ListOfOne
  <2>4. IsList(<<y>>) /\ ToSet(<<y>>) = {y}
    BY ListOfOne
  <2>5. IsList(z) /\ ToSet(z) = {x} \cup {y}
    BY <2>3, <2>4, ListsJoin
  <2> HIDE DEF z
  <2>6. \A f \in OfNode : Said(z, f) = {}
    BY <2>1, <2>5 DEF Said, OfNode
  <2> QED
    BY <2>2, <2>5, <2>6
<1> QED
  BY <1>1, <1>2

\* and so do those left of them without the dashboard (withoutDashboard).
LEMMA FewerIsTheSame ==
  ASSUME NEW app, IsResolved(app), app.env # NoEnv, Complete(app), ~Collide(app)
  PROVE  SaysTheSame(app, withoutDashboard(Flags(app)))
<1> DEFINE F == Flags(app)
           S == {f \in ToSet(F) : f[1] \notin {"dashboard", "metrics-addr"}}
           ps == SourceFiles(app)
<1>1. SaysTheSame(app, F) /\ AreFiles(app, ps)
  BY FlagsSaySo, SourcesAreFiles
<1>2. withoutDashboard(F) = Among(F, S)
  BY DEF withoutDashboard
<1>3. ToSet(ps) \subseteq S
  <2>1. PICK a, b : AddsNone(app, a) /\ AddsNone(app, b) /\ F = (a \o ps) \o b
    BY <1>1 DEF SaysTheSame, LoadsThose
  <2>2. IsList(a) /\ IsList(b) /\ IsList(ps)
    BY <1>1, <2>1 DEF AddsNone, AreFiles
  <2> HIDE DEF ps
  <2>3. IsList(a \o ps) /\ ToSet(a \o ps) = ToSet(a) \cup ToSet(ps)
    BY <2>2, ListsJoin
  <2>4. ToSet((a \o ps) \o b) = ToSet(a \o ps) \cup ToSet(b)
    BY <2>2, <2>3, ListsJoin
  <2>5. ToSet(ps) \subseteq ToSet(F)
    BY <2>1, <2>3, <2>4
  <2> QED
    BY <1>1, <2>5 DEF AreFiles
<1>4. \A f \in OfNode : Said(F, f) = {x[2] : x \in {y \in ToSet(F) \cap S : y[1] = f}}
  BY DEF Said, OfNode
<1> HIDE DEF F, S, ps
<1>5. IsList(Among(F, S)) /\ ToSet(Among(F, S)) = ToSet(F) \cap S
  BY <1>1, AmongIsList DEF SaysTheSame
<1>6. \A f \in OfNode : Said(Among(F, S), f) = Said(F, f)
  BY <1>4, <1>5 DEF Said
<1>7. LoadsThose(app, Among(F, S), ps)
  BY <1>1, <1>3, LoadsAmong DEF SaysTheSame, ps
<1>8. SaysTheSame(app, Among(F, S))
  BY <1>5, <1>6, <1>7 DEF SaysTheSame, F, ps
<1> QED
  BY <1>2, <1>8 DEF F

\* What runs under development behaves as what systemd runs.
LEMMA DeployedAsDeveloped ==
  ASSUME NEW app, IsResolved(app), NEW base
  PROVE  BehavesAsDeveloped(app, base)
<1> SUFFICES ASSUME Complete(app), ~Collide(app), ~Unnamed(app)
             PROVE  /\ Deployed(app) = Developed(app, base)
                    /\ ~singleProcess(app) => Deployed(app) = Split(app, base)
  BY DEF BehavesAsDeveloped
<1>1. app.env # NoEnv
  BY DEF Unnamed
<1>2. ASSUME NEW F, SaysTheSame(app, F), NEW cwd \in {"release", "app", "elsewhere"}
      PROVE  Behaviour(app, F, cwd) = Intended(app)
  BY <1>1, <1>2, SourcesTell, BehavesAsIntended
<1>3. Deployed(app) = {Intended(app)}
  <2>1. ASSUME NEW index PROVE Behaviour(app, UnitFlags(app, index), "release") = Intended(app)
    BY <1>1, UnitsTell, BehavesAsIntended
  <2>2. \A u \in SystemdUnits(app) : \E index : u.flags = UnitFlags(app, index)
    BY DEF SystemdUnits, Unit, UnitFlags
  <2>3. SystemdUnits(app) # {}
    <3>1. Len(Order(app)) \in Nat /\ DOMAIN Order(app) = 1..Len(Order(app)) /\ Len(Order(app)) # 0
      BY ListLen, EmptySeq DEF IsResolved, IsDeclaration, Order, IsList
    <3>2. 1 \in DOMAIN Order(app)
      BY <3>1
    <3> QED
      BY <3>2 DEF SystemdUnits
  <2> QED
    BY <2>1, <2>2, <2>3 DEF Deployed
<1>4. Developed(app, base) = {Intended(app)}
  <2> DEFINE c == IF base = <<"off">> \/ EnvAddr(app, "dashboard") # <<>> THEN <<>>
                  ELSE <<<<"dashboard", base>>, <<"dashboard-traces", 300>>>>
  <2>1. IsList(c) /\ \A f \in OfNode : Said(c, f) = {}
    BY DashboardIsNoMatter
  <2>2. runApp(app, base).flags = Flags(app) \o c /\ runApp(app, base).cwd \in {"app", "elsewhere"}
    BY DEF runApp
  <2> HIDE DEF c
  <2>3. SaysTheSame(app, Flags(app) \o c)
    BY <1>1, <2>1, FlagsSaySo, MoreIsTheSame
  <2> QED
    BY <1>2, <2>2, <2>3 DEF Developed
<1>5. ~singleProcess(app) => Split(app, base) = {Intended(app)}
  <2> DEFINE w == withoutDashboard(Flags(app))
             c(i) == IF base = <<"off">> THEN <<>>
                     ELSE <<<<"dashboard", offsetPort(base, i)>>, <<"dashboard-traces", 300>>>>
             m(i) == GivenAddr("metrics-addr", offsetPort(EnvAddr(app, "metrics"), i))
  <2>1. ASSUME NEW i PROVE IsList(c(i)) /\ \A f \in OfNode : Said(c(i), f) = {}
    BY DashboardIsNoMatter
  <2>2. ASSUME NEW i PROVE IsList(m(i)) /\ \A f \in OfNode : Said(m(i), f) = {}
    BY SaidIfServed DEF Once, OfNode
  <2>3. runSplit(app, base) = {[node |-> Order(app)[i], cwd |-> "app", flags |-> (w \o c(i)) \o m(i)] :
                                 i \in DOMAIN Order(app)}
    BY DEF runSplit
  <2>4. SaysTheSame(app, w)
    BY <1>1, FewerIsTheSame
  <2> HIDE DEF w, c, m
  <2>5. ASSUME NEW i PROVE SaysTheSame(app, (w \o c(i)) \o m(i))
    <3>1. SaysTheSame(app, w \o c(i))
      BY <1>1, <2>1, <2>4, MoreIsTheSame
    <3> QED
      BY <1>1, <2>2, <3>1, MoreIsTheSame
  <2>6. \A p \in runSplit(app, base) : Behaviour(app, p.flags, p.cwd) = Intended(app)
    <3> DEFINE x(i) == (w \o c(i)) \o m(i)
    <3>1. ASSUME NEW i PROVE Behaviour(app, x(i), "app") = Intended(app)
      BY <1>2, <2>5
    <3>2. \A p \in runSplit(app, base) : p.cwd = "app" /\ \E i : p.flags = x(i)
      BY <2>3
    <3> HIDE DEF x
    <3> QED
      BY <3>1, <3>2
  <2>7. runSplit(app, base) # {}
    <3>1. Len(Order(app)) \in Nat /\ DOMAIN Order(app) = 1..Len(Order(app)) /\ Len(Order(app)) # 0
      BY ListLen, EmptySeq DEF IsResolved, IsDeclaration, Order, IsList
    <3>2. 1 \in DOMAIN Order(app)
      BY <3>1
    <3> QED
      BY <2>3, <3>2
  <2> QED
    BY <2>6, <2>7 DEF Split
<1> QED
  BY <1>3, <1>4, <1>5

\* The order systemd is given.
RankIs(app, i) == Rank(app, Order(app)[i]) = i

\* The rank of a node is its place.
LEMMA RanksArePlaces ==
  ASSUME NEW app, IsResolved(app), NEW i \in DOMAIN Order(app)
  PROVE  RankIs(app, i)
<1>1. \A j \in DOMAIN Order(app) : Order(app)[j] = Order(app)[i] => j = i
  BY DEF IsResolved, IsDeclaration, IsInjective, Order
<1> QED
  BY <1>1 DEF Rank, RankIs

\* A unit that comes first is after none, and what a node is after comes before it.
LEMMA UnitsAreOrdered ==
  ASSUME NEW app, IsResolved(app)
  PROVE  Ordered(app)
<1> DEFINE o == Order(app)
           U(i) == Unit(app, o[i], After(app, o[i]), i)
           D == app.decl.deps
<1>1. Len(o) \in Nat /\ DOMAIN o = 1..Len(o) /\ \A i \in DOMAIN o : o[i] \in ToSet(o)
  BY ListLen DEF IsResolved, IsDeclaration, Order
<1>2. /\ Unset \notin ToSet(o)
      /\ \A n \in ToSet(o) : D[n] \subseteq ToSet(o)
      /\ \A i, j \in DOMAIN o : o[i] \in D[o[j]] /\ o[j] \notin Looped(app.decl) => i < j
  BY DEF IsResolved, IsDeclaration, Order
<1>3. \A i \in DOMAIN o : Rank(app, o[i]) = i
  BY RanksArePlaces DEF RankIs
<1>4. \A n : After(app, n) = {p \in D[n] : Rank(app, p) < Rank(app, n)}
  BY DEF After
<1>5. \A i : U(i).node = o[i] /\ U(i).after = After(app, o[i])
  BY DEF Unit
<1>6. CASE singleProcess(app)
  <2>1. SystemdUnits(app) = {Unit(app, Unset, {}, 1)}
    BY <1>6 DEF SystemdUnits
  <2>2. Unit(app, Unset, {}, 1).node = Unset /\ Unit(app, Unset, {}, 1).after = {}
    BY DEF Unit
  <2> QED
    BY <2>1, <2>2 DEF Ordered
<1>7. CASE ~singleProcess(app)
  <2>1. SystemdUnits(app) = {U(i) : i \in DOMAIN o}
    BY <1>7 DEF SystemdUnits
  <2> HIDE DEF o, U, D
  <2>2. ASSUME NEW S \in (SUBSET SystemdUnits(app)) \ {{}}
        PROVE  \E u \in S : \A v \in S : v.node \notin u.after
    <3> DEFINE K == {i \in DOMAIN o : U(i) \in S}
    <3>1. K \subseteq Nat /\ K # {}
      BY <1>1, <2>1
    <3>2. PICK i \in K : \A j \in K : i <= j
      <4> HIDE DEF K
      <4> QED
        BY <3>1, Least
    <3>3. ASSUME NEW v \in S PROVE v.node \notin U(i).after
      <4>1. PICK j \in DOMAIN o : v = U(j)
        BY <2>1
      <4>2. i \in DOMAIN o /\ i <= j /\ i \in Nat /\ j \in Nat
        BY <1>1, <3>2, <4>1
      <4>3. ~(Rank(app, o[j]) < Rank(app, o[i]))
        BY <1>3, <4>2
      <4> QED
        BY <1>4, <1>5, <4>1, <4>3
    <3> QED
      BY <3>2, <3>3
  <2>3. ASSUME NEW u \in SystemdUnits(app), u.node \notin Looped(app.decl)
        PROVE  u.after = D[u.node]
    <3>1. PICK i \in DOMAIN o : u = U(i)
      BY <2>1
    <3>2. u.node = o[i] /\ u.after = After(app, o[i])
      BY <1>5, <3>1
    <3>3. ASSUME NEW p \in D[o[i]] PROVE Rank(app, p) < Rank(app, o[i])
      <4>1. p \in ToSet(o)
        BY <1>1, <1>2
      <4>2. PICK j \in DOMAIN o : p = o[j]
        BY <4>1 DEF ToSet
      <4> QED
        BY <1>2, <1>3, <2>3, <3>2, <4>2
    <3> QED
      BY <1>4, <3>2, <3>3
  <2> QED
    BY <2>2, <2>3 DEF Ordered, D
<1> QED
  BY <1>6, <1>7

\* A place of its own.
LEMMA ReleasesStart ==
  ASSUME NEW app, IsResolved(app)
  PROVE  ReleaseCanStart(app, NoDeploy)
<1> DEFINE o == applyDefaults(app, NoDeploy)
           d == IF app.env = NoEnv THEN NoDeploy ELSE DeployOf(app.env)
           host == IF Or(NoDeploy.host, d.host) = "local" THEN Unset ELSE Or(NoDeploy.host, d.host)
           scope == Or(NoDeploy.scope, Or(d.scope, "system"))
<1>1. Unset # UserHome /\ "/opt/conductor" # UserHome
  <2>1. Unset # UserHome
    BY Zenon DEF Unset, UserHome
  <2>2. "/opt/conductor" # UserHome
    BY DEF UserHome
  <2> QED
    BY <2>1, <2>2
<1>2. NoDeploy.prefix = Unset
  BY DEF NoDeploy
<1>3. d.prefix # UserHome
  BY <1>1, <1>2 DEF IsResolved, DeployOf
<1>4. o.prefix = Or(NoDeploy.prefix, Or(d.prefix, defaultPrefix(scope, host))) /\ o.host = host
  BY DEF applyDefaults
<1> HIDE DEF o, d, host, scope
<1>5. o.prefix = UserHome => o.host = Unset
  BY <1>1, <1>2, <1>3, <1>4 DEF Or, defaultPrefix
<1>6. validate(app, o) /\ transportName(app) \in {"inproc", "zenoh"} => transportName(app) \in Transports(o)
  BY DEF validate, Transports
<1> QED
  BY <1>5, <1>6 DEF ReleaseCanStart, o

\* Where a unit serves.
ServedAt(app, field, index) == offsetPort(EnvAddr(app, field), index)

\* A unit serves at the port of the environment, moved by its place (offsetPort).
LEMMA UnitsServe ==
  ASSUME NEW app, IsResolved(app), NEW index
  PROVE  /\ Value(UnitFlags(app, index), "metrics-addr", <<>>) = ServedAt(app, "metrics", index)
         /\ Value(UnitFlags(app, index), "dashboard", <<>>) = ServedAt(app, "dashboard", index)
<1> DEFINE F == UnitFlags(app, index)
           m == ServedAt(app, "metrics", index)
           d == ServedAt(app, "dashboard", index)
<1>1. ASSUME NEW f \in {"metrics-addr", "dashboard"}
      PROVE  IsList(F) /\ Said(F, f) = SaidOfServed(m, d, f)
  <2>1. Said(runtimeFlags(app), f) = {}
    <3>1. CASE app.env = NoEnv
      BY <3>1, SaidByNone DEF runtimeFlags
    <3>2. CASE app.env # NoEnv
      <4>1. IsList(app.env.params)
        BY <3>2 DEF IsResolved
      <4>2. /\ SaidOfTransport(app.env, f) = {} /\ Once(TRUE, "params", InRelease("params.yaml"), f) = {}
            /\ SaidOfParams(ToldInside(app), f) = {} /\ Once(app.env.trace, "trace", TRUE, f) = {}
            /\ SaidOfFiles(app, InRelease("frames.json"), InRelease("groups.json"),
                           InRelease(BaseName(app.descriptionFile)), f) = {}
        BY DEF SaidOfTransport, Once, SaidOfParams, SaidOfFiles
      <4>3. Said(runtimeFlags(app), f) =
              (((SaidOfTransport(app.env, f) \cup Once(TRUE, "params", InRelease("params.yaml"), f))
                \cup SaidOfParams(ToldInside(app), f))
               \cup SaidOfFiles(app, InRelease("frames.json"), InRelease("groups.json"),
                                InRelease(BaseName(app.descriptionFile)), f))
              \cup Once(app.env.trace, "trace", TRUE, f)
        BY <3>2, <4>1, SaidByUnits
      <4> QED
        BY <4>2, <4>3
    <3> QED
      BY <3>1, <3>2
  <2>2. IsList(F) /\ Said(F, f) = Said(runtimeFlags(app), f) \cup SaidOfServed(m, d, f)
    BY SaidByUnit DEF ServedAt
  <2> QED
    BY <2>1, <2>2
<1> HIDE DEF F, m, d
<1>2. Said(F, "metrics-addr") = IF m = <<>> THEN {} ELSE {m}
  BY <1>1 DEF SaidOfServed, Once
<1>3. Said(F, "dashboard") = IF d = <<>> THEN {} ELSE {d}
  BY <1>1 DEF SaidOfServed, Once
<1>4. Value(F, "metrics-addr", <<>>) = m
  BY <1>1, <1>2, ValueSaid
<1>5. Value(F, "dashboard", <<>>) = d
  BY <1>1, <1>3, ValueSaid
<1> QED
  BY <1>4, <1>5 DEF F, m, d

\* No two units serve on one port.
LEMMA UnitsArePortsApart ==
  ASSUME NEW app, IsResolved(app)
  PROVE  PortsAreApart(app)
<1> DEFINE m == EnvAddr(app, "metrics")
           d == EnvAddr(app, "dashboard")
           N == Len(Order(app))
           M(i) == ServedAt(app, "metrics", i)
           A(i) == ServedAt(app, "dashboard", i)
<1> SUFFICES ASSUME Len(m) # 1, Len(d) # 1, Len(m) = 2 /\ Len(d) = 2 => (m[2] - d[2]) \notin (-N)..N
             PROVE  \A u, v \in SystemdUnits(app) : u # v => Ports(u.flags) \cap Ports(v.flags) = {}
  BY DEF PortsAreApart
<1>1. IsAddress(m) /\ IsAddress(d)
  BY DEF IsResolved, EnvAddr, IsAddress
<1>2. /\ m = <<>> \/ (Len(m) = 2 /\ m[2] \in Nat)
      /\ d = <<>> \/ (Len(d) = 2 /\ d[2] \in Nat)
  BY <1>1 DEF IsAddress
<1>3. /\ \A i : M(i) = IF Len(m) = 2 THEN <<m[1], m[2] + i - 1>> ELSE m
      /\ \A i : A(i) = IF Len(d) = 2 THEN <<d[1], d[2] + i - 1>> ELSE d
  BY DEF ServedAt, offsetPort
<1>4. Len(<<>>) = 0
  BY ListOfNone
<1>5. N \in Nat /\ DOMAIN Order(app) = 1..N
  BY ListLen DEF IsResolved, IsDeclaration, Order
<1>6. \A i : Ports(UnitFlags(app, i)) = {M(i), A(i)} \ {<<>>}
  <2> SUFFICES ASSUME NEW i PROVE Ports(UnitFlags(app, i)) = {M(i), A(i)} \ {<<>>}
    OBVIOUS
  <2> HIDE DEF M, A
  <2>1. /\ Value(UnitFlags(app, i), "metrics-addr", <<>>) = M(i)
        /\ Value(UnitFlags(app, i), "dashboard", <<>>) = A(i)
    BY UnitsServe DEF M, A
  <2> QED
    BY <2>1 DEF Ports
<1> HIDE DEF m, d, N, M, A
<1>7. ASSUME NEW i \in 1..N, NEW j \in 1..N, i # j
      PROVE  ({M(i), A(i)} \ {<<>>}) \cap ({M(j), A(j)} \ {<<>>}) = {}
  <2>1. M(i) = M(j) => M(i) = <<>>
    BY <1>2, <1>3, <1>4, <1>5, <1>7
  <2>2. A(i) = A(j) => A(i) = <<>>
    BY <1>2, <1>3, <1>4, <1>5, <1>7
  <2>3. ASSUME NEW k \in 1..N, NEW l \in 1..N, M(k) = A(l) PROVE M(k) = <<>>
    <3>1. CASE Len(m) = 2 /\ Len(d) = 2
      <4>1. m[2] + k - 1 = d[2] + l - 1
        BY <1>3, <2>3, <3>1
      <4>2. m[2] \in Nat /\ d[2] \in Nat
        BY <1>2, <1>4, <3>1
      <4>3. m[2] - d[2] = l - k /\ l - k \in (-N)..N
        BY <1>5, <4>1, <4>2
      <4> QED
        BY <3>1, <4>3
    <3>2. CASE Len(m) # 2
      BY <1>2, <1>3, <3>2
    <3>3. CASE Len(d) # 2
      BY <1>2, <1>3, <2>3, <3>3
    <3> QED
      BY <3>1, <3>2, <3>3
  <2>4. M(i) = A(j) => M(i) = <<>>
    BY <2>3
  <2>5. M(j) = A(i) => M(j) = <<>>
    BY <2>3
  <2> QED
    BY <2>1, <2>2, <2>4, <2>5
<1>8. CASE singleProcess(app)
  BY <1>8 DEF SystemdUnits
<1>9. CASE ~singleProcess(app)
  <2> DEFINE U(i) == Unit(app, Order(app)[i], After(app, Order(app)[i]), i)
             P(i) == {M(i), A(i)} \ {<<>>}
  <2>1. SystemdUnits(app) = {U(i) : i \in 1..N}
    BY <1>5, <1>9 DEF SystemdUnits
  <2>2. \A i : U(i).flags = UnitFlags(app, i)
    BY DEF Unit, UnitFlags
  <2>3. ASSUME NEW i PROVE Ports(U(i).flags) = P(i)
    BY <1>6, <2>2
  <2>4. ASSUME NEW i \in 1..N, NEW j \in 1..N, i # j PROVE P(i) \cap P(j) = {}
    BY <1>7, <2>4
  <2> HIDE DEF U, P
  <2> SUFFICES ASSUME NEW u \in SystemdUnits(app), NEW v \in SystemdUnits(app), u # v
               PROVE  Ports(u.flags) \cap Ports(v.flags) = {}
    OBVIOUS
  <2>5. PICK i \in 1..N : u = U(i)
    BY <2>1
  <2>6. PICK j \in 1..N : v = U(j)
    BY <2>1
  <2>7. P(i) \cap P(j) = {}
    BY <2>4, <2>5, <2>6
  <2> QED
    BY <2>3, <2>5, <2>6, <2>7
<1> QED
  BY <1>8, <1>9

\* The fleet view asks the units.
UnitPeers(on) ==
  {[node |-> u.node, robot |-> on.robot, url |-> peerURL(peerHost(on), Value(u.flags, "dashboard", <<>>))] :
     u \in {v \in SystemdUnits(on) : Value(v.flags, "dashboard", <<>>) # <<>>}}

\* Peer by peer, for one robot,
LEMMA PeersOfUnits ==
  ASSUME NEW on, IsResolved(on)
  PROVE  Peers(on) = UnitPeers(on)
<1> DEFINE d == EnvAddr(on, "dashboard")
           K == IF singleProcess(on) THEN {1} ELSE DOMAIN Order(on)
           Node(i) == IF singleProcess(on) THEN Unset ELSE Order(on)[i]
           U(i) == IF singleProcess(on) THEN Unit(on, Unset, {}, 1)
                   ELSE Unit(on, Order(on)[i], After(on, Order(on)[i]), i)
           P(i) == [node |-> Node(i), robot |-> on.robot,
                    url |-> peerURL(peerHost(on), offsetPort(d, i))]
           Q(u) == [node |-> u.node, robot |-> on.robot,
                    url |-> peerURL(peerHost(on), Value(u.flags, "dashboard", <<>>))]
<1>1. SystemdUnits(on) = {U(i) : i \in K}
  BY DEF SystemdUnits
<1>2. ASSUME NEW i \in K PROVE U(i).node = Node(i) /\ Value(U(i).flags, "dashboard", <<>>) = offsetPort(d, i)
  <2>1. U(i).node = Node(i) /\ U(i).flags = UnitFlags(on, i)
    BY DEF Unit, UnitFlags
  <2> HIDE DEF U
  <2>2. Value(UnitFlags(on, i), "dashboard", <<>>) = offsetPort(d, i)
    BY UnitsServe DEF ServedAt
  <2> QED
    BY <2>1, <2>2
<1>3. \A i : offsetPort(d, i) = <<>> <=> d = <<>>
  <2>1. Len(<<>>) = 0
    BY ListOfNone
  <2> QED
    BY <2>1 DEF offsetPort
<1>4. Peers(on) = IF d = <<>> THEN {} ELSE {P(i) : i \in K}
  <2>1. CASE d = <<>>
    BY <2>1 DEF Peers
  <2>2. CASE d # <<>>
    <3>1. on.env # NoEnv
      BY <2>2 DEF EnvAddr
    <3>2. d = on.env.dashboard
      BY <3>1 DEF EnvAddr
    <3> QED
      BY <2>2, <3>2 DEF Peers
  <2> QED
    BY <2>1, <2>2
<1>5. UnitPeers(on) = {Q(u) : u \in {v \in SystemdUnits(on) : Value(v.flags, "dashboard", <<>>) # <<>>}}
  BY DEF UnitPeers
<1>6. ASSUME NEW i \in K PROVE Q(U(i)) = P(i)
  BY <1>2
<1> HIDE DEF d, K, Node, U, P, Q
<1> QED
  BY <1>1, <1>2, <1>3, <1>4, <1>5, <1>6

\* and for all of them (Peers, FleetPeers).
LEMMA FleetAsksUnits ==
  ASSUME NEW app, \A i \in DOMAIN OnEach(app) : \A on \in OnEach(app)[i] : IsResolved(on)
  PROVE  PeersAreUnits(app)
<1> DEFINE ons == UNION ToSet(OnEach(app))
<1>1. \A on \in ons : Peers(on) = UnitPeers(on)
  BY PeersOfUnits DEF ToSet
<1>2. \A peers \in FleetPeers(app) : peers = UNION {Peers(on) : on \in ons}
  BY DEF FleetPeers
<1> HIDE DEF ons
<1>3. UNION {Peers(on) : on \in ons} = UNION {UnitPeers(on) : on \in ons}
  BY <1>1
<1> QED
  BY <1>2, <1>3 DEF PeersAreUnits, UnitPeers, ons

\* A list that starts as another is a prefix of it.
LEMMA StartsAlike ==
  ASSUME NEW s, NEW t, IsList(s), IsList(t), Len(s) <= Len(t), \A i \in 1..Len(s) : s[i] = t[i]
  PROVE  IsPrefix(s, t)
<1> DEFINE n == Len(s)
           T == ToSet(s)
           x == SubSeq(s, 1, n)
           y == SubSeq(t, 1, n)
<1>1. n \in Nat /\ \A i \in 1..n : s[i] \in T
  BY ListLen
<1>2. \A i \in 1..n : t[i] \in T /\ s[i] = t[i]
  BY <1>1
<1> HIDE DEF n, T
<1>3. x \in Seq(T) /\ Len(x) = (IF 1 <= n THEN n - 1 + 1 ELSE 0) /\ \A i \in 1..(n - 1 + 1) : x[i] = s[1 + i - 1]
  BY <1>1, SubSeqProperties
<1>4. y \in Seq(T) /\ Len(y) = (IF 1 <= n THEN n - 1 + 1 ELSE 0) /\ \A i \in 1..(n - 1 + 1) : y[i] = t[1 + i - 1]
  BY <1>1, <1>2, SubSeqProperties
<1> HIDE DEF x, y
<1>5. Len(x) = n /\ Len(y) = n
  BY <1>1, <1>3, <1>4
<1>6. \A i \in 1..n : x[i] = y[i]
  <2> SUFFICES ASSUME NEW i \in 1..n PROVE x[i] = y[i]
    OBVIOUS
  <2>1. i \in 1..(n - 1 + 1) /\ 1 + i - 1 = i
    BY <1>1
  <2> QED
    BY <1>2, <1>3, <1>4, <2>1
<1>7. x = y
  BY <1>3, <1>4, <1>5, <1>6, SeqEqual
<1> QED
  BY <1>7 DEF IsPrefix, x, y, n

\* Two lists one after the other start as the first and end as the second.
LEMMA JoinedStartsAndEnds ==
  ASSUME NEW a, NEW b, IsList(a), IsList(b)
  PROVE  IsPrefix(a, a \o b) /\ IsSuffix(b, a \o b)
<1> DEFINE c == a \o b
           m == Len(a)
           n == Len(b)
           rb == Reverse(b)
           rc == Reverse(c)
<1>1. /\ IsList(c) /\ Len(c) = m + n /\ m \in Nat /\ n \in Nat
      /\ \A i \in 1..m : c[i] = a[i]
      /\ \A i \in 1..n : c[m + i] = b[i]
  BY ListsJoin, ListLen
<1>2. IsPrefix(a, c)
  <2>1. Len(a) <= Len(c)
    <3> HIDE DEF c, m, n
    <3>1. m <= Len(c)
      BY <1>1
    <3> QED
      BY <3>1 DEF m
  <2>2. \A i \in 1..Len(a) : a[i] = c[i]
    BY <1>1
  <2> HIDE DEF c
  <2> QED
    BY <1>1, <2>1, <2>2, StartsAlike
<1>3. /\ rb = [i \in 1..n |-> rb[i]] /\ \A i \in 1..n : rb[i] = b[(n - i) + 1]
  BY DEF Reverse
<1>4. /\ rc = [i \in 1..Len(c) |-> rc[i]] /\ \A i \in 1..Len(c) : rc[i] = c[(Len(c) - i) + 1]
  BY DEF Reverse
<1> HIDE DEF c, m, n, rb, rc
<1>5. IsList(rb) /\ Len(rb) = n
  BY <1>1, <1>3, ListMade
<1>6. IsList(rc) /\ Len(rc) = m + n
  <2>1. m + n \in Nat /\ rc = [i \in 1..(m + n) |-> rc[i]]
    BY <1>1, <1>4
  <2> QED
    BY <2>1, ListMade
<1>7. ASSUME NEW i \in 1..n PROVE rb[i] = rc[i]
  <2>1. i \in 1..(m + n) /\ (n - i) + 1 \in 1..n /\ ((m + n) - i) + 1 = m + ((n - i) + 1)
    BY <1>1
  <2>2. rc[i] = c[m + ((n - i) + 1)]
    BY <1>1, <1>4, <2>1
  <2> QED
    BY <1>1, <1>3, <2>1, <2>2
<1>8. Len(rb) <= Len(rc)
  BY <1>1, <1>5, <1>6
<1>9. IsPrefix(rb, rc)
  BY <1>5, <1>6, <1>7, <1>8, StartsAlike
<1> QED
  BY <1>2, <1>9 DEF IsSuffix, rb, rc, c

-----------------------------------------------------------------------------
(* What is resolved.                                                         *)

\* An application with an environment of its declaration.
OfDeclaration(app) ==
  /\ IsResolved(app)
  /\ {"env", "robot", "decl", "framesFile", "groupsFile", "descriptionFile"} \subseteq DOMAIN app
  /\ app.env # NoEnv =>
       /\ IsEnvironment(app.env)
       /\ app.framesFile = IF app.env.frames # NoFile THEN app.env.frames
                           ELSE BesideConfig(app.decl, "frames.json")

\* A frames file that is named is there and is taken (resolveFrames).
LEMMA FramesResolved ==
  ASSUME NEW app, NEW frames, NEW out \in resolveFrames(app, frames), "framesFile" \in DOMAIN app
  PROVE  /\ DOMAIN out = DOMAIN app
         /\ \A x \in DOMAIN app : x # "framesFile" => out[x] = app[x]
         /\ frames = NoFile => out = app
         /\ frames # NoFile => out.framesFile = frames /\ frames \in app.decl.files
BY DEF resolveFrames

\* An environment is not the lack of one.
LEMMA EnvironmentIsGiven ==
  ASSUME NEW env, IsEnvironment(env)
  PROVE  env # NoEnv
<1>1. "params" \in DOMAIN env
  BY DEF IsEnvironment
<1>2. DOMAIN NoEnv = {"name"}
  BY DEF NoEnv
<1> QED
  BY <1>1, <1>2

\* What ScanApp reads and Resolve makes of it.
LEMMA ResolvedApps ==
  ASSUME NEW decl, IsDeclaration(decl), NEW given, NEW scanned \in ScanApp(decl),
         NEW app \in Resolve(scanned, given)
  PROVE  OfDeclaration(app)
<1> DEFINE besides == BesideConfig(decl, "frames.json")
           name == Or(given, scanned.decl.default)
<1>1. scanned = [decl |-> decl, env |-> NoEnv, robot |-> NoRobot, externals |-> decl.externals,
                 framesFile |-> besides, groupsFile |-> BesideConfig(decl, "groups.json"),
                 descriptionFile |-> loadDescription(decl)]
  BY DEF ScanApp
<1>2. /\ besides = NoFile => Beside("frames.json") \notin decl.files
      /\ besides # NoFile => besides \in decl.files
  BY DEF BesideConfig, Beside, NoFile
<1> HIDE DEF besides
<1>3. /\ DOMAIN scanned = {"decl", "env", "robot", "externals", "framesFile", "groupsFile", "descriptionFile"}
      /\ scanned.decl = decl /\ scanned.env = NoEnv /\ scanned.framesFile = besides
      /\ scanned.groupsFile = BesideConfig(decl, "groups.json")
      /\ scanned.descriptionFile = loadDescription(decl)
  BY <1>1
<1> HIDE DEF name
<1>4. CASE name = Unset
  <2>1. app = scanned
    BY <1>4 DEF Resolve, name
  <2> QED
    BY <1>2, <1>3, <2>1 DEF OfDeclaration, IsResolved
<1>5. CASE name # Unset
  <2> DEFINE E(e) == decl.environments[e]
             on(e) == [scanned EXCEPT !.env = E(e), !.externals = mergeExternals(scanned.externals, E(e))]
  <2>1. PICK e \in DOMAIN decl.environments : app \in resolveFrames(on(e), E(e).frames)
    BY <1>3, <1>5 DEF Resolve, name
  <2>2. /\ DOMAIN on(e) = DOMAIN scanned /\ on(e).decl = decl /\ on(e).env = E(e)
        /\ on(e).framesFile = besides /\ on(e).groupsFile = BesideConfig(decl, "groups.json")
        /\ on(e).descriptionFile = loadDescription(decl)
    BY <1>3
  <2>3. IsEnvironment(E(e))
    BY DEF IsDeclaration
  <2> HIDE DEF E, on
  <2>4. /\ DOMAIN app = DOMAIN scanned /\ app.decl = decl /\ app.env = E(e)
        /\ app.groupsFile = BesideConfig(decl, "groups.json")
        /\ app.descriptionFile = loadDescription(decl)
        /\ E(e).frames = NoFile => app.framesFile = besides
        /\ E(e).frames # NoFile => app.framesFile = E(e).frames /\ E(e).frames \in decl.files
    BY <1>3, <2>1, <2>2, FramesResolved
  <2>5. IsResolved(app)
    <3>1. app.framesFile = NoFile => Beside("frames.json") \notin app.decl.files
      BY <1>2, <2>4
    <3>2. app.framesFile # NoFile => app.framesFile \in app.decl.files
      BY <1>2, <2>4
    <3> QED
      BY <2>3, <2>4, <3>1, <3>2 DEF IsResolved, IsEnvironment
  <2>6. app.framesFile = IF app.env.frames # NoFile THEN app.env.frames ELSE BesideConfig(app.decl, "frames.json")
    BY <2>4 DEF besides
  <2> QED
    BY <1>3, <2>3, <2>4, <2>5, <2>6 DEF OfDeclaration
<1> QED
  BY <1>4, <1>5

\* The section a robot writes over.
LEMMA DeployIsWhole ==
  ASSUME NEW env, IsEnvironment(env)
  PROVE  DOMAIN DeployOf(env) = DOMAIN NoDeploy /\ DeployOf(env).prefix # UserHome
<1>1. NoDeploy.prefix = Unset
  BY DEF NoDeploy
<1>2. Unset # UserHome
  BY Zenon DEF Unset, UserHome
<1> QED
  BY <1>1, <1>2 DEF DeployOf, IsEnvironment

\* What a robot makes of the application.
LEMMA RobotsResolved ==
  ASSUME NEW app, OfDeclaration(app), app.env # NoEnv, NEW robot, IsRobot(robot),
         NEW on \in ForRobot(app, robot)
  PROVE  /\ IsResolved(on) /\ on.env # NoEnv
         /\ on.framesFile = IF robot.frames # NoFile THEN robot.frames ELSE app.framesFile
         /\ on.decl = app.decl /\ on.env.params = app.env.params \o robot.params
         /\ on.env.deploy # <<>> /\ on.env.deploy[1].host = Or(robot.host, DeployOf(app.env).host)
<1> DEFINE env == app.env
           d == DeployOf(env)
           sec == [d EXCEPT !.host = Or(robot.host, @), !.prefix = Or(robot.prefix, @),
                            !.scope = Or(robot.scope, @)]
           ps == env.params \o robot.params
           met == OrAddr(robot.metrics, env.metrics)
           das == OrAddr(robot.dashboard, env.dashboard)
           own == [env EXCEPT !.robots = <<>>, !.domain = Or(robot.domain, @),
                              !.endpoint = Or(robot.endpoint, @), !.metrics = OrAddr(robot.metrics, @),
                              !.dashboard = OrAddr(robot.dashboard, @), !.params = @ \o robot.params,
                              !.deploy = <<sec>>]
           mine == [app EXCEPT !.env = own, !.robot = robot.name]
<1>1. on \in resolveFrames(mine, robot.frames)
  BY DEF ForRobot
<1>2. IsEnvironment(env) /\ {"env", "robot", "framesFile"} \subseteq DOMAIN app
  BY DEF OfDeclaration
<1>3. DOMAIN d = DOMAIN NoDeploy /\ d.prefix # UserHome
  BY <1>2, DeployIsWhole
<1>4. sec.host = Or(robot.host, d.host) /\ sec.prefix = Or(robot.prefix, d.prefix)
  <2>1. {"host", "prefix", "scope"} \subseteq DOMAIN d
    BY <1>3 DEF NoDeploy
  <2> HIDE DEF d
  <2> QED
    BY <2>1
<1>5. sec.prefix # UserHome
  BY <1>3, <1>4 DEF IsRobot, Or
<1> HIDE DEF d, sec
<1>6. /\ DOMAIN own = DOMAIN env /\ own.params = ps /\ own.metrics = met /\ own.dashboard = das
      /\ own.deploy = <<sec>>
  <2>1. {"robots", "domain", "endpoint", "metrics", "dashboard", "params", "deploy"} \subseteq DOMAIN env
    BY <1>2 DEF IsEnvironment
  <2> HIDE DEF env
  <2> QED
    BY <2>1
<1>7. IsList(ps)
  BY <1>2, ListsJoin DEF IsEnvironment, IsRobot
<1>8. IsAddress(met) /\ IsAddress(das)
  BY <1>2 DEF IsEnvironment, IsRobot, OrAddr
<1>9. own # NoEnv
  <2>1. "params" \in DOMAIN own
    BY <1>2, <1>6 DEF IsEnvironment
  <2>2. DOMAIN NoEnv = {"name"}
    BY DEF NoEnv
  <2> HIDE DEF own
  <2> QED
    BY <2>1, <2>2
<1> HIDE DEF own, ps, met, das, env
<1>10. /\ DOMAIN mine = DOMAIN app /\ mine.env = own /\ mine.decl = app.decl
       /\ mine.framesFile = app.framesFile /\ mine.groupsFile = app.groupsFile
       /\ mine.descriptionFile = app.descriptionFile
  BY <1>2
<1> HIDE DEF mine
<1>11. IsResolved(app) /\ {"decl", "groupsFile", "descriptionFile"} \subseteq DOMAIN app
  BY DEF OfDeclaration
<1>12. /\ on.env = own /\ on.decl = app.decl /\ on.groupsFile = app.groupsFile
       /\ on.descriptionFile = app.descriptionFile
       /\ robot.frames = NoFile => on.framesFile = app.framesFile
       /\ robot.frames # NoFile => on.framesFile = robot.frames /\ robot.frames \in app.decl.files
  BY <1>1, <1>2, <1>10, <1>11, FramesResolved
<1>13. IsResolved(on)
  <2>1. own.deploy[1].prefix # UserHome
    BY <1>5, <1>6
  <2>2. on.framesFile = NoFile => Beside("frames.json") \notin on.decl.files
    BY <1>11, <1>12 DEF IsResolved
  <2>3. on.framesFile # NoFile => on.framesFile \in on.decl.files
    BY <1>11, <1>12 DEF IsResolved
  <2> QED
    BY <1>6, <1>7, <1>8, <1>11, <1>12, <2>1, <2>2, <2>3 DEF IsResolved
<1>14. on.env.deploy # <<>> /\ on.env.deploy[1].host = Or(robot.host, DeployOf(app.env).host)
  BY <1>4, <1>6, <1>12 DEF d, env
<1> QED
  BY <1>6, <1>9, <1>12, <1>13, <1>14 DEF ps, env

\* What is left of the environment and of the robot (RobotConfig).
LEMMA RobotsKeepTheirs ==
  ASSUME NEW app, OfDeclaration(app)
  PROVE  RobotsAreThemselves(app)
<1> SUFFICES ASSUME NEW i \in DOMAIN Robots(app), NEW on \in ForRobot(app, Robots(app)[i])
             PROVE  /\ on.framesFile = IF Robots(app)[i].frames # NoFile THEN Robots(app)[i].frames
                                       ELSE IF app.env.frames # NoFile THEN app.env.frames
                                       ELSE BesideConfig(app.decl, "frames.json")
                    /\ on.framesFile # NoFile => on.framesFile \in app.decl.files
                    /\ IsSuffix(Robots(app)[i].params, envParams(on)) /\ IsPrefix(app.env.params, envParams(on))
                    /\ Robots(app)[i].host # Unset =>
                         applyDefaults(on, [NoDeploy EXCEPT !.scope = "system"]).host
                           = IF Robots(app)[i].host = "local" THEN Unset ELSE Robots(app)[i].host
  BY DEF RobotsAreThemselves
<1> DEFINE robot == Robots(app)[i]
           o == [NoDeploy EXCEPT !.scope = "system"]
<1>1. app.env # NoEnv
  BY DEF Robots
<1>2. IsEnvironment(app.env) /\ IsRobot(robot)
  BY <1>1 DEF OfDeclaration, IsEnvironment, Robots
<1>3. o.host = Unset
  BY DEF NoDeploy
<1> HIDE DEF robot, o
<1>4. /\ IsResolved(on) /\ on.env # NoEnv
      /\ on.framesFile = IF robot.frames # NoFile THEN robot.frames ELSE app.framesFile
      /\ on.decl = app.decl /\ on.env.params = app.env.params \o robot.params
      /\ on.env.deploy # <<>> /\ on.env.deploy[1].host = Or(robot.host, DeployOf(app.env).host)
  BY <1>1, <1>2, RobotsResolved DEF robot
<1>5. on.framesFile = IF robot.frames # NoFile THEN robot.frames
                      ELSE IF app.env.frames # NoFile THEN app.env.frames
                      ELSE BesideConfig(app.decl, "frames.json")
  BY <1>1, <1>4 DEF OfDeclaration
<1>6. on.framesFile # NoFile => on.framesFile \in app.decl.files
  BY <1>4 DEF IsResolved
<1>7. IsSuffix(robot.params, envParams(on)) /\ IsPrefix(app.env.params, envParams(on))
  <2>1. envParams(on) = app.env.params \o robot.params
    BY <1>4 DEF envParams
  <2>2. IsList(app.env.params) /\ IsList(robot.params)
    BY <1>2 DEF IsEnvironment, IsRobot
  <2> QED
    BY <2>1, <2>2, JoinedStartsAndEnds
<1>8. robot.host # Unset => applyDefaults(on, o).host = IF robot.host = "local" THEN Unset ELSE robot.host
  <2> DEFINE d == IF on.env = NoEnv THEN NoDeploy ELSE DeployOf(on.env)
             named == Or(o.host, d.host)
  <2>1. applyDefaults(on, o).host = IF named = "local" THEN Unset ELSE named
    BY DEF applyDefaults
  <2>2. d.host = Or(robot.host, DeployOf(app.env).host)
    BY <1>4 DEF DeployOf
  <2> HIDE DEF d
  <2>3. robot.host # Unset => named = robot.host
    BY <1>3, <2>2 DEF Or
  <2> HIDE DEF named
  <2> QED
    BY <2>1, <2>3
<1> QED
  BY <1>5, <1>6, <1>7, <1>8 DEF robot, o

\* Every application a command is about is resolved.
LEMMA EachIsResolved ==
  ASSUME NEW app, OfDeclaration(app), NEW i \in DOMAIN OnEach(app), NEW on \in OnEach(app)[i]
  PROVE  IsResolved(on)
<1>1. CASE Robots(app) = <<>>
  <2>1. OnEach(app) = <<{app}>>
    BY <1>1 DEF OnEach
  <2>2. i = 1 /\ on = app
    BY <2>1
  <2> QED
    BY <2>2 DEF OfDeclaration
<1>2. CASE Robots(app) # <<>>
  <2>1. app.env # NoEnv
    BY <1>2 DEF Robots
  <2>2. i \in DOMAIN Robots(app) /\ on \in ForRobot(app, Robots(app)[i])
    BY <1>2 DEF OnEach
  <2>3. IsRobot(Robots(app)[i])
    BY <2>1, <2>2 DEF OfDeclaration, IsEnvironment, Robots
  <2> QED
    BY <2>1, <2>2, <2>3, RobotsResolved
<1> QED
  BY <1>1, <1>2

-----------------------------------------------------------------------------
(* Rotations.                                                                *)

\* The units: no turn, half a turn about an axis, a third of one about a diagonal.
LEMMA UnitsAreFew ==
  ASSUME NEW x \in Int, NEW y \in Int, NEW z \in Int, NEW w \in Int, x*x + y*y + z*z + w*w = 4
  PROVE  \/ x \in {2, -2} /\ y = 0 /\ z = 0 /\ w = 0
         \/ x = 0 /\ y \in {2, -2} /\ z = 0 /\ w = 0
         \/ x = 0 /\ y = 0 /\ z \in {2, -2} /\ w = 0
         \/ x = 0 /\ y = 0 /\ z = 0 /\ w \in {2, -2}
         \/ x \in {1, -1} /\ y \in {1, -1} /\ z \in {1, -1} /\ w \in {1, -1}
BY SMTT(60)

\* A product of quaternions before it is halved.
Whole(a, b) == <<a[4]*b[1] + a[1]*b[4] + a[2]*b[3] - a[3]*b[2],
                 a[4]*b[2] - a[1]*b[3] + a[2]*b[4] + a[3]*b[1],
                 a[4]*b[3] + a[1]*b[2] - a[2]*b[1] + a[3]*b[4],
                 a[4]*b[4] - a[1]*b[1] - a[2]*b[2] - a[3]*b[3]>>
Quaternions == Int \X Int \X Int \X Int
Points == Int \X Int \X Int

LEMMA WholesAreQuaternions ==
  ASSUME NEW a \in Quaternions, NEW b \in Quaternions
  PROVE  Whole(a, b) \in Quaternions
BY DEF Whole, Quaternions

LEMMA Associates ==
  ASSUME NEW a \in Quaternions, NEW b \in Quaternions, NEW c \in Quaternions
  PROVE  Whole(Whole(a, b), c) = Whole(a, Whole(b, c))
<1> USE DEF Quaternions
<1>1. a[1] \in Int /\ a[2] \in Int /\ a[3] \in Int /\ a[4] \in Int
  OBVIOUS
<1>2. b[1] \in Int /\ b[2] \in Int /\ b[3] \in Int /\ b[4] \in Int
  OBVIOUS
<1>3. c[1] \in Int /\ c[2] \in Int /\ c[3] \in Int /\ c[4] \in Int
  OBVIOUS
<1> QED
  BY <1>1, <1>2, <1>3, SMTT(60) DEF Whole

LEMMA UnitParts ==
  ASSUME NEW q \in Rotations
  PROVE  /\ q \in Quaternions /\ q = <<q[1], q[2], q[3], q[4]>>
         /\ q[1] \in Int /\ q[2] \in Int /\ q[3] \in Int /\ q[4] \in Int
         /\ q[1]*q[1] + q[2]*q[2] + q[3]*q[3] + q[4]*q[4] = 4
BY DEF Rotations, Quaternions

LEMMA UnitCases ==
  ASSUME NEW q \in Rotations
  PROVE  \/ q[1] \in {2, -2} /\ q[2] = 0 /\ q[3] = 0 /\ q[4] = 0
         \/ q[1] = 0 /\ q[2] \in {2, -2} /\ q[3] = 0 /\ q[4] = 0
         \/ q[1] = 0 /\ q[2] = 0 /\ q[3] \in {2, -2} /\ q[4] = 0
         \/ q[1] = 0 /\ q[2] = 0 /\ q[3] = 0 /\ q[4] \in {2, -2}
         \/ q[1] \in {1, -1} /\ q[2] \in {1, -1} /\ q[3] \in {1, -1} /\ q[4] \in {1, -1}
<1>1. /\ q[1] \in Int /\ q[2] \in Int /\ q[3] \in Int /\ q[4] \in Int
      /\ q[1]*q[1] + q[2]*q[2] + q[3]*q[3] + q[4]*q[4] = 4
  BY UnitParts
<1> DEFINE x == q[1]
           y == q[2]
           z == q[3]
           w == q[4]
<1>2. x \in Int /\ y \in Int /\ z \in Int /\ w \in Int /\ x*x + y*y + z*z + w*w = 4
  BY <1>1
<1> HIDE DEF x, y, z, w
<1>3. \/ x \in {2, -2} /\ y = 0 /\ z = 0 /\ w = 0
      \/ x = 0 /\ y \in {2, -2} /\ z = 0 /\ w = 0
      \/ x = 0 /\ y = 0 /\ z \in {2, -2} /\ w = 0
      \/ x = 0 /\ y = 0 /\ z = 0 /\ w \in {2, -2}
      \/ x \in {1, -1} /\ y \in {1, -1} /\ z \in {1, -1} /\ w \in {1, -1}
  BY <1>2, UnitsAreFew
<1> QED
  BY <1>3 DEF x, y, z, w

Unit4(x, y, z, w) ==
  \/ x \in {2, -2} /\ y = 0 /\ z = 0 /\ w = 0
  \/ x = 0 /\ y \in {2, -2} /\ z = 0 /\ w = 0
  \/ x = 0 /\ y = 0 /\ z \in {2, -2} /\ w = 0
  \/ x = 0 /\ y = 0 /\ z = 0 /\ w \in {2, -2}
  \/ x \in {1, -1} /\ y \in {1, -1} /\ z \in {1, -1} /\ w \in {1, -1}
\* The four numbers that are halved are even, and their halves a unit.
Halved(p1, p2, p3, p4) ==
  LET m1 == Half(p1)
      m2 == Half(p2)
      m3 == Half(p3)
      m4 == Half(p4)
  IN /\ m1 \in Int /\ m2 \in Int /\ m3 \in Int /\ m4 \in Int
     /\ 2*m1 = p1 /\ 2*m2 = p2 /\ 2*m3 = p3 /\ 2*m4 = p4
     /\ m1*m1 + m2*m2 + m3*m3 + m4*m4 = 4
ProductHalved(x1, x2, x3, x4, y1, y2, y3, y4) ==
  Halved(x4*y1 + x1*y4 + x2*y3 - x3*y2, x4*y2 - x1*y3 + x2*y4 + x3*y1,
         x4*y3 + x1*y2 - x2*y1 + x3*y4, x4*y4 - x1*y1 - x2*y2 - x3*y3)

LEMMA ProductsHalve ==
  ASSUME NEW x1, NEW x2, NEW x3, NEW x4, NEW y1, NEW y2, NEW y3, NEW y4,
         Unit4(x1, x2, x3, x4), Unit4(y1, y2, y3, y4)
  PROVE  ProductHalved(x1, x2, x3, x4, y1, y2, y3, y4)
<1>1. /\ x1 \in Int /\ x2 \in Int /\ x3 \in Int /\ x4 \in Int
      /\ y1 \in Int /\ y2 \in Int /\ y3 \in Int /\ y4 \in Int
  BY DEF Unit4
<1> QED
  BY <1>1, SMTT(60) DEF Unit4, ProductHalved, Halved, Half

\* The product of two units is one: what is halved is even.
LEMMA UnitsMultiply ==
  ASSUME NEW a \in Rotations, NEW b \in Rotations
  PROVE  LET m == quatMul(a, b) IN
         m \in Rotations /\ Whole(a, b) = <<2*m[1], 2*m[2], 2*m[3], 2*m[4]>>
<1>1. Unit4(a[1], a[2], a[3], a[4]) /\ Unit4(b[1], b[2], b[3], b[4])
  BY UnitCases DEF Unit4
<1>2. ProductHalved(a[1], a[2], a[3], a[4], b[1], b[2], b[3], b[4])
  BY <1>1, ProductsHalve
<1> DEFINE p1 == a[4]*b[1] + a[1]*b[4] + a[2]*b[3] - a[3]*b[2]
           p2 == a[4]*b[2] - a[1]*b[3] + a[2]*b[4] + a[3]*b[1]
           p3 == a[4]*b[3] + a[1]*b[2] - a[2]*b[1] + a[3]*b[4]
           p4 == a[4]*b[4] - a[1]*b[1] - a[2]*b[2] - a[3]*b[3]
           m1 == Half(p1)
           m2 == Half(p2)
           m3 == Half(p3)
           m4 == Half(p4)
<1>3. Halved(p1, p2, p3, p4)
  BY <1>2 DEF ProductHalved
<1>4. quatMul(a, b) = <<m1, m2, m3, m4>> /\ Whole(a, b) = <<p1, p2, p3, p4>>
  BY DEF quatMul, Whole
<1> HIDE DEF p1, p2, p3, p4
<1>5. /\ m1 \in Int /\ m2 \in Int /\ m3 \in Int /\ m4 \in Int
      /\ 2*m1 = p1 /\ 2*m2 = p2 /\ 2*m3 = p3 /\ 2*m4 = p4
      /\ m1*m1 + m2*m2 + m3*m3 + m4*m4 = 4
  BY <1>3 DEF Halved
<1> HIDE DEF m1, m2, m3, m4
<1>6. <<m1, m2, m3, m4>> \in Rotations
  BY <1>5 DEF Rotations
<1> QED
  BY <1>4, <1>5, <1>6

Turned(x, y, z, w, v1, v2, v3) ==
  LET t1 == (y*v3 - z*v2) + w*v1
      t2 == (z*v1 - x*v3) + w*v2
      t3 == (x*v2 - y*v1) + w*v3
      r1 == v1 + Half(y*t3 - z*t2)
      r2 == v2 + Half(z*t1 - x*t3)
      r3 == v3 + Half(x*t2 - y*t1)
      p4 == -(x*v1 + y*v2 + z*v3)
  IN /\ r1 \in Int /\ r2 \in Int /\ r3 \in Int
     /\ 4*r1 = w*t1 - x*p4 - t2*z + t3*y
     /\ 4*r2 = w*t2 + t1*z - y*p4 - t3*x
     /\ 4*r3 = w*t3 - t1*y + t2*x - z*p4
     /\ 0 = p4*w + t1*x + t2*y + t3*z

LEMMA TurnsHalve ==
  ASSUME NEW x, NEW y, NEW z, NEW w, NEW v1 \in Int, NEW v2 \in Int, NEW v3 \in Int, Unit4(x, y, z, w)
  PROVE  Turned(x, y, z, w, v1, v2, v3)
<1>1. x \in Int /\ y \in Int /\ z \in Int /\ w \in Int
  BY DEF Unit4
<1> QED
  BY <1>1, SMTT(60) DEF Unit4, Turned, Half

\* Turning a point is multiplying on both sides.
LEMMA TurnsAreProducts ==
  ASSUME NEW q \in Rotations, NEW v \in Points
  PROVE  LET r == rotate(q, v) IN
         /\ r \in Points
         /\ Whole(Whole(q, <<v[1], v[2], v[3], 0>>), quatConj(q)) = <<4*r[1], 4*r[2], 4*r[3], 0>>
<1>1. v[1] \in Int /\ v[2] \in Int /\ v[3] \in Int
  BY DEF Points
<1> DEFINE x == q[1]
           y == q[2]
           z == q[3]
           w == q[4]
           v1 == v[1]
           v2 == v[2]
           v3 == v[3]
           t1 == (y*v3 - z*v2) + w*v1
           t2 == (z*v1 - x*v3) + w*v2
           t3 == (x*v2 - y*v1) + w*v3
           r1 == v1 + Half(y*t3 - z*t2)
           r2 == v2 + Half(z*t1 - x*t3)
           r3 == v3 + Half(x*t2 - y*t1)
           p4 == -(x*v1 + y*v2 + z*v3)
<1>4. /\ r1 \in Int /\ r2 \in Int /\ r3 \in Int
      /\ 4*r1 = w*t1 - x*p4 - t2*z + t3*y
      /\ 4*r2 = w*t2 + t1*z - y*p4 - t3*x
      /\ 4*r3 = w*t3 - t1*y + t2*x - z*p4
      /\ 0 = p4*w + t1*x + t2*y + t3*z
  <2>1. Unit4(x, y, z, w)
    BY UnitCases DEF Unit4
  <2>2. Turned(x, y, z, w, v1, v2, v3)
    BY <1>1, <2>1, TurnsHalve
  <2> QED
    BY <2>2 DEF Turned
<1>5. rotate(q, v) = <<r1, r2, r3>>
  BY DEF rotate, cross, add3
<1> DEFINE V == <<v1, v2, v3, 0>>
           P == <<t1, t2, t3, p4>>
<1>6. Whole(q, V) = P
  BY <1>1, UnitParts DEF Whole
<1>7. Whole(P, quatConj(q)) = <<w*t1 - x*p4 - t2*z + t3*y, w*t2 + t1*z - y*p4 - t3*x,
                                w*t3 - t1*y + t2*x - z*p4, p4*w + t1*x + t2*y + t3*z>>
  <2> DEFINE c == <<-x, -y, -z, w>>
  <2>1. quatConj(q) = c
    BY DEF quatConj
  <2>2. /\ x \in Int /\ y \in Int /\ z \in Int /\ w \in Int
        /\ t1 \in Int /\ t2 \in Int /\ t3 \in Int /\ p4 \in Int
    BY UnitParts, <1>1
  <2> HIDE DEF t1, t2, t3, p4, x, y, z, w
  <2> QED
    BY <2>1, <2>2 DEF Whole
<1> HIDE DEF r1, r2, r3, t1, t2, t3, p4, x, y, z, w
<1>8. Whole(Whole(q, V), quatConj(q)) = <<4*r1, 4*r2, 4*r3, 0>>
  BY <1>4, <1>6, <1>7
<1>9. <<r1, r2, r3>> \in Points
  BY <1>4 DEF Points
<1> QED
  BY <1>5, <1>8, <1>9

Times(k, a) == <<k*a[1], k*a[2], k*a[3], k*a[4]>>
Plus(a, b) == <<a[1] + b[1], a[2] + b[2], a[3] + b[3], a[4] + b[4]>>
Pure(v) == <<v[1], v[2], v[3], 0>>

LEMMA SumsMultiply ==
  ASSUME NEW a \in Quaternions, NEW b \in Quaternions, NEW c \in Quaternions
  PROVE  /\ Whole(a, Plus(b, c)) = Plus(Whole(a, b), Whole(a, c))
         /\ Whole(Plus(a, b), c) = Plus(Whole(a, c), Whole(b, c))
<1>1. /\ a[1] \in Int /\ a[2] \in Int /\ a[3] \in Int /\ a[4] \in Int
      /\ b[1] \in Int /\ b[2] \in Int /\ b[3] \in Int /\ b[4] \in Int
      /\ c[1] \in Int /\ c[2] \in Int /\ c[3] \in Int /\ c[4] \in Int
  BY DEF Quaternions
<1>2. Whole(a, Plus(b, c)) = Plus(Whole(a, b), Whole(a, c))
  BY <1>1 DEF Whole, Plus
<1>3. Whole(Plus(a, b), c) = Plus(Whole(a, c), Whole(b, c))
  BY <1>1 DEF Whole, Plus
<1> QED
  BY <1>2, <1>3

LEMMA ProductsAreLinear ==
  ASSUME NEW a \in Quaternions, NEW b \in Quaternions, NEW c \in Quaternions
  PROVE  /\ Whole(Times(2, a), b) = Times(2, Whole(a, b))
         /\ Whole(a, Times(2, b)) = Times(2, Whole(a, b))
         /\ Whole(Times(4, a), b) = Times(4, Whole(a, b))
         /\ Whole(a, Times(4, b)) = Times(4, Whole(a, b))
         /\ Whole(a, Plus(b, c)) = Plus(Whole(a, b), Whole(a, c))
         /\ Whole(Plus(a, b), c) = Plus(Whole(a, c), Whole(b, c))
<1>2. /\ Whole(a, Plus(b, c)) = Plus(Whole(a, b), Whole(a, c))
      /\ Whole(Plus(a, b), c) = Plus(Whole(a, c), Whole(b, c))
  BY SumsMultiply
<1>4. ASSUME NEW x \in Quaternions, NEW y \in Quaternions
      PROVE  Whole(Times(2, x), y) = Times(2, Whole(x, y)) /\ Whole(x, Times(2, y)) = Times(2, Whole(x, y))
  <2>1. ASSUME NEW z \in Quaternions PROVE Times(2, z) = Plus(z, z)
    BY <2>1 DEF Times, Plus, Quaternions
  <2>2. Whole(x, y) \in Quaternions
    BY WholesAreQuaternions
  <2>3. Whole(Plus(x, x), y) = Plus(Whole(x, y), Whole(x, y))
    BY SumsMultiply
  <2>4. Whole(x, Plus(y, y)) = Plus(Whole(x, y), Whole(x, y))
    BY SumsMultiply
  <2> QED
    BY <2>1, <2>2, <2>3, <2>4
<1>5. ASSUME NEW x \in Quaternions
      PROVE  Times(2, x) \in Quaternions /\ Times(4, x) = Times(2, Times(2, x))
  BY <1>5 DEF Times, Quaternions
<1>6. Whole(a, b) \in Quaternions
  BY WholesAreQuaternions
<1>7. Whole(Times(2, a), b) = Times(2, Whole(a, b)) /\ Whole(a, Times(2, b)) = Times(2, Whole(a, b))
  BY <1>4
<1>8. /\ Whole(Times(2, Times(2, a)), b) = Times(2, Whole(Times(2, a), b))
      /\ Whole(a, Times(2, Times(2, b))) = Times(2, Whole(a, Times(2, b)))
  BY <1>4, <1>5
<1>9. Whole(Times(4, a), b) = Times(4, Whole(a, b)) /\ Whole(a, Times(4, b)) = Times(4, Whole(a, b))
  BY <1>5, <1>6, <1>7, <1>8
<1> QED
  BY <1>2, <1>7, <1>9

LEMMA Conjugates ==
  ASSUME NEW a \in Quaternions, NEW b \in Quaternions
  PROVE  /\ quatConj(a) \in Quaternions
         /\ quatConj(Whole(a, b)) = Whole(quatConj(b), quatConj(a))
         /\ quatConj(Times(2, a)) = Times(2, quatConj(a))
<1>1. /\ a[1] \in Int /\ a[2] \in Int /\ a[3] \in Int /\ a[4] \in Int
      /\ b[1] \in Int /\ b[2] \in Int /\ b[3] \in Int /\ b[4] \in Int
  BY DEF Quaternions
<1>2. quatConj(a) \in Quaternions
  BY <1>1 DEF quatConj, Quaternions
<1>3. quatConj(Whole(a, b)) = Whole(quatConj(b), quatConj(a))
  <2>1. ASSUME NEW x \in Int, NEW y \in Int
        PROVE  x*(-y) = -(y*x) /\ (-x)*(-y) = y*x
    OBVIOUS
  <2> DEFINE A == quatConj(a)
             B == quatConj(b)
  <2>2. /\ A[1] = -a[1] /\ A[2] = -a[2] /\ A[3] = -a[3] /\ A[4] = a[4]
        /\ B[1] = -b[1] /\ B[2] = -b[2] /\ B[3] = -b[3] /\ B[4] = b[4]
    BY DEF quatConj
  <2> HIDE DEF A, B
  <2>3. \A x, y \in Int : x*(-y) = -(y*x) /\ (-y)*x = -(y*x) /\ (-x)*(-y) = y*x /\ x*y \in Int /\ x*y = y*x
    BY <2>1
  <2>4. /\ B[4]*A[1] = -(a[1]*b[4]) /\ B[1]*A[4] = -(a[4]*b[1]) /\ B[2]*A[3] = a[3]*b[2] /\ B[3]*A[2] = a[2]*b[3]
    BY <1>1, <2>2, <2>3
  <2>5. /\ B[4]*A[2] = -(a[2]*b[4]) /\ B[1]*A[3] = a[3]*b[1] /\ B[2]*A[4] = -(a[4]*b[2]) /\ B[3]*A[1] = a[1]*b[3]
    BY <1>1, <2>2, <2>3
  <2>6. /\ B[4]*A[3] = -(a[3]*b[4]) /\ B[1]*A[2] = a[2]*b[1] /\ B[2]*A[1] = a[1]*b[2] /\ B[3]*A[4] = -(a[4]*b[3])
    BY <1>1, <2>2, <2>3
  <2>7. /\ B[4]*A[4] = a[4]*b[4] /\ B[1]*A[1] = a[1]*b[1] /\ B[2]*A[2] = a[2]*b[2] /\ B[3]*A[3] = a[3]*b[3]
    BY <1>1, <2>2, <2>3
  <2>8. \A i, k \in 1..4 : a[i]*b[k] \in Int
    BY <1>1
  <2>9. B[4]*A[1] + B[1]*A[4] + B[2]*A[3] - B[3]*A[2] = -(a[4]*b[1] + a[1]*b[4] + a[2]*b[3] - a[3]*b[2])
    BY <2>4, <2>8
  <2>10. B[4]*A[2] - B[1]*A[3] + B[2]*A[4] + B[3]*A[1] = -(a[4]*b[2] - a[1]*b[3] + a[2]*b[4] + a[3]*b[1])
    BY <2>5, <2>8
  <2>11. B[4]*A[3] + B[1]*A[2] - B[2]*A[1] + B[3]*A[4] = -(a[4]*b[3] + a[1]*b[2] - a[2]*b[1] + a[3]*b[4])
    BY <2>6, <2>8
  <2>12. B[4]*A[4] - B[1]*A[1] - B[2]*A[2] - B[3]*A[3] = a[4]*b[4] - a[1]*b[1] - a[2]*b[2] - a[3]*b[3]
    BY <2>7
  <2>13. quatConj(Whole(a, b)) = Whole(B, A)
    BY <2>9, <2>10, <2>11, <2>12 DEF quatConj, Whole
  <2> QED
    BY <2>13 DEF A, B
<1>4. quatConj(Times(2, a)) = Times(2, quatConj(a))
  BY <1>1 DEF quatConj, Times
<1> QED
  BY <1>2, <1>3, <1>4

LEMMA PointsArePure ==
  ASSUME NEW v \in Points
  PROVE  /\ v = <<v[1], v[2], v[3]>> /\ v[1] \in Int /\ v[2] \in Int /\ v[3] \in Int
         /\ Pure(v) \in Quaternions /\ Times(4, Pure(v)) \in Quaternions
         /\ \A u \in Points : Times(4, Pure(u)) = Times(4, Pure(v)) => u = v
         /\ \A u \in Points : Times(4, Times(4, Pure(u))) = Times(4, Times(4, Pure(v))) => u = v
<1>1. v = <<v[1], v[2], v[3]>> /\ v[1] \in Int /\ v[2] \in Int /\ v[3] \in Int
  BY DEF Points
<1>2. Pure(v) \in Quaternions /\ Times(4, Pure(v)) \in Quaternions
  BY <1>1 DEF Pure, Times, Quaternions
<1>3. ASSUME NEW u \in Points
      PROVE  /\ Times(4, Pure(u)) = Times(4, Pure(v)) => u = v
             /\ Times(4, Times(4, Pure(u))) = Times(4, Times(4, Pure(v))) => u = v
  <2>1. u = <<u[1], u[2], u[3]>> /\ u[1] \in Int /\ u[2] \in Int /\ u[3] \in Int
    BY DEF Points
  <2>2. Times(4, Pure(u)) = <<4*u[1], 4*u[2], 4*u[3], 0>> /\ Times(4, Pure(v)) = <<4*v[1], 4*v[2], 4*v[3], 0>>
    BY <1>1, <2>1 DEF Times, Pure
  <2>3. /\ Times(4, Times(4, Pure(u))) = <<16*u[1], 16*u[2], 16*u[3], 0>>
        /\ Times(4, Times(4, Pure(v))) = <<16*v[1], 16*v[2], 16*v[3], 0>>
    BY <1>1, <2>1 DEF Times, Pure
  <2>4. u[1] = v[1] /\ u[2] = v[2] /\ u[3] = v[3] => u = v
    BY <1>1, <2>1
  <2>5. Times(4, Pure(u)) = Times(4, Pure(v)) => u = v
    BY <1>1, <2>1, <2>2, <2>4
  <2>6. Times(4, Times(4, Pure(u))) = Times(4, Times(4, Pure(v))) => u = v
    BY <1>1, <2>1, <2>3, <2>4
  <2> QED
    BY <2>5, <2>6
<1> QED
  BY <1>1, <1>2, <1>3

LEMMA Turning ==
  ASSUME NEW q \in Rotations, NEW v \in Points
  PROVE  /\ rotate(q, v) \in Points
         /\ Whole(Whole(q, Pure(v)), quatConj(q)) = Times(4, Pure(rotate(q, v)))
<1>1. rotate(q, v) \in Points
  BY TurnsAreProducts
<1>2. Times(4, Pure(rotate(q, v))) = <<4*rotate(q, v)[1], 4*rotate(q, v)[2], 4*rotate(q, v)[3], 0>>
  BY <1>1, PointsArePure DEF Times, Pure
<1> QED
  BY <1>1, <1>2, TurnsAreProducts DEF Pure

\* One turn after another is the product of the two.
LEMMA TurnTwice ==
  ASSUME NEW a \in Rotations, NEW b \in Rotations, NEW v \in Points
  PROVE  rotate(quatMul(a, b), v) = rotate(a, rotate(b, v))
<1> DEFINE m == quatMul(a, b)
           s == rotate(b, v)
           r == rotate(a, s)
           V == Pure(v)
           S == Pure(s)
           A == quatConj(a)
           B == quatConj(b)
           M == quatConj(m)
           W == Whole(a, b)
           X == Whole(Whole(W, V), quatConj(W))
<1>1. m \in Rotations /\ m \in Quaternions /\ W = Times(2, m)
  BY UnitsMultiply, UnitParts DEF Times
<1>2. /\ a \in Quaternions /\ b \in Quaternions /\ A \in Quaternions /\ B \in Quaternions
      /\ M \in Quaternions /\ quatConj(W) = Whole(B, A) /\ quatConj(W) = Times(2, M)
  BY <1>1, UnitParts, Conjugates
<1>3. s \in Points /\ r \in Points /\ rotate(m, v) \in Points
  BY <1>1, Turning
<1>4. V \in Quaternions /\ S \in Quaternions
  BY <1>3, PointsArePure
<1>5. /\ Whole(Whole(b, V), B) = Times(4, S)
      /\ Whole(Whole(a, S), A) = Times(4, Pure(r))
      /\ Whole(Whole(m, V), M) = Times(4, Pure(rotate(m, v)))
  BY <1>1, <1>3, Turning
<1> HIDE DEF m, s, r, V, S, A, B, M
<1>6. X = Times(4, Times(4, Pure(rotate(m, v))))
  <2>1. Whole(W, V) = Times(2, Whole(m, V)) /\ Whole(m, V) \in Quaternions
    BY <1>1, <1>4, ProductsAreLinear, WholesAreQuaternions
  <2>2. Times(2, M) \in Quaternions
    BY <1>2, WholesAreQuaternions
  <2>3. Whole(Times(2, Whole(m, V)), Times(2, M)) = Times(2, Whole(Whole(m, V), Times(2, M)))
    BY <2>1, <2>2, ProductsAreLinear
  <2>4. Whole(Whole(m, V), Times(2, M)) = Times(2, Whole(Whole(m, V), M))
    BY <1>2, <2>1, ProductsAreLinear
  <2>5. X = Times(2, Times(2, Whole(Whole(m, V), M)))
    BY <1>2, <2>1, <2>3, <2>4
  <2>6. Whole(Whole(m, V), M) \in Quaternions
    BY <1>2, <2>1, WholesAreQuaternions
  <2>7. ASSUME NEW k \in Quaternions PROVE Times(2, Times(2, k)) = Times(4, k)
    BY DEF Times, Quaternions
  <2> QED
    BY <1>5, <2>5, <2>6, <2>7
<1>7. X = Times(4, Times(4, Pure(r)))
  <2>1. /\ Whole(b, V) \in Quaternions /\ Whole(B, A) \in Quaternions /\ Whole(a, S) \in Quaternions
        /\ Whole(S, A) \in Quaternions /\ W \in Quaternions
    BY <1>2, <1>4, WholesAreQuaternions
  <2>2. Whole(W, V) = Whole(a, Whole(b, V))
    BY <1>2, <1>4, Associates
  <2>3. Whole(Whole(a, Whole(b, V)), Whole(B, A)) = Whole(a, Whole(Whole(b, V), Whole(B, A)))
    BY <1>2, <2>1, Associates
  <2>4. Whole(Whole(Whole(b, V), B), A) = Whole(Whole(b, V), Whole(B, A))
    <3> DEFINE K == Whole(b, V)
    <3> HIDE DEF K
    <3>1. K \in Quaternions
      BY <2>1 DEF K
    <3>2. Whole(Whole(K, B), A) = Whole(K, Whole(B, A))
      BY <1>2, <3>1, Associates
    <3> QED
      BY <3>2 DEF K
  <2>5. Whole(Times(4, S), A) = Times(4, Whole(S, A))
    BY <1>2, <1>4, ProductsAreLinear
  <2>6. Whole(a, Times(4, Whole(S, A))) = Times(4, Whole(a, Whole(S, A)))
    BY <1>2, <2>1, ProductsAreLinear
  <2>7. Whole(Whole(a, S), A) = Whole(a, Whole(S, A))
    BY <1>2, <1>4, Associates
  <2> QED
    BY <1>2, <1>5, <2>2, <2>3, <2>4, <2>5, <2>6, <2>7
<1>8. rotate(m, v) = r
  BY <1>3, <1>6, <1>7, PointsArePure
<1> QED
  BY <1>8 DEF m, r, s

\* A turn and the one back.
LEMMA TurnBack ==
  ASSUME NEW q \in Rotations, NEW v \in Points
  PROVE  /\ quatConj(q) \in Rotations
         /\ rotate(quatConj(q), rotate(q, v)) = v /\ rotate(q, rotate(quatConj(q), v)) = v
<1> DEFINE c == quatConj(q)
           one == <<0, 0, 0, 2>>
<1>1. /\ q[1] \in Int /\ q[2] \in Int /\ q[3] \in Int /\ q[4] \in Int
      /\ q[1]*q[1] + q[2]*q[2] + q[3]*q[3] + q[4]*q[4] = 4
  BY UnitParts
<1>2. c \in Rotations
  BY <1>1 DEF quatConj, Rotations
<1>3. quatMul(c, q) = one /\ quatMul(q, c) = one
  <2>1. Whole(c, q) = <<0, 0, 0, 4>> /\ Whole(q, c) = <<0, 0, 0, 4>>
    BY <1>1 DEF Whole, quatConj
  <2>2. ASSUME NEW m \in Rotations, <<2*m[1], 2*m[2], 2*m[3], 2*m[4]>> = <<0, 0, 0, 4>>
        PROVE  m = one
    <3>1. m[1] \in Int /\ m[2] \in Int /\ m[3] \in Int /\ m[4] \in Int /\ m = <<m[1], m[2], m[3], m[4]>>
      BY UnitParts
    <3>2. 2*m[1] = 0 /\ 2*m[2] = 0 /\ 2*m[3] = 0 /\ 2*m[4] = 4
      BY <2>2
    <3>3. m[1] = 0 /\ m[2] = 0 /\ m[3] = 0 /\ m[4] = 2
      BY <3>1, <3>2
    <3> QED
      BY <3>1, <3>3
  <2> HIDE DEF c, one
  <2>3. quatMul(c, q) = one
    BY <1>2, <2>1, <2>2, UnitsMultiply
  <2>4. quatMul(q, c) = one
    BY <1>2, <2>1, <2>2, UnitsMultiply
  <2> QED
    BY <2>3, <2>4
<1>4. rotate(one, v) = v
  <2>1. v = <<v[1], v[2], v[3]>> /\ v[1] \in Int /\ v[2] \in Int /\ v[3] \in Int
    BY PointsArePure
  <2> DEFINE zero == <<0, 0, 0>>
             double == <<2*v[1], 2*v[2], 2*v[3]>>
  <2>2. cross(one, v) = zero /\ cross(one, double) = zero
    BY <2>1 DEF cross
  <2>3. rotate(one, v) = add3(v, <<Half(0), Half(0), Half(0)>>)
    BY <2>1, <2>2 DEF rotate
  <2>4. Half(0) = 0
    BY DEF Half
  <2> QED
    BY <2>1, <2>3, <2>4 DEF add3
<1> HIDE DEF c
<1> QED
  BY <1>2, <1>3, <1>4, TurnTwice DEF c

\* A turn of a sum, and of what is opposite.
LEMMA TurnsAdd ==
  ASSUME NEW q \in Rotations, NEW u \in Points, NEW v \in Points
  PROVE  add3(u, v) \in Points /\ rotate(q, add3(u, v)) = add3(rotate(q, u), rotate(q, v))
<1> DEFINE C == quatConj(q)
           U == Pure(u)
           V == Pure(v)
           ru == rotate(q, u)
           rv == rotate(q, v)
           sum == add3(u, v)
<1>1. sum \in Points /\ Pure(sum) = Plus(U, V)
  BY PointsArePure DEF add3, Pure, Plus, Points
<1>2. /\ q \in Quaternions /\ C \in Quaternions /\ U \in Quaternions /\ V \in Quaternions
      /\ Whole(q, U) \in Quaternions /\ Whole(q, V) \in Quaternions
  BY UnitParts, Conjugates, PointsArePure, WholesAreQuaternions
<1>3. ru \in Points /\ rv \in Points /\ rotate(q, sum) \in Points
  BY <1>1, Turning
<1>4. add3(ru, rv) \in Points /\ Times(4, Pure(add3(ru, rv))) = Plus(Times(4, Pure(ru)), Times(4, Pure(rv)))
  BY <1>3, PointsArePure DEF add3, Pure, Plus, Times, Points
<1>5. /\ Whole(Whole(q, U), C) = Times(4, Pure(ru)) /\ Whole(Whole(q, V), C) = Times(4, Pure(rv))
      /\ Whole(Whole(q, Plus(U, V)), C) = Times(4, Pure(rotate(q, sum)))
  BY <1>1, Turning
<1> HIDE DEF C, U, V, ru, rv, sum
<1>6. Whole(Whole(q, Plus(U, V)), C) = Plus(Whole(Whole(q, U), C), Whole(Whole(q, V), C))
  BY <1>2, ProductsAreLinear
<1>7. rotate(q, sum) = add3(ru, rv)
  BY <1>3, <1>4, <1>5, <1>6, PointsArePure
<1> QED
  BY <1>1, <1>7 DEF sum, ru, rv

\* Motions.
Motions == [xyz : Points, rot : Rotations]
Opposite(v) == <<-v[1], -v[2], -v[3]>>

LEMMA PointsAdd ==
  ASSUME NEW u \in Points, NEW v \in Points, NEW p \in Points
  PROVE  /\ add3(u, v) \in Points /\ Opposite(u) \in Points
         /\ add3(add3(u, v), p) = add3(u, add3(v, p))
         /\ add3(u, add3(Opposite(u), p)) = p /\ add3(Opposite(u), add3(u, p)) = p
         /\ add3(u, v) = u => v = <<0, 0, 0>>
         /\ add3(u, v) = <<0, 0, 0>> => v = Opposite(u)
         /\ add3(u, Opposite(u)) = <<0, 0, 0>>
         /\ Opposite(Opposite(u)) = u
<1>1. u[1] \in Int /\ u[2] \in Int /\ u[3] \in Int /\ u = <<u[1], u[2], u[3]>>
  BY DEF Points
<1>2. v[1] \in Int /\ v[2] \in Int /\ v[3] \in Int /\ v = <<v[1], v[2], v[3]>>
  BY DEF Points
<1>3. p[1] \in Int /\ p[2] \in Int /\ p[3] \in Int /\ p = <<p[1], p[2], p[3]>>
  BY DEF Points
<1>4. add3(u, v) \in Points /\ Opposite(u) \in Points
  BY <1>1, <1>2 DEF add3, Opposite, Points
<1>5. add3(add3(u, v), p) = add3(u, add3(v, p))
  BY <1>1, <1>2, <1>3 DEF add3
<1>6. add3(u, add3(Opposite(u), p)) = p /\ add3(Opposite(u), add3(u, p)) = p
  BY <1>1, <1>3 DEF add3, Opposite
<1>7. add3(u, v) = u => v = <<0, 0, 0>>
  <2>1. add3(u, v) = u => u[1] + v[1] = u[1] /\ u[2] + v[2] = u[2] /\ u[3] + v[3] = u[3]
    BY <1>1 DEF add3
  <2> QED
    BY <1>1, <1>2, <2>1
<1>8. add3(u, v) = <<0, 0, 0>> => v = Opposite(u)
  <2>1. add3(u, v) = <<0, 0, 0>> => u[1] + v[1] = 0 /\ u[2] + v[2] = 0 /\ u[3] + v[3] = 0
    BY DEF add3
  <2>2. add3(u, v) = <<0, 0, 0>> => v[1] = -u[1] /\ v[2] = -u[2] /\ v[3] = -u[3]
    BY <1>1, <1>2, <2>1
  <2> QED
    BY <1>2, <2>2 DEF Opposite
<1>9. add3(u, Opposite(u)) = <<0, 0, 0>>
  BY <1>1 DEF add3, Opposite
<1>10. Opposite(Opposite(u)) = u
  BY <1>1 DEF Opposite
<1> QED
  BY <1>4, <1>5, <1>6, <1>7, <1>8, <1>9, <1>10

\* A turn keeps the origin, and so turns what is opposite into what is opposite.
LEMMA TurnsKeepOpposites ==
  ASSUME NEW q \in Rotations, NEW v \in Points
  PROVE  rotate(q, Opposite(v)) = Opposite(rotate(q, v))
<1> DEFINE zero == <<0, 0, 0>>
           r == rotate(q, v)
           o == Opposite(v)
<1>1. zero \in Points /\ add3(zero, zero) = zero
  BY DEF add3, Points
<1>2. r \in Points /\ o \in Points /\ rotate(q, o) \in Points /\ rotate(q, zero) \in Points
  BY <1>1, Turning, PointsAdd
<1>3. add3(rotate(q, zero), rotate(q, zero)) = rotate(q, zero)
  BY <1>1, TurnsAdd
<1>4. rotate(q, zero) = zero
  BY <1>2, <1>3, PointsAdd
<1>5. add3(v, o) = zero
  BY PointsAdd
<1>6. add3(r, rotate(q, o)) = zero
  BY <1>2, <1>4, <1>5, TurnsAdd
<1> QED
  BY <1>2, <1>6, PointsAdd

\* One motion after another is their composition.
LEMMA MotionsFollow ==
  ASSUME NEW a \in Motions, NEW b \in Motions, NEW p \in Points
  PROVE  /\ ApplyTo(a, p) \in Points /\ Then(a, b) \in Motions
         /\ ApplyTo(Then(a, b), p) = ApplyTo(a, ApplyTo(b, p))
<1> DEFINE ax == a.xyz
           bx == b.xyz
           ar == a.rot
           br == b.rot
           rp == rotate(br, p)
<1>1. ax \in Points /\ bx \in Points /\ ar \in Rotations /\ br \in Rotations
  BY DEF Motions
<1>2. ApplyTo(a, p) = add3(ax, rotate(ar, p)) /\ ApplyTo(b, p) = add3(bx, rp)
  BY DEF ApplyTo
<1>3. /\ Then(a, b) = [xyz |-> add3(ax, rotate(ar, bx)), rot |-> quatMul(ar, br)]
      /\ ApplyTo(Then(a, b), p) = add3(add3(ax, rotate(ar, bx)), rotate(quatMul(ar, br), p))
  BY DEF Then, ApplyTo
<1>4. ApplyTo(a, ApplyTo(b, p)) = add3(ax, rotate(ar, add3(bx, rp)))
  BY <1>2 DEF ApplyTo
<1> HIDE DEF ax, bx, ar, br
<1>5. rp \in Points /\ rotate(ar, p) \in Points /\ rotate(ar, bx) \in Points /\ rotate(ar, rp) \in Points
  BY <1>1, Turning
<1>6. quatMul(ar, br) \in Rotations
  BY <1>1, UnitsMultiply
<1>7. rotate(quatMul(ar, br), p) = rotate(ar, rp)
  BY <1>1, TurnTwice
<1>8. rotate(ar, add3(bx, rp)) = add3(rotate(ar, bx), rotate(ar, rp))
  BY <1>1, <1>5, TurnsAdd
<1>9. add3(ax, rotate(ar, p)) \in Points /\ add3(ax, rotate(ar, bx)) \in Points
  BY <1>1, <1>5, PointsAdd
<1>10. add3(add3(ax, rotate(ar, bx)), rotate(ar, rp)) = add3(ax, add3(rotate(ar, bx), rotate(ar, rp)))
  <2> DEFINE y == rotate(ar, bx)
             z == rotate(ar, rp)
  <2>1. y \in Points /\ z \in Points
    BY <1>5
  <2> HIDE DEF y, z
  <2>2. add3(add3(ax, y), z) = add3(ax, add3(y, z))
    BY <1>1, <2>1, PointsAdd
  <2> QED
    BY <2>2 DEF y, z
<1> QED
  BY <1>2, <1>3, <1>4, <1>6, <1>7, <1>8, <1>9, <1>10 DEF Motions

\* A motion and the one back.
LEMMA MotionsInvert ==
  ASSUME NEW a \in Motions
  PROVE  /\ Invert(a) \in Motions
         /\ \A p \in Points : ApplyTo(Invert(a), ApplyTo(a, p)) = p /\ ApplyTo(a, ApplyTo(Invert(a), p)) = p
         /\ \A p, q \in Points : ApplyTo(a, p) = ApplyTo(a, q) => p = q
<1> DEFINE ax == a.xyz
           ar == a.rot
           c == quatConj(ar)
           t == rotate(c, ax)
           o == Opposite(t)
<1>1. ax \in Points /\ ar \in Rotations
  BY DEF Motions
<1>2. Invert(a) = [xyz |-> o, rot |-> c]
  BY DEF Invert, Opposite
<1>3. /\ \A p : ApplyTo(a, p) = add3(ax, rotate(ar, p))
      /\ \A p : ApplyTo(Invert(a), p) = add3(o, rotate(c, p))
  BY <1>2 DEF ApplyTo
<1> HIDE DEF ax, ar
<1>4. c \in Rotations
  BY <1>1, TurnBack
<1> HIDE DEF c
<1>5. t \in Points
  BY <1>1, <1>4, Turning
<1>6. o \in Points
  BY <1>5, PointsAdd
<1>7. Invert(a) \in Motions
  BY <1>2, <1>4, <1>6 DEF Motions
<1>8. ASSUME NEW p \in Points
      PROVE  add3(o, rotate(c, add3(ax, rotate(ar, p)))) = p
  <2>1. rotate(ar, p) \in Points
    BY <1>1, Turning
  <2>2. rotate(c, rotate(ar, p)) = p
    BY <1>1, TurnBack DEF c
  <2>3. rotate(c, add3(ax, rotate(ar, p))) = add3(t, p)
    BY <1>1, <1>4, <2>1, <2>2, TurnsAdd
  <2>4. add3(o, add3(t, p)) = p
    BY <1>5, PointsAdd
  <2> QED
    BY <2>3, <2>4
<1>9. ASSUME NEW p \in Points
      PROVE  add3(ax, rotate(ar, add3(o, rotate(c, p)))) = p
  <2>1. rotate(c, p) \in Points
    BY <1>4, Turning
  <2>2. rotate(ar, rotate(c, p)) = p /\ rotate(ar, t) = ax
    BY <1>1, TurnBack DEF c
  <2>3. rotate(ar, o) = Opposite(ax)
    BY <1>1, <1>5, <2>2, TurnsKeepOpposites
  <2>4. rotate(ar, add3(o, rotate(c, p))) = add3(Opposite(ax), p)
    BY <1>1, <1>6, <2>1, <2>2, <2>3, TurnsAdd
  <2>5. add3(ax, add3(Opposite(ax), p)) = p
    BY <1>1, PointsAdd
  <2> QED
    BY <2>4, <2>5
<1>10. \A p \in Points : ApplyTo(Invert(a), ApplyTo(a, p)) = p /\ ApplyTo(a, ApplyTo(Invert(a), p)) = p
  BY <1>3, <1>8, <1>9
<1>11. \A p, q \in Points : ApplyTo(a, p) = ApplyTo(a, q) => p = q
  <2> TAKE p, q \in Points
  <2>1. ApplyTo(Invert(a), ApplyTo(a, p)) = p /\ ApplyTo(Invert(a), ApplyTo(a, q)) = q
    BY <1>10
  <2> QED
    BY <2>1
<1> QED
  BY <1>7, <1>10, <1>11

LEMMA IdentityStays ==
  /\ Identity \in Motions
  /\ \A p \in Points : ApplyTo(Identity, p) = p
<1> DEFINE zero == <<0, 0, 0>>
           one == <<0, 0, 0, 2>>
<1>1. zero \in Points /\ one \in Rotations
  BY DEF Points, Rotations
<1>2. ASSUME NEW p \in Points PROVE ApplyTo(Identity, p) = p
  <2>1. p = <<p[1], p[2], p[3]>> /\ p[1] \in Int /\ p[2] \in Int /\ p[3] \in Int
    BY PointsArePure
  <2> DEFINE double == <<2*p[1], 2*p[2], 2*p[3]>>
  <2>2. cross(one, p) = zero /\ cross(one, double) = zero
    BY <2>1 DEF cross
  <2>3. rotate(one, p) = add3(p, <<Half(0), Half(0), Half(0)>>)
    BY <2>1, <2>2 DEF rotate
  <2>4. Half(0) = 0
    BY DEF Half
  <2>5. rotate(one, p) = p
    BY <2>1, <2>3, <2>4 DEF add3
  <2> QED
    BY <2>1, <2>5 DEF ApplyTo, Identity, add3
<1> QED
  BY <1>1, <1>2 DEF Identity, Motions

-----------------------------------------------------------------------------
(* Poses of the frames of a tree.                                            *)

\* Where a set of frames that holds its parents is placed: every child where its
\* link puts it.
Poses(ts, S, pose) ==
  /\ pose \in [S -> Motions]
  /\ \A i \in DOMAIN ts : ts[i].child \in S => pose[ts[i].child] = Then(pose[ts[i].parent], Isometry(ts[i]))

LEMMA LinksMove ==
  ASSUME NEW T, NEW ts \in Seq(T), IsPlaced(ts), NEW i \in DOMAIN ts
  PROVE  Isometry(ts[i]) \in Motions
BY DEF IsPlaced, IsPoint, Isometry, Motions, Points

LEMMA TreeParts ==
  ASSUME NEW T, NEW ts \in Seq(T), IsTree(ts)
  PROVE  /\ \A i, j \in DOMAIN ts : ts[i].child = ts[j].child => i = j
         /\ \A f \in FramesOf(ts) : f \notin AncestorsOf(ts, f)
<1>1. ASSUME ts = <<>> PROVE DOMAIN ts = {} /\ FramesOf(ts) = {}
  BY <1>1 DEF FramesOf
<1> QED
  BY <1>1 DEF IsTree

\* Outside a set that holds its parents and is not the whole tree, there is a frame
\* whose parents it holds.
LEMMA OneFrameMore ==
  ASSUME NEW T, NEW ts \in Seq(T), IsTree(ts), NEW S \in SUBSET FramesOf(ts), S # FramesOf(ts)
  PROVE  \E f \in FramesOf(ts) \ S : Up(ts, f) \subseteq S
<1> DEFINE A == FramesOf(ts) \ S
           Depths == {Cardinality(AncestorsOf(ts, g)) : g \in A}
<1>1. \A g \in FramesOf(ts) : IsFiniteSet(AncestorsOf(ts, g)) /\ Cardinality(AncestorsOf(ts, g)) \in Nat
  BY AncestorsAreLeast, FewChildren, FS_Subset, FS_CardinalityType
<1>2. Depths \in SUBSET Nat /\ Depths # {}
  BY <1>1
<1> HIDE DEF Depths
<1>3. PICK d \in Depths : \A e \in Depths : d <= e
  BY <1>2, Least
<1> USE DEF Depths
<1>4. PICK f \in A : \A g \in A : Cardinality(AncestorsOf(ts, f)) <= Cardinality(AncestorsOf(ts, g))
  BY <1>3
<1>5. ASSUME NEW g \in Up(ts, f), g \notin S
      PROVE  FALSE
  <2>1. g \in AncestorsOf(ts, f) /\ g \in A
    BY <1>5, AncestorsAreLeast
  <2>2. AncestorsOf(ts, g) \subseteq AncestorsOf(ts, f) /\ g \notin AncestorsOf(ts, g)
    BY <2>1, AncestorsOfAncestors, TreeParts
  <2>3. /\ Cardinality(AncestorsOf(ts, g)) <= Cardinality(AncestorsOf(ts, f))
        /\ Cardinality(AncestorsOf(ts, g)) # Cardinality(AncestorsOf(ts, f))
    BY <1>1, <2>1, <2>2, FS_Subset
  <2> QED
    BY <1>1, <1>4, <2>1, <2>3
<1> QED
  BY <1>4, <1>5

LEMMA OnePoseMore ==
  ASSUME NEW T, NEW ts \in Seq(T), IsTree(ts), IsPlaced(ts), NEW S \in SUBSET FramesOf(ts),
         Closed(ts, S), NEW pose, Poses(ts, S, pose), NEW f \in FramesOf(ts) \ S, Up(ts, f) \subseteq S
  PROVE  Closed(ts, S \cup {f}) /\ \E longer : Poses(ts, S \cup {f}, longer)
<1> DEFINE Of(i) == Then(pose[ts[i].parent], Isometry(ts[i]))
           place == IF \E i \in DOMAIN ts : ts[i].child = f
                    THEN Of(CHOOSE i \in DOMAIN ts : ts[i].child = f) ELSE Identity
           longer == [g \in S \cup {f} |-> IF g = f THEN place ELSE pose[g]]
<1>1. Closed(ts, S \cup {f})
  BY DEF Closed
<1>2. ASSUME NEW i \in DOMAIN ts, ts[i].child \in S \cup {f}
      PROVE  ts[i].parent \in S
  BY <1>2 DEF Closed, Up
<1>3. ASSUME NEW i \in DOMAIN ts, ts[i].child = f
      PROVE  place = Of(i) /\ place \in Motions
  <2>1. \A j \in DOMAIN ts : ts[j].child = f => j = i
    BY <1>3, TreeParts
  <2> DEFINE k == CHOOSE j \in DOMAIN ts : ts[j].child = f
  <2>2. k = i
    BY <1>3, <2>1
  <2> HIDE DEF k
  <2>3. place = Of(i)
    BY <1>3, <2>2 DEF k
  <2>4. pose[ts[i].parent] \in Motions /\ Isometry(ts[i]) \in Motions
    BY <1>2, <1>3, LinksMove DEF Poses
  <2>5. <<0, 0, 0>> \in Points
    BY DEF Points
  <2> QED
    BY <2>3, <2>4, <2>5, MotionsFollow
<1>4. place \in Motions
  BY <1>3, IdentityStays
<1> HIDE DEF place
<1>5. longer \in [S \cup {f} -> Motions]
  BY <1>4 DEF Poses
<1>6. ASSUME NEW i \in DOMAIN ts, ts[i].child \in S \cup {f}
      PROVE  longer[ts[i].child] = Then(longer[ts[i].parent], Isometry(ts[i]))
  <2>1. ts[i].parent \in S /\ longer[ts[i].parent] = pose[ts[i].parent]
    BY <1>2, <1>6
  <2>2. CASE ts[i].child = f
    BY <1>3, <2>1, <2>2
  <2>3. CASE ts[i].child # f
    BY <1>6, <2>1, <2>3 DEF Poses
  <2> QED
    BY <2>2, <2>3
<1>7. Poses(ts, S \cup {f}, longer)
  BY <1>5, <1>6 DEF Poses
<1> QED
  BY <1>1, <1>7

\* The frames of a tree can be placed so that every link leads where it says.
LEMMA FramesHavePoses ==
  ASSUME NEW T, NEW ts \in Seq(T), IsTree(ts), IsPlaced(ts)
  PROVE  \E pose : Poses(ts, FramesOf(ts), pose)
<1> DEFINE N == Cardinality(FramesOf(ts))
           HasPoses(S) == Closed(ts, S) /\ \E pose : Poses(ts, S, pose)
           K == {n \in Nat : \E S \in SUBSET FramesOf(ts) : Cardinality(S) = n /\ HasPoses(S)}
<1>1. N \in Nat /\ IsFiniteSet(FramesOf(ts))
  BY FewChildren, FS_CardinalityType
<1>2. 0 \in K
  <2> DEFINE none == [g \in {} |-> Identity]
  <2>1. Poses(ts, {}, none) /\ Closed(ts, {})
    BY DEF Poses, Closed
  <2>2. Cardinality({}) = 0
    BY FS_EmptySet
  <2> QED
    BY <2>1, <2>2
<1>3. ASSUME NEW n \in Nat, n < N, n \in K
      PROVE  n + 1 \in K
  <2>1. PICK S \in SUBSET FramesOf(ts) : Cardinality(S) = n /\ HasPoses(S)
    BY <1>3
  <2>2. S # FramesOf(ts)
    BY <1>1, <1>3, <2>1
  <2>3. PICK f \in FramesOf(ts) \ S : Up(ts, f) \subseteq S
    BY <2>2, OneFrameMore
  <2>4. PICK pose : Poses(ts, S, pose)
    BY <2>1
  <2>5. Closed(ts, S)
    BY <2>1
  <2>6. HasPoses(S \cup {f})
    BY <2>3, <2>4, <2>5, OnePoseMore
  <2>7. IsFiniteSet(S) /\ Cardinality(S \cup {f}) = n + 1
    BY <1>1, <2>1, FS_Subset, FS_AddElement
  <2> HIDE DEF HasPoses
  <2> QED
    BY <2>6, <2>7
<1> HIDE DEF K
<1>4. N \in K
  BY <1>1, <1>2, <1>3, Induct
<1>5. PICK S \in SUBSET FramesOf(ts) : Cardinality(S) = N /\ HasPoses(S)
  BY <1>4 DEF K
<1>6. S = FramesOf(ts)
  BY <1>1, <1>5, FS_Subset
<1> QED
  BY <1>5, <1>6

-----------------------------------------------------------------------------
(* Ways between frames.                                                      *)

\* A link of a path leads from one frame to another.
Joins(l, f, g) == IF l.inverse THEN l.tf.child = f /\ l.tf.parent = g ELSE l.tf.parent = f /\ l.tf.child = g
\* A path leads from a to b by the frames of F, none of them twice.
Way(ts, links, F, a, b) ==
  /\ F \in [0..Len(links) -> FramesOf(ts)] /\ F[0] = a /\ F[Len(links)] = b
  /\ \A k \in 1..Len(links) : \E i \in DOMAIN ts : links[k].tf = ts[i] /\ Joins(links[k], F[k - 1], F[k])
  /\ \A j, k \in 0..Len(links) : F[j] = F[k] => j = k
Within(F, S) == \A k \in DOMAIN F : F[k] \in S
\* Such a path leads to an entry of the queue, through frames seen.
Reaches(ts, a, e, S) == \E F : Way(ts, e.via, F, a, e.frame) /\ Within(F, S)

LEMMA WaysGrow ==
  ASSUME NEW T, NEW ts \in Seq(T), NEW via \in SomeLinks(T), NEW a, NEW f, NEW S, NEW F,
         Way(ts, via, F, a, f), Within(F, S), NEW i \in DOMAIN ts,
         NEW l \in [tf : T, inverse : BOOLEAN], l.tf = ts[i],
         NEW g \in FramesOf(ts), Joins(l, f, g), g \notin S
  PROVE  \E G : Way(ts, Append(via, l), G, a, g) /\ Within(G, S \cup {g})
<1> DEFINE n == Len(via)
           longer == Append(via, l)
           G == [k \in 0..(n + 1) |-> IF k = n + 1 THEN g ELSE F[k]]
<1>1. /\ n \in Nat /\ Len(longer) = n + 1 /\ longer[n + 1] = l
      /\ \A k \in 1..n : longer[k] = via[k]
  BY AppendProperties, LenProperties DEF SomeLinks
<1>2. /\ F \in [0..n -> FramesOf(ts)] /\ F[0] = a /\ F[n] = f
      /\ \A k \in 1..n : \E j \in DOMAIN ts : via[k].tf = ts[j] /\ Joins(via[k], F[k - 1], F[k])
      /\ \A j, k \in 0..n : F[j] = F[k] => j = k
      /\ \A k \in 0..n : F[k] \in S
  BY DEF Way, Within
<1> HIDE DEF n, longer
<1>3. /\ G \in [0..(n + 1) -> FramesOf(ts)] /\ G[0] = a /\ G[n + 1] = g
      /\ \A k \in 0..n : G[k] = F[k]
      /\ \A k \in 0..(n + 1) : k = n + 1 \/ k \in 0..n
  BY <1>1, <1>2
<1> HIDE DEF G
<1>4. ASSUME NEW k \in 1..(n + 1)
      PROVE  \E j \in DOMAIN ts : longer[k].tf = ts[j] /\ Joins(longer[k], G[k - 1], G[k])
  <2>1. CASE k = n + 1
    <3>1. longer[k] = l /\ G[k - 1] = f /\ G[k] = g
      BY <1>1, <1>2, <1>3, <2>1
    <3> QED
      BY <3>1
  <2>2. CASE k # n + 1
    <3>1. k \in 1..n /\ G[k - 1] = F[k - 1] /\ G[k] = F[k] /\ longer[k] = via[k]
      BY <1>1, <1>3, <2>2
    <3> QED
      BY <1>2, <3>1
  <2> QED
    BY <2>1, <2>2
<1>5. ASSUME NEW j \in 0..(n + 1), NEW k \in 0..(n + 1), G[j] = G[k]
      PROVE  j = k
  <2>1. CASE j = n + 1 /\ k # n + 1
    BY <1>2, <1>3, <1>5, <2>1
  <2>2. CASE j # n + 1 /\ k = n + 1
    BY <1>2, <1>3, <1>5, <2>2
  <2>3. CASE j # n + 1 /\ k # n + 1
    BY <1>2, <1>3, <1>5, <2>3
  <2> QED
    BY <2>1, <2>2, <2>3
<1>6. Way(ts, longer, G, a, g)
  <2>1. Len(longer) = n + 1
    BY <1>1
  <2> QED
    BY <1>3, <1>4, <1>5, <2>1 DEF Way
<1>7. Within(G, S \cup {g})
  BY <1>2, <1>3 DEF Within
<1> QED
  BY <1>6, <1>7 DEF longer

\* A search knows a way to every frame in its queue, through what it has seen, and
\* to the source when it has found it.
Guided(T, ts, target, source, st) ==
  /\ st \in SearchState(T, ts)
  /\ \A k \in DOMAIN st.queue : Reaches(ts, target, st.queue[k], st.seen)
  /\ \A links \in st.found : \E F : Way(ts, links, F, target, source)

LEMMA WaysStay ==
  ASSUME NEW ts, NEW a, NEW e, NEW S, NEW R, S \subseteq R, Reaches(ts, a, e, S)
  PROVE  Reaches(ts, a, e, R)
BY DEF Reaches, Within

LEMMA OneLinkGuided ==
  ASSUME NEW T, NEW ts \in Seq(T), NEW target, NEW source,
         NEW cur \in [frame : FramesOf(ts), via : SomeLinks(T)],
         NEW s, Guided(T, ts, target, source, s), Reaches(ts, target, cur, s.seen), NEW j \in DOMAIN ts
  PROVE  LET new == visit(source, cur, s, ts[j]) IN
         Guided(T, ts, target, source, new) /\ Reaches(ts, target, cur, new.seen)
<1> DEFINE t == ts[j]
           l == IF t.parent = cur.frame THEN [tf |-> t, inverse |-> FALSE] ELSE [tf |-> t, inverse |-> TRUE]
           next == IF l.inverse THEN t.parent ELSE t.child
           via == Append(cur.via, l)
           new == visit(source, cur, s, t)
<1>1. t \in T /\ {t.parent, t.child} \subseteq FramesOf(ts)
  BY ElementOfSeq, LenProperties DEF FramesOf
<1>2. /\ l \in [tf : T, inverse : BOOLEAN] /\ next \in FramesOf(ts) /\ l.tf = ts[j]
      /\ (cur.frame \in {t.parent, t.child} => Joins(l, cur.frame, next))
  BY <1>1 DEF Joins
<1> HIDE DEF l
<1>3. cur.via \in SomeLinks(T) /\ via \in SomeLinks(T)
  BY <1>2, AppendProperties DEF SomeLinks
<1>4. CASE cur.frame \notin {t.parent, t.child} \/ next \in s.seen \/ s.found # {}
  <2>1. new = s
    BY <1>4 DEF visit, next, l
  <2> QED
    BY <2>1
<1>5. CASE ~(cur.frame \notin {t.parent, t.child} \/ next \in s.seen \/ s.found # {})
  <2> DEFINE e == [frame |-> next, via |-> via]
             queue == Append(s.queue, e)
             seen == s.seen \cup {next}
             found == IF next = source THEN {via} ELSE {}
             R == [frame : FramesOf(ts), via : SomeLinks(T)]
  <2>1. new = [queue |-> queue, seen |-> seen, found |-> found]
    BY <1>5 DEF visit, next, l, via
  <2>2. PICK F : Way(ts, cur.via, F, target, cur.frame) /\ Within(F, s.seen)
    BY DEF Reaches
  <2>3. \E G : Way(ts, via, G, target, next) /\ Within(G, seen)
    <3> HIDE DEF next
    <3>1. Joins(l, cur.frame, next) /\ next \notin s.seen /\ next \in FramesOf(ts)
      BY <1>2, <1>5
    <3>2. /\ via = Append(cur.via, l) /\ seen = s.seen \cup {next}
          /\ l.tf = ts[j] /\ l \in [tf : T, inverse : BOOLEAN] /\ cur.via \in SomeLinks(T)
      BY <1>2, <1>3
    <3> HIDE DEF via, seen
    <3>3. \E G : Way(ts, Append(cur.via, l), G, target, next) /\ Within(G, s.seen \cup {next})
      BY <2>2, <3>1, <3>2, WaysGrow
    <3> QED
      BY <3>2, <3>3
  <2>4. e \in R /\ e.frame = next /\ e.via = via /\ s.queue \in Seq(R)
    BY <1>2, <1>3 DEF Guided, SearchState
  <2> HIDE DEF next, via, e, R
  <2>5. Reaches(ts, target, e, seen)
    BY <2>3, <2>4 DEF Reaches
  <2>6. /\ queue \in Seq(R) /\ DOMAIN queue = 1..(Len(s.queue) + 1) /\ Len(s.queue) \in Nat
        /\ DOMAIN s.queue = 1..Len(s.queue)
        /\ \A i \in 1..Len(s.queue) : queue[i] = s.queue[i]
        /\ queue[Len(s.queue) + 1] = e
    BY <2>4, AppendProperties, LenProperties
  <2> HIDE DEF queue
  <2>7. ASSUME NEW k \in DOMAIN queue
        PROVE  Reaches(ts, target, queue[k], seen)
    <3>1. CASE k = Len(s.queue) + 1
      BY <2>5, <2>6, <3>1
    <3>2. CASE k # Len(s.queue) + 1
      <4>1. k \in DOMAIN s.queue /\ queue[k] = s.queue[k]
        BY <2>6, <3>2
      <4>2. Reaches(ts, target, s.queue[k], s.seen)
        BY <4>1 DEF Guided
      <4> QED
        BY <4>1, <4>2, WaysStay
    <3> QED
      BY <3>1, <3>2
  <2>8. seen \in SUBSET FramesOf(ts) /\ found \in SUBSET SomeLinks(T)
    <3>1. s.seen \in SUBSET FramesOf(ts)
      BY DEF Guided, SearchState
    <3> QED
      BY <1>2, <1>3, <3>1 DEF next, via
  <2>9. \A links \in found : \E G : Way(ts, links, G, target, source)
    BY <2>3
  <2>10. Reaches(ts, target, cur, seen)
    BY WaysStay
  <2> HIDE DEF seen, found, new
  <2>11. new.queue = queue /\ new.seen = seen /\ new.found = found /\ new \in SearchState(T, ts)
    BY <2>1, <2>6, <2>8 DEF SearchState, R
  <2> QED
    BY <2>7, <2>9, <2>10, <2>11 DEF Guided, new
<1> QED
  BY <1>4, <1>5

LEMMA OneTurnGuided ==
  ASSUME NEW T, NEW ts \in Seq(T), NEW target, NEW source, NEW st, Guided(T, ts, target, source, st)
  PROVE  Guided(T, ts, target, source, turn(ts, source, st))
<1>1. CASE st.queue = <<>> \/ st.found # {}
  BY <1>1 DEF turn
<1>2. CASE ~(st.queue = <<>> \/ st.found # {})
  <2> DEFINE cur == Head(st.queue)
             N == Len(ts)
             R == [frame : FramesOf(ts), via : SomeLinks(T)]
             s(j) == visits(ts, source, st)[j]
             S == {j \in Nat : Guided(T, ts, target, source, s(j)) /\ Reaches(ts, target, cur, s(j).seen)}
  <2>0. N \in Nat /\ DOMAIN ts = 1..N /\ st.queue \in Seq(R) /\ st.queue # <<>> /\ st \in SearchState(T, ts)
    BY <1>2, LenProperties DEF SearchState, Guided
  <2>1. /\ cur \in R /\ Tail(st.queue) \in Seq(R) /\ Len(st.queue) \in Nat \ {0}
        /\ Len(Tail(st.queue)) = Len(st.queue) - 1
        /\ DOMAIN st.queue = 1..Len(st.queue) /\ DOMAIN Tail(st.queue) = 1..Len(Tail(st.queue))
        /\ cur = st.queue[1] /\ \A i \in 1..Len(Tail(st.queue)) : Tail(st.queue)[i] = st.queue[i + 1]
    <3> HIDE DEF R
    <3> QED
      BY <2>0, HeadTailProperties, LenProperties, EmptySeq
  <2>2. Reaches(ts, target, cur, st.seen)
    BY <2>1 DEF Guided
  <2>3. 0 \in S
    <3>1. visits(ts, source, st)[0] = popped(st)
      BY LinksAreTried
    <3> DEFINE p == popped(st)
    <3>2. p \in SearchState(T, ts) /\ p.queue = Tail(st.queue) /\ p.seen = st.seen /\ p.found = {}
      BY <1>2, <2>0, <2>1 DEF SearchState, popped
    <3> HIDE DEF p
    <3>3. ASSUME NEW k \in DOMAIN p.queue PROVE Reaches(ts, target, p.queue[k], p.seen)
      <4>1. k + 1 \in DOMAIN st.queue /\ p.queue[k] = st.queue[k + 1]
        BY <2>1, <3>2
      <4> QED
        BY <3>2, <4>1 DEF Guided
    <3>4. Guided(T, ts, target, source, p) /\ Reaches(ts, target, cur, p.seen)
      BY <2>2, <3>2, <3>3 DEF Guided
    <3> QED
      BY <3>1, <3>4 DEF p
  <2>4. ASSUME NEW j \in Nat, j < N, j \in S
        PROVE  j + 1 \in S
    <3>1. j + 1 \in DOMAIN ts /\ j + 1 \in 1..N /\ j + 1 - 1 = j
      BY <2>0, <2>4
    <3>2. \A k \in 1..N : s(k) = visit(source, cur, s(k - 1), ts[k])
      BY LinksAreTried
    <3>3. s(j + 1) = visit(source, cur, s(j), ts[j + 1])
      BY <3>1, <3>2
    <3>4. Guided(T, ts, target, source, s(j)) /\ Reaches(ts, target, cur, s(j).seen)
      BY <2>4
    <3> HIDE DEF s, cur
    <3>5. LET new == visit(source, cur, s(j), ts[j + 1]) IN
          Guided(T, ts, target, source, new) /\ Reaches(ts, target, cur, new.seen)
      BY <2>1, <3>1, <3>4, OneLinkGuided
    <3>6. Guided(T, ts, target, source, s(j + 1)) /\ Reaches(ts, target, cur, s(j + 1).seen)
      BY <3>3, <3>5
    <3> QED
      BY <3>6
  <2> HIDE DEF S
  <2>5. N \in S
    BY <2>0, <2>3, <2>4, Induct
  <2> QED
    BY <1>2, <2>5 DEF S, turn
<1> QED
  BY <1>1, <1>2

\* What the lookup finds is a way between its two frames.
LEMMA PathsAreWays ==
  ASSUME NEW T, NEW ts \in Seq(T), NEW a, NEW b, NEW links \in path(ts, a, b)
  PROVE  links \in SomeLinks(T) /\ \E F : Way(ts, links, F, a, b)
<1>1. a \in FramesOf(ts) /\ b \in FramesOf(ts)
  BY DEF path
<1>2. CASE a = b
  <2>1. links = <<>>
    BY <1>1, <1>2 DEF path
  <2>2. links \in SomeLinks(T) /\ Len(links) = 0
    BY <2>1, EmptySeq DEF SomeLinks
  <2> DEFINE F == [k \in 0..0 |-> a]
  <2>3. Way(ts, links, F, a, b)
    BY <1>1, <1>2, <2>2 DEF Way
  <2> QED
    BY <2>2, <2>3
<1>3. CASE a # b
  <2> DEFINE C == Cardinality(FramesOf(ts))
             st(i) == search(ts, a, b)[i]
             S == {i \in Nat : Guided(T, ts, a, b, st(i))}
  <2>0. C \in Nat
    BY FewChildren, FS_CardinalityType
  <2>1. 0 \in S
    <3> DEFINE e == [frame |-> a, via |-> <<>>]
               q == <<e>>
               R == [frame : FramesOf(ts), via : SomeLinks(T)]
               start == [queue |-> q, seen |-> {a}, found |-> {}]
               F == [k \in 0..0 |-> a]
    <3>1. st(0) = start
      BY TurnsAreTaken DEF searchFrom
    <3>2. <<>> \in SomeLinks(T) /\ Len(<<>>) = 0
      BY EmptySeq DEF SomeLinks
    <3>3. e \in R /\ e.frame = a /\ e.via = <<>>
      BY <1>1, <3>2
    <3>4. Way(ts, <<>>, F, a, a) /\ Within(F, {a})
      BY <1>1, <3>2 DEF Way, Within
    <3>5. Reaches(ts, a, e, {a})
      BY <3>3, <3>4 DEF Reaches
    <3> HIDE DEF e, R
    <3>6. q \in Seq(R) /\ DOMAIN q = {1} /\ q[1] = e
      BY <3>3
    <3> HIDE DEF q
    <3>7. start \in SearchState(T, ts) /\ start.queue = q /\ start.seen = {a} /\ start.found = {}
      BY <1>1, <3>6 DEF SearchState, R
    <3> HIDE DEF start
    <3>8. Guided(T, ts, a, b, start)
      BY <3>5, <3>6, <3>7 DEF Guided
    <3> QED
      BY <3>1, <3>8
  <2>2. ASSUME NEW k \in Nat, k < C, k \in S
        PROVE  k + 1 \in S
    <3>1. k + 1 \in 1..C /\ k + 1 - 1 = k
      BY <2>0, <2>2
    <3>2. \A i \in 1..C : st(i) = turn(ts, b, st(i - 1))
      BY TurnsAreTaken
    <3>3. st(k + 1) = turn(ts, b, st(k)) /\ Guided(T, ts, a, b, st(k))
      BY <2>2, <3>1, <3>2
    <3> HIDE DEF st
    <3>4. Guided(T, ts, a, b, turn(ts, b, st(k)))
      BY <3>3, OneTurnGuided
    <3> QED
      BY <3>3, <3>4
  <2> HIDE DEF S
  <2>3. C \in S
    BY <2>0, <2>1, <2>2, Induct
  <2>4. links \in st(C).found
    BY <1>1, <1>3 DEF path
  <2>5. Guided(T, ts, a, b, st(C))
    BY <2>3 DEF S
  <2> HIDE DEF st
  <2> QED
    BY <2>4, <2>5 DEF Guided, SearchState
<1> QED
  BY <1>2, <1>3

\* The motion of a path is composed link after link (Lookup's loop).
LEMMA LinksAreCrossed ==
  ASSUME NEW T, NEW links \in Seq(T)
  PROVE  /\ along(links)[0] = Identity
         /\ \A i \in 1..Len(links) : along(links)[i] = Then(along(links)[i - 1], Crossed(links[i]))
<1> DEFINE Upto(n, g) == g = [i \in 0..n |-> IF i = 0 THEN Identity ELSE Then(g[i - 1], Crossed(links[i]))]
           S == {n \in Nat : \E g : Upto(n, g)}
           N == Len(links)
<1>0. N \in Nat
  BY LenProperties
<1>1. 0 \in S
  <2>1. Upto(0, [i \in 0..0 |-> Identity])
    OBVIOUS
  <2> QED
    BY <2>1
<1> HIDE DEF N
<1>2. \A k \in Nat : k < N /\ k \in S => k + 1 \in S
  <2> SUFFICES ASSUME NEW k \in Nat, k \in S
               PROVE  k + 1 \in S
    OBVIOUS
  <2>1. PICK g : Upto(k, g)
    OBVIOUS
  <2> DEFINE h == [i \in 0..(k + 1) |-> IF i = k + 1 THEN Then(g[k], Crossed(links[i])) ELSE g[i]]
  <2>2. ASSUME NEW i \in 0..(k + 1)
        PROVE  h[i] = IF i = 0 THEN Identity ELSE Then(h[i - 1], Crossed(links[i]))
    <3>1. CASE i = k + 1
      BY <3>1
    <3>2. CASE i \in 0..k
      <4>1. g[i] = IF i = 0 THEN Identity ELSE Then(g[i - 1], Crossed(links[i]))
        BY <2>1, <3>2
      <4>2. h[i] = g[i] /\ (i # 0 => h[i - 1] = g[i - 1])
        BY <3>2
      <4> QED
        BY <4>1, <4>2
    <3> QED
      BY <3>1, <3>2
  <2> HIDE DEF h
  <2>3. Upto(k + 1, h)
    BY <2>2 DEF h
  <2> QED
    BY <2>3
<1> HIDE DEF S
<1>4. N \in S
  BY <1>0, <1>1, <1>2, Induct
<1>5. PICK g : Upto(N, g)
  BY <1>4 DEF S
<1>6. along(links) = [i \in 0..N |-> IF i = 0 THEN Identity ELSE Then(along(links)[i - 1], Crossed(links[i]))]
  BY <1>5 DEF along, N
<1>7. along(links)[0] = Identity /\ \A i \in 1..N : along(links)[i] = Then(along(links)[i - 1], Crossed(links[i]))
  BY <1>0, <1>6
<1> QED
  BY <1>7 DEF N

\* Crossing one link more goes on from where its frames are.
LEMMA OneLinkCrossed ==
  ASSUME NEW T, NEW ts \in Seq(T), IsPlaced(ts), NEW pose, Poses(ts, FramesOf(ts), pose),
         NEW i \in DOMAIN ts, NEW l, l.tf = ts[i], NEW f, NEW g, Joins(l, f, g)
  PROVE  /\ Crossed(l) \in Motions /\ pose[f] \in Motions /\ pose[g] \in Motions
         /\ \A p \in Points : ApplyTo(pose[f], ApplyTo(Crossed(l), p)) = ApplyTo(pose[g], p)
<1> DEFINE iso == Isometry(ts[i])
           up == ts[i].parent
           down == ts[i].child
<1>1. up \in FramesOf(ts) /\ down \in FramesOf(ts)
  BY DEF FramesOf
<1>2. /\ iso \in Motions /\ Invert(iso) \in Motions /\ pose[up] \in Motions /\ pose[down] \in Motions
      /\ pose[down] = Then(pose[up], iso)
  BY <1>1, LinksMove, MotionsInvert DEF Poses
<1>3. Crossed(l) = IF l.inverse THEN Invert(iso) ELSE iso
  BY DEF Crossed
<1>4. IF l.inverse THEN f = down /\ g = up ELSE f = up /\ g = down
  BY DEF Joins
<1> HIDE DEF iso, up, down
<1>5. ASSUME NEW p \in Points
      PROVE  ApplyTo(pose[f], ApplyTo(Crossed(l), p)) = ApplyTo(pose[g], p)
  <2>1. CASE l.inverse
    <3> DEFINE q == ApplyTo(Invert(iso), p)
    <3>1. q \in Points /\ ApplyTo(iso, q) = p
      BY <1>2, MotionsFollow, MotionsInvert
    <3> HIDE DEF q
    <3>2. ApplyTo(pose[down], q) = ApplyTo(pose[up], ApplyTo(iso, q))
      BY <1>2, <3>1, MotionsFollow
    <3> QED
      BY <1>3, <1>4, <2>1, <3>1, <3>2 DEF q
  <2>2. CASE ~l.inverse
    BY <1>2, <1>3, <1>4, <2>2, MotionsFollow
  <2> QED
    BY <2>1, <2>2
<1> QED
  BY <1>2, <1>3, <1>4, <1>5

\* What a path composes leads from the one frame's place to the other's.
LEMMA WaysLead ==
  ASSUME NEW T, NEW ts \in Seq(T), IsPlaced(ts), NEW pose, Poses(ts, FramesOf(ts), pose),
         NEW a, NEW b, NEW links \in SomeLinks(T), NEW F, Way(ts, links, F, a, b)
  PROVE  LET m == along(links)[Len(links)] IN
         /\ m \in Motions
         /\ \A p \in Points : ApplyTo(pose[a], ApplyTo(m, p)) = ApplyTo(pose[b], p)
<1> DEFINE N == Len(links)
           m(k) == along(links)[k]
           Leads(k) == /\ m(k) \in Motions
                       /\ \A p \in Points : ApplyTo(pose[a], ApplyTo(m(k), p)) = ApplyTo(pose[F[k]], p)
           S == {k \in Nat : Leads(k)}
<1>0. N \in Nat
  BY LenProperties DEF SomeLinks
<1>1. m(0) = Identity /\ \A i \in 1..N : m(i) = Then(m(i - 1), Crossed(links[i]))
  BY LinksAreCrossed DEF SomeLinks
<1>2. F[0] = a /\ F[N] = b
  BY DEF Way
<1>3. pose[a] \in Motions
  BY <1>0, <1>2 DEF Way, Poses
<1> HIDE DEF m
<1>4. 0 \in S
  BY <1>1, <1>2, <1>3, IdentityStays
<1>5. ASSUME NEW k \in Nat, k < N, k \in S
      PROVE  k + 1 \in S
  <2> DEFINE l == links[k + 1]
  <2>1. k + 1 \in 1..N /\ k + 1 - 1 = k
    BY <1>0, <1>5
  <2>2. m(k + 1) = Then(m(k), Crossed(l))
    BY <1>1, <2>1
  <2>3. \E i \in DOMAIN ts : l.tf = ts[i] /\ Joins(l, F[(k + 1) - 1], F[k + 1])
    BY <2>1 DEF Way
  <2>4. PICK i \in DOMAIN ts : l.tf = ts[i] /\ Joins(l, F[k], F[k + 1])
    BY <2>1, <2>3
  <2> HIDE DEF l
  <2>5. /\ Crossed(l) \in Motions /\ pose[F[k]] \in Motions
        /\ \A p \in Points : ApplyTo(pose[F[k]], ApplyTo(Crossed(l), p)) = ApplyTo(pose[F[k + 1]], p)
    BY <2>4, OneLinkCrossed
  <2>6. /\ m(k) \in Motions
        /\ \A p \in Points : ApplyTo(pose[a], ApplyTo(m(k), p)) = ApplyTo(pose[F[k]], p)
    BY <1>5
  <2>7. m(k + 1) \in Motions
    <3>1. <<0, 0, 0>> \in Points
      BY DEF Points
    <3> QED
      BY <2>2, <2>5, <2>6, <3>1, MotionsFollow
  <2>8. ASSUME NEW p \in Points
        PROVE  ApplyTo(pose[a], ApplyTo(m(k + 1), p)) = ApplyTo(pose[F[k + 1]], p)
    <3>1. ApplyTo(Crossed(l), p) \in Points
      BY <2>5, MotionsFollow
    <3>2. ApplyTo(m(k + 1), p) = ApplyTo(m(k), ApplyTo(Crossed(l), p))
      BY <2>2, <2>5, <2>6, MotionsFollow
    <3> QED
      BY <2>5, <2>6, <3>1, <3>2
  <2> QED
    BY <2>7, <2>8
<1> HIDE DEF S
<1>6. N \in S
  BY <1>0, <1>4, <1>5, Induct
<1> QED
  BY <1>2, <1>6 DEF S, m

\* What a link holds up: its child and what is below it.
Below(ts, i) == {f \in FramesOf(ts) : f = ts[i].child \/ ts[i].child \in AncestorsOf(ts, f)}

\* The link itself leads in there, every other one stays inside or outside.
LEMMA LinksKeepSides ==
  ASSUME NEW T, NEW ts \in Seq(T), IsTree(ts), NEW i \in DOMAIN ts, NEW j \in DOMAIN ts
  PROVE  /\ ts[i].child \in Below(ts, i) /\ ts[i].parent \notin Below(ts, i)
         /\ j # i => (ts[j].child \in Below(ts, i) <=> ts[j].parent \in Below(ts, i))
<1>1. /\ ts[i].child \in FramesOf(ts) /\ ts[i].parent \in FramesOf(ts)
      /\ ts[j].child \in FramesOf(ts) /\ ts[j].parent \in FramesOf(ts)
  BY DEF FramesOf
<1>2. ts[i].parent \in AncestorsOf(ts, ts[i].child) /\ ts[j].parent \in AncestorsOf(ts, ts[j].child)
  BY AncestorsAreLeast DEF Up
<1>3. ts[i].child \in Below(ts, i)
  BY <1>1 DEF Below
<1>4. ts[i].parent \notin Below(ts, i)
  <2>1. ts[i].child \notin AncestorsOf(ts, ts[i].child)
    BY <1>1, TreeParts
  <2>2. AncestorsOf(ts, ts[i].parent) \subseteq AncestorsOf(ts, ts[i].child)
    BY <1>2, AncestorsOfAncestors
  <2> QED
    BY <1>2, <2>1, <2>2 DEF Below
<1>5. ASSUME j # i
      PROVE  ts[j].child \in Below(ts, i) <=> ts[j].parent \in Below(ts, i)
  <2> DEFINE f == ts[j].child
             g == ts[j].parent
             A == {g} \cup AncestorsOf(ts, g)
  <2>1. f # ts[i].child
    BY <1>5, TreeParts
  <2>2. Up(ts, f) = {g}
    BY TreeParts DEF Up
  <2>3. AncestorsOf(ts, g) \in SUBSET FramesOf(ts) /\ Up(ts, g) \subseteq AncestorsOf(ts, g)
        /\ Closed(ts, AncestorsOf(ts, g))
    BY AncestorsAreLeast
  <2>4. A \in SUBSET FramesOf(ts) /\ Closed(ts, A) /\ Up(ts, f) \subseteq A
    BY <1>1, <2>2, <2>3 DEF Closed
  <2>5. AncestorsOf(ts, f) \subseteq A
    BY <2>4, AncestorsAreLeast
  <2>6. A \subseteq AncestorsOf(ts, f)
    BY <1>2, AncestorsOfAncestors
  <2> QED
    BY <1>1, <2>1, <2>5, <2>6 DEF Below
<1> QED
  BY <1>3, <1>4, <1>5

\* Between two places of a way, a link not taken leaves the frames on their side.
LEMMA WaysKeepSides ==
  ASSUME NEW T, NEW ts \in Seq(T), IsTree(ts), NEW a, NEW b, NEW links \in SomeLinks(T), NEW F,
         Way(ts, links, F, a, b), NEW i \in DOMAIN ts,
         NEW m \in Nat, NEW n \in Nat, m + n <= Len(links),
         \A k \in (m + 1)..(m + n) : links[k].tf # ts[i]
  PROVE  F[m] \in Below(ts, i) <=> F[m + n] \in Below(ts, i)
<1> DEFINE S == {d \in Nat : F[m] \in Below(ts, i) <=> F[m + d] \in Below(ts, i)}
<1>0. Len(links) \in Nat
  BY LenProperties DEF SomeLinks
<1>1. 0 \in S
  OBVIOUS
<1>2. ASSUME NEW d \in Nat, d < n, d \in S
      PROVE  d + 1 \in S
  <2>1. m + (d + 1) \in 1..Len(links) /\ m + (d + 1) \in (m + 1)..(m + n) /\ m + (d + 1) - 1 = m + d
    BY <1>0, <1>2
  <2> DEFINE k == m + (d + 1)
             l == links[k]
  <2>2. \E j \in DOMAIN ts : l.tf = ts[j] /\ Joins(l, F[k - 1], F[k])
    BY <2>1 DEF Way
  <2>3. PICK j \in DOMAIN ts : l.tf = ts[j] /\ Joins(l, F[m + d], F[k])
    BY <2>1, <2>2
  <2>4. j # i
    BY <2>1, <2>3
  <2>5. ts[j].child \in Below(ts, i) <=> ts[j].parent \in Below(ts, i)
    BY <2>4, LinksKeepSides
  <2>6. F[m + d] \in Below(ts, i) <=> F[k] \in Below(ts, i)
    BY <2>3, <2>5 DEF Joins
  <2> QED
    BY <1>2, <2>6
<1> HIDE DEF S
<1>3. n \in S
  BY <1>1, <1>2, Induct
<1> QED
  BY <1>3 DEF S

\* A way without moving links stays on the side of each, and a way that stays on the
\* side of each has none.
LEMMA StillWaysKeepSides ==
  ASSUME NEW T, NEW ts \in Seq(T), IsTree(ts), NEW a, NEW b, NEW links \in SomeLinks(T), NEW F,
         Way(ts, links, F, a, b), Still(links), NEW i \in DOMAIN ts, ts[i].dynamic
  PROVE  a \in Below(ts, i) <=> b \in Below(ts, i)
<1>1. Len(links) \in Nat /\ DOMAIN links = 1..Len(links)
  BY LenProperties DEF SomeLinks
<1>2. \A k \in 1..Len(links) : links[k].tf # ts[i]
  BY <1>1 DEF Still
<1> DEFINE n == Len(links)
<1>3. 0 + n <= Len(links) /\ 0 \in Nat /\ n \in Nat /\ \A k \in (0 + 1)..(0 + n) : links[k].tf # ts[i]
  BY <1>1, <1>2
<1> HIDE DEF n
<1>4. F[0] \in Below(ts, i) <=> F[0 + n] \in Below(ts, i)
  BY <1>3, WaysKeepSides
<1>5. F[0] = a /\ F[0 + n] = b
  BY <1>1 DEF Way, n
<1> QED
  BY <1>4, <1>5

LEMMA WaysOnOneSideAreStill ==
  ASSUME NEW T, NEW ts \in Seq(T), IsTree(ts), NEW a, NEW b, NEW links \in SomeLinks(T), NEW F,
         Way(ts, links, F, a, b),
         \A i \in DOMAIN ts : ts[i].dynamic => (a \in Below(ts, i) <=> b \in Below(ts, i))
  PROVE  Still(links)
<1> DEFINE n == Len(links)
<1>1. n \in Nat /\ DOMAIN links = 1..n
  BY LenProperties DEF SomeLinks
<1> SUFFICES ASSUME NEW k \in 1..n, links[k].tf.dynamic
             PROVE  FALSE
  BY <1>1 DEF Still
<1>2. PICK i \in DOMAIN ts : links[k].tf = ts[i] /\ Joins(links[k], F[k - 1], F[k])
  BY DEF Way
<1>3. /\ F[0] = a /\ F[n] = b
      /\ \A j \in 1..n : \E h \in DOMAIN ts : links[j].tf = ts[h] /\ Joins(links[j], F[j - 1], F[j])
      /\ \A j, h \in 0..n : F[j] = F[h] => j = h
  BY DEF Way
<1>4. {F[k - 1], F[k]} = {ts[i].parent, ts[i].child}
  BY <1>2 DEF Joins
<1>5. ASSUME NEW j \in 1..n, links[j].tf = ts[i]
      PROVE  j = k
  <2>1. Joins(links[j], F[j - 1], F[j])
    BY <1>3
  <2>2. {F[j - 1], F[j]} = {ts[i].parent, ts[i].child}
    BY <1>5, <2>1 DEF Joins
  <2>3. F[j] \in {F[k - 1], F[k]} /\ F[j - 1] \in {F[k - 1], F[k]}
    BY <1>4, <2>2
  <2>4. k \in 0..n /\ k - 1 \in 0..n /\ j \in 0..n /\ j - 1 \in 0..n
    BY <1>1
  <2>5. j \in {k - 1, k} /\ j - 1 \in {k - 1, k}
    BY <1>3, <2>3, <2>4
  <2> QED
    BY <1>1, <2>5
<1>6. a \in Below(ts, i) <=> F[k - 1] \in Below(ts, i)
  <2> DEFINE m == k - 1
  <2>1. m \in Nat /\ 0 \in Nat /\ 0 + m <= n /\ 0 + m = m /\ \A j \in (0 + 1)..(0 + m) : links[j].tf # ts[i]
    BY <1>1, <1>5
  <2> HIDE DEF m
  <2>2. F[0] \in Below(ts, i) <=> F[0 + m] \in Below(ts, i)
    BY <2>1, WaysKeepSides
  <2> QED
    BY <1>3, <2>1, <2>2 DEF m
<1>7. F[k] \in Below(ts, i) <=> b \in Below(ts, i)
  <2> DEFINE m == n - k
  <2>1. m \in Nat /\ k \in Nat /\ k + m <= n /\ k + m = n /\ \A j \in (k + 1)..(k + m) : links[j].tf # ts[i]
    BY <1>1, <1>5
  <2> HIDE DEF m
  <2>2. F[k] \in Below(ts, i) <=> F[k + m] \in Below(ts, i)
    BY <2>1, WaysKeepSides
  <2> QED
    BY <1>3, <2>1, <2>2
<1>8. ts[i].child \in Below(ts, i) /\ ts[i].parent \notin Below(ts, i)
  BY LinksKeepSides
<1>9. ts[i].dynamic
  BY <1>2
<1> QED
  BY <1>2, <1>6, <1>7, <1>8, <1>9 DEF Joins

\* A lookup answers between frames that no moving link parts, and then with what
\* leads from the one's place to the other's.
LEMMA LookupsAnswer ==
  ASSUME NEW T, NEW ts \in Seq(T), IsTree(ts), IsPlaced(ts),
         NEW pose, Poses(ts, FramesOf(ts), pose), NEW a \in FramesOf(ts), NEW b \in FramesOf(ts)
  PROVE  /\ \A m \in Lookup(ts, a, b) :
              /\ m \in Motions
              /\ \A p \in Points : ApplyTo(pose[a], ApplyTo(m, p)) = ApplyTo(pose[b], p)
              /\ \A i \in DOMAIN ts : ts[i].dynamic => (a \in Below(ts, i) <=> b \in Below(ts, i))
         /\ (\A i \in DOMAIN ts : ts[i].dynamic => (a \in Below(ts, i) <=> b \in Below(ts, i)))
              => \E m : m \in Lookup(ts, a, b)
<1>1. ASSUME NEW m \in Lookup(ts, a, b)
      PROVE  /\ m \in Motions
             /\ \A p \in Points : ApplyTo(pose[a], ApplyTo(m, p)) = ApplyTo(pose[b], p)
             /\ \A i \in DOMAIN ts : ts[i].dynamic => (a \in Below(ts, i) <=> b \in Below(ts, i))
  <2>1. PICK links \in path(ts, a, b) : Still(links) /\ m = along(links)[Len(links)]
    BY DEF Lookup
  <2>2. PICK F : links \in SomeLinks(T) /\ Way(ts, links, F, a, b)
    BY PathsAreWays
  <2>3. /\ m \in Motions
        /\ \A p \in Points : ApplyTo(pose[a], ApplyTo(m, p)) = ApplyTo(pose[b], p)
    BY <2>1, <2>2, WaysLead
  <2>4. \A i \in DOMAIN ts : ts[i].dynamic => (a \in Below(ts, i) <=> b \in Below(ts, i))
    BY <2>1, <2>2, StillWaysKeepSides
  <2> QED
    BY <2>3, <2>4
<1>2. ASSUME \A i \in DOMAIN ts : ts[i].dynamic => (a \in Below(ts, i) <=> b \in Below(ts, i))
      PROVE  \E m : m \in Lookup(ts, a, b)
  <2>1. PICK links : links \in path(ts, a, b)
    BY TreesConnect DEF Connects
  <2>2. PICK F : links \in SomeLinks(T) /\ Way(ts, links, F, a, b)
    BY <2>1, PathsAreWays
  <2>3. Still(links)
    BY <1>2, <2>2, WaysOnOneSideAreStill
  <2> QED
    BY <2>1, <2>3 DEF Lookup
<1> QED
  BY <1>1, <1>2

\* In a tree, lookups compose and invert, for any number of links by any of the
\* rotations (FrameTree.Lookup).
LEMMA LookupsFitTogether ==
  ASSUME NEW T, NEW ts \in Seq(T), IsPlaced(ts), NEW p \in Points
  PROVE  LookupsCompose(ts, p)
<1> SUFFICES ASSUME IsTree(ts), NEW a \in FramesOf(ts), NEW b \in FramesOf(ts), NEW c \in FramesOf(ts),
                    NEW ab \in Lookup(ts, a, b), NEW bc \in Lookup(ts, b, c)
             PROVE  /\ \E ac \in Lookup(ts, a, c) : ApplyTo(ac, p) = ApplyTo(ab, ApplyTo(bc, p))
                    /\ \E ba \in Lookup(ts, b, a) : ApplyTo(ba, ApplyTo(ab, p)) = p
  BY DEF LookupsCompose
<1>1. PICK pose : Poses(ts, FramesOf(ts), pose)
  BY FramesHavePoses
<1> DEFINE Together(x, y) == \A i \in DOMAIN ts : ts[i].dynamic => (x \in Below(ts, i) <=> y \in Below(ts, i))
           Leads(m, x, y) == /\ m \in Motions
                             /\ \A q \in Points : ApplyTo(pose[x], ApplyTo(m, q)) = ApplyTo(pose[y], q)
<1>2. \A x, y \in FramesOf(ts) :
        /\ \A m \in Lookup(ts, x, y) : Leads(m, x, y) /\ Together(x, y)
        /\ Together(x, y) => \E m : m \in Lookup(ts, x, y)
  BY <1>1, LookupsAnswer
<1>3. Together(a, b) /\ Together(b, c) => Together(a, c) /\ Together(b, a)
  OBVIOUS
<1> HIDE DEF Together
<1>4. PICK ac \in Lookup(ts, a, c) : Leads(ac, a, c)
  BY <1>2, <1>3
<1>5. PICK ba \in Lookup(ts, b, a) : Leads(ba, b, a)
  BY <1>2, <1>3
<1>6. Leads(ab, a, b) /\ Leads(bc, b, c)
  BY <1>2
<1>7. pose[a] \in Motions /\ pose[b] \in Motions
  BY <1>1 DEF Poses
<1>8. ApplyTo(ac, p) = ApplyTo(ab, ApplyTo(bc, p))
  <2>1. /\ ApplyTo(bc, p) \in Points /\ ApplyTo(ac, p) \in Points
        /\ ApplyTo(ab, ApplyTo(bc, p)) \in Points
    BY <1>4, <1>6, MotionsFollow
  <2>2. ApplyTo(pose[a], ApplyTo(ac, p)) = ApplyTo(pose[a], ApplyTo(ab, ApplyTo(bc, p)))
    BY <1>4, <1>6, <2>1
  <2> QED
    BY <1>7, <2>1, <2>2, MotionsInvert
<1>9. ApplyTo(ba, ApplyTo(ab, p)) = p
  <2>1. ApplyTo(ab, p) \in Points /\ ApplyTo(ba, ApplyTo(ab, p)) \in Points
    BY <1>5, <1>6, MotionsFollow
  <2>2. ApplyTo(pose[b], ApplyTo(ba, ApplyTo(ab, p))) = ApplyTo(pose[b], p)
    BY <1>5, <1>6, <2>1
  <2> DEFINE x == ApplyTo(ba, ApplyTo(ab, p))
  <2>3. x \in Points /\ ApplyTo(pose[b], x) = ApplyTo(pose[b], p)
    BY <2>1, <2>2
  <2> HIDE DEF x
  <2>4. x = p
    BY <1>7, <2>3, MotionsInvert
  <2> QED
    BY <2>4 DEF x
<1> QED
  BY <1>8, <1>9

-----------------------------------------------------------------------------
(* Deriving the transforms.                                                  *)

\* Filtering depends on what the list holds of the set.
SameOn(s, S, R) == ToSet(s) \cap S = ToSet(s) \cap R

LEMMA AmongSame ==
  ASSUME NEW s, IsList(s), NEW S, NEW R, SameOn(s, S, R)
  PROVE  Among(s, S) = Among(s, R)
<1> DEFINE A(k) == AmongFirst(s, S)[k]
           B(k) == AmongFirst(s, R)[k]
           K == {k \in Nat : A(k) = B(k)}
<1>1. Len(s) \in Nat /\ \A i \in 1..Len(s) : s[i] \in ToSet(s)
  BY ListLen
<1>2. /\ A(0) = <<>> /\ \A i \in 1..Len(s) : A(i) = IF s[i] \in S THEN Append(A(i - 1), s[i]) ELSE A(i - 1)
      /\ B(0) = <<>> /\ \A i \in 1..Len(s) : B(i) = IF s[i] \in R THEN Append(B(i - 1), s[i]) ELSE B(i - 1)
  BY AmongSteps
<1>3. \A i \in 1..Len(s) : s[i] \in S <=> s[i] \in R
  BY <1>1 DEF SameOn
<1> HIDE DEF A, B
<1>4. 0 \in K
  BY <1>2
<1>5. ASSUME NEW k \in Nat, k < Len(s), k \in K
      PROVE  k + 1 \in K
  <2>1. k + 1 \in 1..Len(s) /\ (k + 1) - 1 = k /\ A(k) = B(k)
    BY <1>1, <1>5
  <2>2. A(k + 1) = IF s[k + 1] \in S THEN Append(A(k), s[k + 1]) ELSE A(k)
    BY <1>2, <2>1
  <2>3. B(k + 1) = IF s[k + 1] \in R THEN Append(B(k), s[k + 1]) ELSE B(k)
    BY <1>2, <2>1
  <2>4. s[k + 1] \in S <=> s[k + 1] \in R
    BY <1>3, <2>1
  <2> QED
    BY <2>1, <2>2, <2>3, <2>4
<1> HIDE DEF K
<1>6. Len(s) \in K
  BY <1>1, <1>4, <1>5, Induct
<1> QED
  BY <1>6 DEF K, A, B, Among

LEMMA AmongBoth ==
  ASSUME NEW a, NEW b, IsList(a), IsList(b), NEW S, NEW A, NEW B,
         SameOn(a, S, A), SameOn(b, S, B)
  PROVE  Among(a \o b, S) = Among(a, A) \o Among(b, B)
<1>1. Among(a, S) = Among(a, A)
  BY AmongSame
<1>2. Among(b, S) = Among(b, B)
  BY AmongSame
<1>3. Among(a \o b, S) = Among(a, S) \o Among(b, S)
  BY AmongTwo
<1> QED
  BY <1>1, <1>2, <1>3

LEMMA EndsAreEmpty ==
  ASSUME NEW a, IsList(a)
  PROVE  a \o <<>> = a /\ <<>> \o a = a
BY ConcatEmptySeq DEF IsList

LEMMA ListsAssociate ==
  ASSUME NEW a, NEW b, NEW c, IsList(a), IsList(b), IsList(c)
  PROVE  (a \o b) \o c = a \o (b \o c)
<1>1. /\ a \in Seq(ToSet(a) \cup ToSet(b) \cup ToSet(c)) /\ b \in Seq(ToSet(a) \cup ToSet(b) \cup ToSet(c))
      /\ c \in Seq(ToSet(a) \cup ToSet(b) \cup ToSet(c))
  BY SeqMonotonic DEF IsList
<1> QED
  BY <1>1, ConcatAssociative

\* The links that stay, those that move, those of the world.
LEMMA FixedParts ==
  ASSUME NEW a, IsList(a)
  PROVE  /\ IsList(Fixed(a)) /\ ToSet(Fixed(a)) = {t \in ToSet(a) : ~t.dynamic}
         /\ (\A t \in ToSet(a) : ~t.dynamic) => Fixed(a) = a
         /\ (\A t \in ToSet(a) : t.dynamic) => Fixed(a) = <<>>
         /\ \A b : IsList(b) => Fixed(a \o b) = Fixed(a) \o Fixed(b)
<1>1. IsList(Fixed(a)) /\ ToSet(Fixed(a)) = {t \in ToSet(a) : ~t.dynamic}
  BY AmongIsList DEF Fixed
<1>2. (\A t \in ToSet(a) : ~t.dynamic) => Fixed(a) = a
  BY AmongAll DEF Fixed
<1>3. (\A t \in ToSet(a) : t.dynamic) => Fixed(a) = <<>>
  BY AmongNone DEF Fixed
<1>4. ASSUME NEW b, IsList(b) PROVE Fixed(a \o b) = Fixed(a) \o Fixed(b)
  <2> DEFINE S == {t \in ToSet(a \o b) : ~t.dynamic}
             A == {t \in ToSet(a) : ~t.dynamic}
             B == {t \in ToSet(b) : ~t.dynamic}
  <2>1. SameOn(a, S, A) /\ SameOn(b, S, B)
    BY <1>4, ListsJoin DEF SameOn
  <2> HIDE DEF S, A, B
  <2>2. Among(a \o b, S) = Among(a, A) \o Among(b, B)
    BY <1>4, <2>1, AmongBoth
  <2> QED
    BY <2>2 DEF Fixed, S, A, B
<1> QED
  BY <1>1, <1>2, <1>3, <1>4

LEMMA MovingParts ==
  ASSUME NEW a, IsList(a)
  PROVE  /\ IsList(Moving(a)) /\ ToSet(Moving(a)) = {t \in ToSet(a) : t.dynamic}
         /\ (\A t \in ToSet(a) : t.dynamic) => Moving(a) = a
         /\ (\A t \in ToSet(a) : ~t.dynamic) => Moving(a) = <<>>
         /\ \A b : IsList(b) => Moving(a \o b) = Moving(a) \o Moving(b)
<1>1. IsList(Moving(a)) /\ ToSet(Moving(a)) = {t \in ToSet(a) : t.dynamic}
  BY AmongIsList DEF Moving
<1>2. (\A t \in ToSet(a) : t.dynamic) => Moving(a) = a
  BY AmongAll DEF Moving
<1>3. (\A t \in ToSet(a) : ~t.dynamic) => Moving(a) = <<>>
  BY AmongNone DEF Moving
<1>4. ASSUME NEW b, IsList(b) PROVE Moving(a \o b) = Moving(a) \o Moving(b)
  <2> DEFINE S == {t \in ToSet(a \o b) : t.dynamic}
             A == {t \in ToSet(a) : t.dynamic}
             B == {t \in ToSet(b) : t.dynamic}
  <2>1. SameOn(a, S, A) /\ SameOn(b, S, B)
    BY <1>4, ListsJoin DEF SameOn
  <2> HIDE DEF S, A, B
  <2>2. Among(a \o b, S) = Among(a, A) \o Among(b, B)
    BY <1>4, <2>1, AmongBoth
  <2> QED
    BY <2>2 DEF Moving, S, A, B
<1> QED
  BY <1>1, <1>2, <1>3, <1>4

LEMMA WorldParts ==
  ASSUME NEW a, IsList(a), NEW joints
  PROVE  LET kept == keepWorldLinks(a, joints) IN
         /\ IsList(kept) /\ ToSet(kept) = {t \in ToSet(a) : t.child \notin ChildrenOf(joints)}
         /\ (\A t \in ToSet(a) : t.child \notin ChildrenOf(joints)) => kept = a
         /\ (\A t \in ToSet(a) : t.child \in ChildrenOf(joints)) => kept = <<>>
<1> DEFINE kept == keepWorldLinks(a, joints)
           C == ChildrenOf(joints)
<1>1. IsList(kept) /\ ToSet(kept) = {t \in ToSet(a) : t.child \notin C}
  BY AmongIsList DEF keepWorldLinks
<1>2. (\A t \in ToSet(a) : t.child \notin C) => kept = a
  BY AmongAll DEF keepWorldLinks
<1>3. (\A t \in ToSet(a) : t.child \in C) => kept = <<>>
  BY AmongNone DEF keepWorldLinks
<1> QED
  BY <1>1, <1>2, <1>3

LEMMA WorldsJoin ==
  ASSUME NEW a, IsList(a), NEW b, IsList(b), NEW joints
  PROVE  keepWorldLinks(a \o b, joints) = keepWorldLinks(a, joints) \o keepWorldLinks(b, joints)
<1> DEFINE S == {t \in ToSet(a \o b) : t.child \notin ChildrenOf(joints)}
           A == {t \in ToSet(a) : t.child \notin ChildrenOf(joints)}
           B == {t \in ToSet(b) : t.child \notin ChildrenOf(joints)}
<1>1. SameOn(a, S, A) /\ SameOn(b, S, B)
  BY ListsJoin DEF SameOn
<1> HIDE DEF S, A, B
<1>2. Among(a \o b, S) = Among(a, A) \o Among(b, B)
  BY <1>1, AmongBoth
<1> QED
  BY <1>2 DEF keepWorldLinks, S, A, B

\* Leaving out the offsets of a list, of two, and of one that has none.
LEMMA BaredParts ==
  ASSUME NEW a, IsList(a)
  PROVE  /\ IsList(Bared(a)) /\ ToSet(Bared(a)) = {Bare(t) : t \in ToSet(a)}
         /\ (\A t \in ToSet(a) : Bare(t) = t) => Bared(a) = a
         /\ \A b : IsList(b) => Bared(a \o b) = Bared(a) \o Bared(b)
<1>1. Len(a) \in Nat /\ DOMAIN a = 1..Len(a) /\ \A i \in 1..Len(a) : a[i] \in ToSet(a)
  BY ListLen
<1>2. \A s : IsList(s) => /\ Bared(s) = [i \in 1..Len(s) |-> Bare(s[i])]
                          /\ IsList(Bared(s)) /\ Len(Bared(s)) = Len(s)
                          /\ ToSet(Bared(s)) = {Bare(s[i]) : i \in 1..Len(s)}
  <2> SUFFICES ASSUME NEW s, IsList(s)
               PROVE  /\ Bared(s) = [i \in 1..Len(s) |-> Bare(s[i])]
                      /\ IsList(Bared(s)) /\ Len(Bared(s)) = Len(s)
                      /\ ToSet(Bared(s)) = {Bare(s[i]) : i \in 1..Len(s)}
    OBVIOUS
  <2> DEFINE f == [i \in 1..Len(s) |-> Bare(s[i])]
  <2>1. Bared(s) = f /\ Len(s) \in Nat
    BY ListLen DEF Bared
  <2>2. f = [i \in 1..Len(s) |-> f[i]] /\ \A i \in 1..Len(s) : f[i] = Bare(s[i])
    OBVIOUS
  <2> HIDE DEF f
  <2>3. IsList(f) /\ Len(f) = Len(s) /\ ToSet(f) = {f[i] : i \in 1..Len(s)}
    BY <2>1, <2>2, ListMade
  <2>4. ToSet(f) = {Bare(s[i]) : i \in 1..Len(s)}
    BY <2>2, <2>3
  <2> QED
    BY <2>1, <2>3, <2>4 DEF f
<1>3. ToSet(Bared(a)) = {Bare(t) : t \in ToSet(a)}
  <2>1. ToSet(a) = {a[i] : i \in 1..Len(a)}
    BY <1>1 DEF ToSet
  <2> QED
    BY <1>2, <2>1
<1>4. (\A t \in ToSet(a) : Bare(t) = t) => Bared(a) = a
  <2> SUFFICES ASSUME \A t \in ToSet(a) : Bare(t) = t PROVE Bared(a) = a
    OBVIOUS
  <2>1. /\ Bared(a) \in Seq(ToSet(Bared(a)) \cup ToSet(a)) /\ a \in Seq(ToSet(Bared(a)) \cup ToSet(a))
        /\ Len(Bared(a)) = Len(a)
    BY <1>2, SeqMonotonic DEF IsList
  <2>2. \A i \in 1..Len(a) : Bared(a)[i] = a[i]
    BY <1>1, <1>2
  <2> QED
    BY <2>1, <2>2, SeqEqual
<1>5. ASSUME NEW b, IsList(b) PROVE Bared(a \o b) = Bared(a) \o Bared(b)
  <2> DEFINE c == a \o b
             l == Bared(c)
             r == Bared(a) \o Bared(b)
             m == Len(a)
             n == Len(b)
  <2>1. /\ IsList(c) /\ Len(c) = m + n /\ m \in Nat /\ n \in Nat
        /\ \A i \in 1..m : c[i] = a[i]
        /\ \A i \in 1..n : c[m + i] = b[i]
    BY <1>5, ListsJoin, ListLen
  <2>2. /\ IsList(l) /\ Len(l) = m + n /\ \A i \in 1..(m + n) : l[i] = Bare(c[i])
    <3> HIDE DEF c, m, n
    <3>1. Len(c) = m + n /\ l = [i \in 1..Len(c) |-> Bare(c[i])] /\ IsList(l) /\ Len(l) = Len(c)
      BY <1>2, <2>1
    <3> HIDE DEF l
    <3> QED
      BY <3>1
  <2>3. /\ IsList(Bared(a)) /\ IsList(Bared(b)) /\ Len(Bared(a)) = m /\ Len(Bared(b)) = n
        /\ \A i \in 1..m : Bared(a)[i] = Bare(a[i])
        /\ \A i \in 1..n : Bared(b)[i] = Bare(b[i])
    BY <1>2, <1>5
  <2>4. /\ IsList(r) /\ Len(r) = m + n
        /\ \A i \in 1..m : r[i] = Bared(a)[i]
        /\ \A i \in 1..n : r[m + i] = Bared(b)[i]
    BY <2>3, ListsJoin
  <2> HIDE DEF c, l, r, m, n
  <2>5. ASSUME NEW i \in 1..(m + n) PROVE l[i] = r[i]
    <3>1. CASE i \in 1..m
      BY <2>1, <2>2, <2>3, <2>4, <3>1
    <3>2. CASE i \notin 1..m
      <4> DEFINE k == i - m
      <4>1. k \in 1..n /\ i = m + k
        BY <2>1, <3>2
      <4> HIDE DEF k
      <4>2. l[i] = Bare(c[i])
        BY <2>2
      <4>3. c[i] = b[k] /\ r[i] = Bared(b)[k] /\ Bared(b)[k] = Bare(b[k])
        BY <2>1, <2>3, <2>4, <4>1
      <4> QED
        BY <4>2, <4>3
    <3> QED
      BY <3>1, <3>2
  <2>6. l \in Seq(ToSet(l) \cup ToSet(r)) /\ r \in Seq(ToSet(l) \cup ToSet(r))
    BY <2>2, <2>4, SeqMonotonic DEF IsList
  <2>7. l = r
    BY <2>2, <2>4, <2>5, <2>6, SeqEqual
  <2> QED
    BY <2>7 DEF l, r, c
<1> QED
  BY <1>2, <1>3, <1>4, <1>5

LEMMA PublishersAreSomebody ==
  ASSUME NEW opts
  PROVE  Publisher(opts) # Nobody
<1>1. "robot_state_publisher" # Nobody
  BY Zenon DEF Nobody
<1> QED
  BY <1>1, Zenon DEF Publisher

\* A transform without an offset is one, of the same two frames.
LEMMA BareTransforms ==
  ASSUME NEW t, IsTransform(t)
  PROVE  /\ IsTransform(Bare(t)) /\ Bare(Bare(t)) = Bare(t)
         /\ Bare(t).child = t.child /\ Bare(t).dynamic = t.dynamic /\ Bare(t).by = t.by
BY DEF Bare, IsTransform

\* A transform read from a file, in one list or the other.
Marked(s, d) == [i \in DOMAIN s |-> [s[i] EXCEPT !.dynamic = d]]

LEMMA MarkedParts ==
  ASSUME NEW s, IsList(s), NEW d \in BOOLEAN, \A t \in ToSet(s) : IsTransform(t)
  PROVE  /\ IsList(Marked(s, d))
         /\ \A t \in ToSet(Marked(s, d)) : IsTransform(t) /\ t.dynamic = d
         /\ (\A t \in ToSet(s) : t.dynamic = d) => Marked(s, d) = s
<1> DEFINE f == [i \in 1..Len(s) |-> [s[i] EXCEPT !.dynamic = d]]
<1>1. Len(s) \in Nat /\ DOMAIN s = 1..Len(s) /\ \A i \in 1..Len(s) : s[i] \in ToSet(s)
  BY ListLen
<1>2. Marked(s, d) = f
  BY <1>1 DEF Marked
<1>3. f = [i \in 1..Len(s) |-> f[i]] /\ \A i \in 1..Len(s) : f[i] = [s[i] EXCEPT !.dynamic = d]
  OBVIOUS
<1> HIDE DEF f
<1>4. IsList(f) /\ Len(f) = Len(s) /\ ToSet(f) = {f[i] : i \in 1..Len(s)}
  BY <1>1, <1>3, ListMade
<1>5. ASSUME NEW t, IsTransform(t)
      PROVE  LET m == [t EXCEPT !.dynamic = d] IN
             IsTransform(m) /\ m.dynamic = d /\ (t.dynamic = d => m = t)
  <2>1. t = [parent |-> t.parent, child |-> t.child, xyz |-> t.xyz, rot |-> t.rot, dynamic |-> t.dynamic, by |-> t.by]
    BY <1>5 DEF IsTransform
  <2>2. [t EXCEPT !.dynamic = d] = [parent |-> t.parent, child |-> t.child, xyz |-> t.xyz, rot |-> t.rot,
                                    dynamic |-> d, by |-> t.by]
    BY <2>1
  <2> QED
    BY <2>1, <2>2 DEF IsTransform
<1>6. \A i \in 1..Len(s) : IsTransform(f[i]) /\ f[i].dynamic = d /\ (s[i].dynamic = d => f[i] = s[i])
  <2> SUFFICES ASSUME NEW i \in 1..Len(s)
               PROVE  IsTransform(f[i]) /\ f[i].dynamic = d /\ (s[i].dynamic = d => f[i] = s[i])
    OBVIOUS
  <2> DEFINE x == s[i]
  <2>1. f[i] = [x EXCEPT !.dynamic = d] /\ IsTransform(x)
    BY <1>1, <1>3
  <2> HIDE DEF x
  <2>2. f[i] = [x EXCEPT !.dynamic = d] => IsTransform(f[i]) /\ f[i].dynamic = d /\ (x.dynamic = d => f[i] = x)
    BY <1>5, <2>1
  <2> QED
    BY <2>1, <2>2 DEF x
<1>7. \A t \in ToSet(f) : IsTransform(t) /\ t.dynamic = d
  BY <1>4, <1>6
<1>8. (\A t \in ToSet(s) : t.dynamic = d) => f = s
  <2> SUFFICES ASSUME \A t \in ToSet(s) : t.dynamic = d PROVE f = s
    OBVIOUS
  <2>1. \A i \in 1..Len(s) : f[i] = s[i]
    BY <1>1, <1>6
  <2>2. f \in Seq(ToSet(f) \cup ToSet(s)) /\ s \in Seq(ToSet(f) \cup ToSet(s))
    BY <1>4, SeqMonotonic DEF IsList
  <2> QED
    BY <1>4, <2>1, <2>2, SeqEqual
<1> QED
  BY <1>2, <1>4, <1>7, <1>8

LEMMA FramesLoaded ==
  ASSUME NEW file, IsFramesFile(file)
  PROVE  LET ts == LoadFrames(file) IN
         /\ IsList(ts) /\ \A t \in ToSet(ts) : IsTransform(t) /\ t.dynamic \in BOOLEAN
         /\ (\A t \in ToSet(file.static) : t.dynamic = FALSE) /\ (\A t \in ToSet(file.dynamic) : t.dynamic = TRUE)
              => ts = file.static \o file.dynamic
<1> DEFINE x == file.static
           y == file.dynamic
           a == Marked(x, FALSE)
           b == Marked(y, TRUE)
           ts == LoadFrames(file)
<1>1. IsList(x) /\ IsList(y) /\ (\A t \in ToSet(x) : IsTransform(t)) /\ (\A t \in ToSet(y) : IsTransform(t))
  BY DEF IsFramesFile
<1>2. ts = a \o b
  BY DEF LoadFrames, Marked
<1> HIDE DEF x, y
<1>3. IsList(a) /\ (\A t \in ToSet(a) : IsTransform(t) /\ t.dynamic = FALSE)
  BY <1>1, MarkedParts
<1>4. IsList(b) /\ (\A t \in ToSet(b) : IsTransform(t) /\ t.dynamic = TRUE)
  BY <1>1, MarkedParts
<1>5. (\A t \in ToSet(x) : t.dynamic = FALSE) => a = x
  BY <1>1, MarkedParts
<1>6. (\A t \in ToSet(y) : t.dynamic = TRUE) => b = y
  BY <1>1, MarkedParts
<1> HIDE DEF a, b
<1>7. IsList(a \o b) /\ ToSet(a \o b) = ToSet(a) \cup ToSet(b)
  BY <1>3, <1>4, ListsJoin
<1>8. IsList(ts) /\ \A t \in ToSet(ts) : IsTransform(t) /\ t.dynamic \in BOOLEAN
  BY <1>2, <1>3, <1>4, <1>7
<1> QED
  BY <1>2, <1>5, <1>6, <1>8 DEF x, y

\* The transforms of the joints: one for each, fixed ones published by somebody else
\* unless they are to be ours.
LEMMA JointsAreFrames ==
  ASSUME NEW joints, IsList(joints), NEW opts, opts.ours \in BOOLEAN
  PROVE  /\ IsList(Frames(joints, opts))
         /\ \A t \in ToSet(Frames(joints, opts)) :
              /\ IsTransform(t) /\ t.dynamic \in BOOLEAN /\ t.child \in ChildrenOf(joints)
              /\ ~t.dynamic => (t.by = Nobody <=> opts.ours)
<1> DEFINE S == {j \in ToSet(joints) : j.type = "fixed" \/ ~opts.fixedOnly}
           used == Among(joints, S)
           f == [i \in 1..Len(used) |-> OfJoint(used[i], opts)]
<1>1. IsList(used) /\ ToSet(used) \subseteq ToSet(joints)
  BY AmongIsList
<1> HIDE DEF S
<1>2. Len(used) \in Nat /\ DOMAIN used = 1..Len(used) /\ \A i \in 1..Len(used) : used[i] \in ToSet(joints)
  BY <1>1, ListLen
<1>3. Frames(joints, opts) = f
  BY <1>2 DEF Frames, S
<1> HIDE DEF used
<1>4. f = [i \in 1..Len(used) |-> f[i]] /\ \A i \in 1..Len(used) : f[i] = OfJoint(used[i], opts)
  OBVIOUS
<1> HIDE DEF f
<1>5. IsList(f) /\ ToSet(f) = {f[i] : i \in 1..Len(used)}
  BY <1>2, <1>4, ListMade
<1>6. \A j \in ToSet(joints) : j.child \in ChildrenOf(joints)
  BY DEF ChildrenOf, ToSet
<1>7. ASSUME NEW j
      PROVE  LET t == OfJoint(j, opts) IN
             /\ IsTransform(t) /\ t.dynamic \in BOOLEAN /\ t.child = j.child
             /\ ~t.dynamic => (t.by = Nobody <=> opts.ours)
  <2> DEFINE still == [parent |-> j.parent, child |-> j.child, xyz |-> j.xyz, rot |-> j.rot,
                       dynamic |-> FALSE, by |-> IF opts.ours THEN Nobody ELSE Publisher(opts)]
             moving == [parent |-> j.parent, child |-> j.child, xyz |-> <<0, 0, 0>>, rot |-> <<0, 0, 0, 2>>,
                        dynamic |-> TRUE, by |-> Publisher(opts)]
  <2>1. OfJoint(j, opts) = still \/ OfJoint(j, opts) = moving
    BY DEF OfJoint
  <2>2. Publisher(opts) # Nobody
    BY PublishersAreSomebody
  <2>3. /\ still.child = j.child /\ still.dynamic = FALSE /\ IsTransform(still)
        /\ still.by = IF opts.ours THEN Nobody ELSE Publisher(opts)
    BY DEF IsTransform
  <2>4. moving.child = j.child /\ moving.dynamic = TRUE /\ IsTransform(moving)
    BY DEF IsTransform
  <2> HIDE DEF still, moving
  <2> QED
    BY <2>1, <2>2, <2>3, <2>4
<1>8. \A i \in 1..Len(used) :
        /\ IsTransform(f[i]) /\ f[i].dynamic \in BOOLEAN /\ f[i].child \in ChildrenOf(joints)
        /\ ~f[i].dynamic => (f[i].by = Nobody <=> opts.ours)
  BY <1>2, <1>4, <1>6, <1>7
<1> QED
  BY <1>3, <1>5, <1>8

\* Deriving the transforms a second time gives the file of the first, for any file and
\* any robot: the links of the world have stayed, those of the joints are made anew
\* (runFrames).
LEMMA DerivingIsStable ==
  ASSUME NEW file, IsFramesFile(file), NEW joints, IsList(joints), NEW opts, opts.ours \in BOOLEAN
  PROVE  DerivationIsStable(file, joints, opts)
<1> DEFINE L == LoadFrames(file)
           keep(s) == keepWorldLinks(s, joints)
           K == keep(L)
           F == Frames(joints, opts)
           KX == Fixed(K)
           FX == Fixed(F)
           KD == Moving(K)
           FD == Moving(F)
           BK == Bared(KD)
           BF == Bared(FD)
           X == KX \o FX
           Y == BK \o BF
           once == runFrames(file, joints, opts)
           C == ChildrenOf(joints)
<1>1. IsList(L) /\ \A t \in ToSet(L) : IsTransform(t) /\ t.dynamic \in BOOLEAN
  BY FramesLoaded
<1>2. IsList(F) /\ \A t \in ToSet(F) : /\ IsTransform(t) /\ t.dynamic \in BOOLEAN /\ t.child \in C
                                       /\ ~t.dynamic => (t.by = Nobody <=> opts.ours)
  BY JointsAreFrames
<1>3. once = renderFrames(K \o F)
  BY DEF runFrames
<1> HIDE DEF L, F, C, once
<1>4. IsList(K) /\ ToSet(K) = {t \in ToSet(L) : t.child \notin C}
  BY <1>1, WorldParts DEF C
<1> HIDE DEF K
<1>5. IsList(KX) /\ ToSet(KX) = {t \in ToSet(K) : ~t.dynamic} /\ IsList(FX) /\ ToSet(FX) = {t \in ToSet(F) : ~t.dynamic}
  BY <1>2, <1>4, FixedParts
<1>6. IsList(KD) /\ ToSet(KD) = {t \in ToSet(K) : t.dynamic} /\ IsList(FD) /\ ToSet(FD) = {t \in ToSet(F) : t.dynamic}
  BY <1>2, <1>4, MovingParts
<1>7. Fixed(K \o F) = X /\ Moving(K \o F) = KD \o FD
  <2>1. Fixed(K \o F) = Fixed(K) \o Fixed(F)
    BY <1>2, <1>4, FixedParts
  <2>2. Moving(K \o F) = Moving(K) \o Moving(F)
    BY <1>2, <1>4, MovingParts
  <2> QED
    BY <2>1, <2>2
<1> HIDE DEF KX, FX, KD, FD
<1>8. IsList(BK) /\ ToSet(BK) = {Bare(t) : t \in ToSet(KD)} /\ IsList(BF) /\ ToSet(BF) = {Bare(t) : t \in ToSet(FD)}
  BY <1>6, BaredParts
<1>9. Bared(KD \o FD) = Y
  BY <1>6, BaredParts
<1>10. once = [static |-> X, dynamic |-> Y]
  BY <1>3, <1>7, <1>9 DEF renderFrames
<1>11. \A t \in ToSet(KX) : IsTransform(t) /\ t.dynamic = FALSE /\ t.child \notin C
  BY <1>1, <1>4, <1>5
<1>12. \A t \in ToSet(FX) : /\ IsTransform(t) /\ t.dynamic = FALSE /\ t.child \in C
                            /\ t.by = Nobody <=> opts.ours
  BY <1>2, <1>5
<1>13. \A t \in ToSet(BK) : IsTransform(t) /\ t.dynamic = TRUE /\ t.child \notin C /\ Bare(t) = t
  <2>1. \A t \in ToSet(KD) : IsTransform(t) /\ t.dynamic = TRUE /\ t.child \notin C
    BY <1>1, <1>4, <1>6
  <2> QED
    BY <1>8, <2>1, BareTransforms
<1>14. \A t \in ToSet(BF) : IsTransform(t) /\ t.dynamic = TRUE /\ t.child \in C
  <2>1. \A t \in ToSet(FD) : IsTransform(t) /\ t.dynamic = TRUE /\ t.child \in C
    BY <1>2, <1>6
  <2> QED
    BY <1>8, <2>1, BareTransforms
<1> HIDE DEF BK, BF
<1>15. IsList(X) /\ ToSet(X) = ToSet(KX) \cup ToSet(FX) /\ IsList(Y) /\ ToSet(Y) = ToSet(BK) \cup ToSet(BF)
  BY <1>5, <1>8, ListsJoin
<1>16. LoadFrames(once) = X \o Y
  <2> HIDE DEF X, Y
  <2>1. once.static = X /\ once.dynamic = Y
    BY <1>10
  <2>2. /\ \A t \in ToSet(X) : IsTransform(t) /\ t.dynamic = FALSE
        /\ \A t \in ToSet(Y) : IsTransform(t) /\ t.dynamic = TRUE
    BY <1>11, <1>12, <1>13, <1>14, <1>15
  <2>3. IsFramesFile(once)
    BY <1>15, <2>1, <2>2 DEF IsFramesFile
  <2> QED
    BY <2>1, <2>2, <2>3, FramesLoaded
<1>17. keep(X \o Y) = KX \o BK
  <2>1. keep(KX) = KX
    BY <1>5, <1>11, WorldParts DEF C
  <2>2. keep(FX) = <<>>
    BY <1>5, <1>12, WorldParts DEF C
  <2>3. keep(BK) = BK
    BY <1>8, <1>13, WorldParts DEF C
  <2>4. keep(BF) = <<>>
    BY <1>8, <1>14, WorldParts DEF C
  <2>5. keep(X) = keep(KX) \o keep(FX)
    BY <1>5, WorldsJoin
  <2>6. keep(Y) = keep(BK) \o keep(BF)
    BY <1>8, WorldsJoin
  <2>7. keep(X \o Y) = keep(X) \o keep(Y)
    <3> HIDE DEF X, Y
    <3> QED
      BY <1>15, WorldsJoin
  <2> HIDE DEF keep
  <2> QED
    BY <1>5, <1>8, <2>1, <2>2, <2>3, <2>4, <2>5, <2>6, <2>7, EndsAreEmpty
<1>18. IsList(KX \o BK)
  BY <1>5, <1>8, ListsJoin
<1>19. Fixed((KX \o BK) \o F) = X
  <2>1. Fixed(KX) = KX
    BY <1>5, <1>11, FixedParts
  <2>2. Fixed(BK) = <<>>
    BY <1>8, <1>13, FixedParts
  <2>3. Fixed(KX \o BK) = Fixed(KX) \o Fixed(BK)
    BY <1>5, <1>8, FixedParts
  <2>4. Fixed((KX \o BK) \o F) = Fixed(KX \o BK) \o Fixed(F)
    <3> DEFINE Z == KX \o BK
    <3> HIDE DEF Z
    <3>1. IsList(Z)
      BY <1>18 DEF Z
    <3>2. Fixed(Z \o F) = Fixed(Z) \o Fixed(F)
      BY <1>2, <3>1, FixedParts
    <3> QED
      BY <3>2 DEF Z
  <2>5. KX \o <<>> = KX
    BY <1>5, EndsAreEmpty
  <2> QED
    BY <2>1, <2>2, <2>3, <2>4, <2>5 DEF FX
<1>20. Bared(Moving((KX \o BK) \o F)) = Y
  <2>1. Moving(KX) = <<>>
    BY <1>5, <1>11, MovingParts
  <2>2. Moving(BK) = BK
    BY <1>8, <1>13, MovingParts
  <2>3. Moving(KX \o BK) = Moving(KX) \o Moving(BK)
    BY <1>5, <1>8, MovingParts
  <2>4. Moving((KX \o BK) \o F) = Moving(KX \o BK) \o Moving(F)
    <3> DEFINE Z == KX \o BK
    <3> HIDE DEF Z
    <3>1. IsList(Z)
      BY <1>18 DEF Z
    <3>2. Moving(Z \o F) = Moving(Z) \o Moving(F)
      BY <1>2, <3>1, MovingParts
    <3> QED
      BY <3>2 DEF Z
  <2>5. <<>> \o BK = BK
    BY <1>8, EndsAreEmpty
  <2>6. Moving((KX \o BK) \o F) = BK \o FD
    BY <2>1, <2>2, <2>3, <2>4, <2>5 DEF FD
  <2>7. Bared(BK \o FD) = Bared(BK) \o Bared(FD)
    BY <1>6, <1>8, BaredParts
  <2>8. Bared(BK) = BK
    BY <1>8, <1>13, BaredParts
  <2> QED
    BY <2>6, <2>7, <2>8 DEF BF
<1>21. runFrames(once, joints, opts) = once
  <2>1. runFrames(once, joints, opts) = renderFrames((KX \o BK) \o F)
    BY <1>16, <1>17 DEF runFrames, F
  <2> QED
    BY <1>10, <1>19, <1>20, <2>1 DEF renderFrames
<1>22. ToSet(X \o Y) = ToSet(X) \cup ToSet(Y) /\ IsList(X \o Y)
  <2> HIDE DEF X, Y
  <2> QED
    BY <1>15, ListsJoin
<1> HIDE DEF X, Y
<1>23. ASSUME NEW t \in ToSet(L), t.child \notin C
       PROVE  (IF t.dynamic THEN Bare(t) ELSE t) \in ToSet(X \o Y)
  <2>1. t \in ToSet(K)
    BY <1>4, <1>23
  <2>2. CASE t.dynamic
    BY <1>6, <1>8, <1>15, <1>22, <2>1, <2>2
  <2>3. CASE ~t.dynamic
    BY <1>5, <1>15, <1>22, <2>1, <2>3
  <2> QED
    BY <2>2, <2>3
<1>24. ASSUME NEW t \in ToSet(X \o Y), t.child \in C
       PROVE  t \in ToSet(Published(X \o Y)) <=> opts.ours /\ ~t.dynamic
  <2>1. ToSet(Published(X \o Y)) = {u \in ToSet(X \o Y) : ~u.dynamic /\ u.by = Nobody}
    BY <1>22, AmongIsList DEF Published, Ours
  <2>2. t \in ToSet(FX) \/ t \in ToSet(BF)
    BY <1>11, <1>13, <1>15, <1>22, <1>24
  <2> QED
    BY <1>12, <1>14, <1>24, <2>1, <2>2
<1> QED
  BY <1>16, <1>21, <1>23, <1>24 DEF DerivationIsStable, L, C, once

-----------------------------------------------------------------------------
(* What the tools are trusted for.                                           *)

\* A parameter file of any length says of each node what the lines under its name
\* say, the last one of each parameter, and is refused exactly when one of its lines
\* is out of place (parseParamFile).
THEOREM FilesAreRead == ToolSpec => []FilesMeanWhatTheySay
<1>1. ToolInit => FilesMeanWhatTheySay
  BY DEF ToolInit, NoInput, FilesMeanWhatTheySay
<1>2. FilesMeanWhatTheySay /\ [ToolNext]_input => FilesMeanWhatTheySay'
  <2> SUFFICES ASSUME FilesMeanWhatTheySay, [ToolNext]_input
               PROVE  FilesMeanWhatTheySay'
    OBVIOUS
  <2>1. ASSUME NEW lines, AskFile(lines) PROVE FilesMeanWhatTheySay'
    <3>1. FileMeans(lines)
      BY <2>1, OneFileRead DEF AskFile, IsFile
    <3> QED
      BY <2>1, <3>1 DEF AskFile, FilesMeanWhatTheySay
  <2>2. ASSUME NEW ts, AskEdges(ts) PROVE FilesMeanWhatTheySay'
    BY <2>2 DEF AskEdges, FilesMeanWhatTheySay
  <2>3. ASSUME NEW app, AskCheck(app) PROVE FilesMeanWhatTheySay'
    BY <2>3 DEF AskCheck, FilesMeanWhatTheySay
  <2>4. ASSUME NEW decl, NEW given, NEW base, AskRelease(decl, given, base) PROVE FilesMeanWhatTheySay'
    BY <2>4 DEF AskRelease, FilesMeanWhatTheySay
  <2>5. ASSUME NEW ts, NEW p, AskTree(ts, p) PROVE FilesMeanWhatTheySay'
    BY <2>5 DEF AskTree, FilesMeanWhatTheySay
  <2>6. ASSUME NEW file, NEW joints, NEW opts, AskDerive(file, joints, opts) PROVE FilesMeanWhatTheySay'
    BY <2>6 DEF AskDerive, FilesMeanWhatTheySay
  <2>7. CASE UNCHANGED input
    BY <2>7 DEF FilesMeanWhatTheySay
  <2> QED
    BY <2>1, <2>2, <2>3, <2>4, <2>5, <2>6, <2>7 DEF ToolNext
<1> QED
  BY <1>1, <1>2, PTL DEF ToolSpec

\* Whatever list of transforms is looked up in, what it answers fits together, and
\* whatever file and robot the transforms are derived from, deriving again changes
\* nothing and loses no link of the world (Lookup, runFrames).
THEOREM FramesFitTogether == ToolSpec => []FramesAreRight
<1>1. ToolInit => FramesAreRight
  BY DEF ToolInit, NoInput, FramesAreRight
<1>2. FramesAreRight /\ [ToolNext]_input => FramesAreRight'
  <2> SUFFICES ASSUME FramesAreRight, [ToolNext]_input
               PROVE  FramesAreRight'
    OBVIOUS
  <2>1. ASSUME NEW lines, AskFile(lines) PROVE FramesAreRight'
    BY <2>1 DEF AskFile, FramesAreRight
  <2>2. ASSUME NEW ts, AskEdges(ts) PROVE FramesAreRight'
    BY <2>2 DEF AskEdges, FramesAreRight
  <2>3. ASSUME NEW ts, NEW p, AskTree(ts, p) PROVE FramesAreRight'
    <3>1. ts \in Seq(ToSet(ts)) /\ IsPlaced(ts) /\ p \in Points
      BY <2>3 DEF AskTree, IsList, IsPoint, Points
    <3>2. LookupsCompose(ts, p)
      BY <3>1, LookupsFitTogether
    <3> QED
      BY <2>3, <3>2 DEF AskTree, FramesAreRight
  <2>4. ASSUME NEW file, NEW joints, NEW opts, AskDerive(file, joints, opts) PROVE FramesAreRight'
    <3>1. DerivationIsStable(file, joints, opts)
      BY <2>4, DerivingIsStable DEF AskDerive
    <3> QED
      BY <2>4, <3>1 DEF AskDerive, FramesAreRight
  <2>5. ASSUME NEW app, AskCheck(app) PROVE FramesAreRight'
    BY <2>5 DEF AskCheck, FramesAreRight
  <2>6. ASSUME NEW decl, NEW given, NEW base, AskRelease(decl, given, base) PROVE FramesAreRight'
    BY <2>6 DEF AskRelease, FramesAreRight
  <2>7. CASE UNCHANGED input
    BY <2>7 DEF FramesAreRight
  <2> QED
    BY <2>1, <2>2, <2>3, <2>4, <2>5, <2>6, <2>7 DEF ToolNext
<1> QED
  BY <1>1, <1>2, PTL DEF ToolSpec

\* Whatever the transforms, the check finds exactly the lists that are not a tree; and
\* whatever the application, one that passes and is written as the scanner reads it
\* starts, what its endpoints exchange is of one type, the frames they name are
\* connected and published, and the steps not reported unreachable are reached
\* (FrameTree.Check, graph.Validate against newAppOpts).
THEOREM ChecksHoldUp == ToolSpec => []CheckHoldsUp
<1>1. ToolInit => CheckHoldsUp
  BY DEF ToolInit, NoInput, CheckHoldsUp
<1>2. CheckHoldsUp /\ [ToolNext]_input => CheckHoldsUp'
  <2> SUFFICES ASSUME CheckHoldsUp, [ToolNext]_input
               PROVE  CheckHoldsUp'
    OBVIOUS
  <2>1. ASSUME NEW lines, AskFile(lines) PROVE CheckHoldsUp'
    BY <2>1 DEF AskFile, CheckHoldsUp
  <2>2. ASSUME NEW ts, AskEdges(ts) PROVE CheckHoldsUp'
    <3>1. ChecksAreRight(ts)
      BY <2>2, TreesAreChecked DEF AskEdges, IsList
    <3> QED
      BY <2>2, <3>1 DEF AskEdges, CheckHoldsUp
  <2>3. ASSUME NEW app, AskCheck(app) PROVE CheckHoldsUp'
    <3>1. HoldsUp(app)
      BY <2>3, CheckedAppsStart DEF AskCheck
    <3> QED
      BY <2>3, <3>1 DEF AskCheck, CheckHoldsUp
  <2>4. ASSUME NEW decl, NEW given, NEW base, AskRelease(decl, given, base) PROVE CheckHoldsUp'
    BY <2>4 DEF AskRelease, CheckHoldsUp
  <2>5. ASSUME NEW ts, NEW p, AskTree(ts, p) PROVE CheckHoldsUp'
    BY <2>5 DEF AskTree, CheckHoldsUp
  <2>6. ASSUME NEW file, NEW joints, NEW opts, AskDerive(file, joints, opts) PROVE CheckHoldsUp'
    BY <2>6 DEF AskDerive, CheckHoldsUp
  <2>7. CASE UNCHANGED input
    BY <2>7 DEF CheckHoldsUp
  <2> QED
    BY <2>1, <2>2, <2>3, <2>4, <2>5, <2>6, <2>7 DEF ToolNext
<1> QED
  BY <1>1, <1>2, PTL DEF ToolSpec

\* A release of any declaration, for any of its environments, starts, has its files,
\* behaves as development does, is ordered as the graph is, serves on ports of its own
\* where the fleet view looks for it, and a robot's is its own (ScanApp, Resolve,
\* ForRobot, SystemdUnits, Peers).
THEOREM ReleasesAreSound == ToolSpec => []ReleaseIsSound
<1>1. ToolInit => ReleaseIsSound
  BY DEF ToolInit, NoInput, ReleaseIsSound
<1>2. ReleaseIsSound /\ [ToolNext]_input => ReleaseIsSound'
  <2> SUFFICES ASSUME ReleaseIsSound, [ToolNext]_input
               PROVE  ReleaseIsSound'
    OBVIOUS
  <2>1. ASSUME NEW lines, AskFile(lines) PROVE ReleaseIsSound'
    BY <2>1 DEF AskFile, ReleaseIsSound
  <2>2. ASSUME NEW ts, AskEdges(ts) PROVE ReleaseIsSound'
    BY <2>2 DEF AskEdges, ReleaseIsSound
  <2>3. ASSUME NEW app, AskCheck(app) PROVE ReleaseIsSound'
    BY <2>3 DEF AskCheck, ReleaseIsSound
  <2>4. ASSUME NEW decl, NEW given, NEW base, AskRelease(decl, given, base) PROVE ReleaseIsSound'
    <3>1. PICK scanned \in ScanApp(decl) : \E app \in Resolve(scanned, given) :
            IsDeclaration(decl) /\ input' = [tool |-> "release", app |-> app, base |-> base]
      BY <2>4 DEF AskRelease
    <3>2. PICK app \in Resolve(scanned, given) :
            IsDeclaration(decl) /\ input' = [tool |-> "release", app |-> app, base |-> base]
      BY <3>1
    <3>3. OfDeclaration(app)
      BY <3>2, ResolvedApps
    <3>4. \A i \in DOMAIN OnEach(app) : \A on \in OnEach(app)[i] : IsResolved(on)
      BY <3>3, EachIsResolved
    <3>5. RobotsAreThemselves(app) /\ PeersAreUnits(app)
      BY <3>3, <3>4, RobotsKeepTheirs, FleetAsksUnits
    <3>6. ASSUME NEW on, IsResolved(on) PROVE IsSound(on, base)
      BY <3>6, ReleasesStart, ReleasesHoldFiles, DeployedAsDeveloped, UnitsAreOrdered, UnitsArePortsApart
         DEF IsSound
    <3> QED
      BY <3>2, <3>4, <3>5, <3>6 DEF ReleaseIsSound
  <2>5. ASSUME NEW ts, NEW p, AskTree(ts, p) PROVE ReleaseIsSound'
    BY <2>5 DEF AskTree, ReleaseIsSound
  <2>6. ASSUME NEW file, NEW joints, NEW opts, AskDerive(file, joints, opts) PROVE ReleaseIsSound'
    BY <2>6 DEF AskDerive, ReleaseIsSound
  <2>7. CASE UNCHANGED input
    BY <2>7 DEF ReleaseIsSound
  <2> QED
    BY <2>1, <2>2, <2>3, <2>4, <2>5, <2>6, <2>7 DEF ToolNext
<1> QED
  BY <1>1, <1>2, PTL DEF ToolSpec
=============================================================================
