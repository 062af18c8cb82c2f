----------------------------- MODULE ParamFile -----------------------------
(***************************************************************************)
(* Parameter files and the text of parameter values (paramfile.go,         *)
(* param.go).                                                              *)
(*                                                                         *)
(* A line is what the parser tells apart: whether it is indented, its key, *)
(* and its value ("" when nothing follows the colon); a line with a tab or *)
(* without a colon is "broken".  Comments and blank lines are left out.    *)
(***************************************************************************)
EXTENDS Integers, Sequences, FiniteSets, SequencesExt

CONSTANTS FileNodes,   \* the node names files use, paramWildcard among them
          Names        \* the parameter names

paramWildcard == "/**"
Absent == "absent"
Empty == [n \in FileNodes |-> [k \in Names |-> Absent]]

-----------------------------------------------------------------------------
(* The text of a value.                                                    *)

\* What the texts of the models mean as a value of each kind; anything else
\* does not parse.  ParseBool reads "1", and a duration may be in nanoseconds.
parseInto(kind, s) ==
  CASE kind = "string" -> {s}
    [] kind \in {"int", "double", "duration"} /\ s \in {"1", "2"} -> {s}
    [] kind = "duration" /\ s = "1ns" -> {"1"}
    [] kind = "bool" /\ s \in {"true", "1"} -> {"true"}
    [] kind = "bool" /\ s \in {"false", "0"} -> {"false"}
    [] OTHER -> {}

\* One pair of quotes is taken off, whoever wrote them ('x' is the quoted text
\* of the models).
parseYAMLScalar(kind, raw) == parseInto(kind, IF raw = "'x'" THEN "x" ELSE raw)

-----------------------------------------------------------------------------
(* A file: node / ros__parameters / key: value.                            *)

Start == [err |-> FALSE, node |-> "", inParams |-> FALSE, out |-> Empty]

\* Mutant: the block of one node stays open for the next.
readLineKeepingBlock(st, l) ==
  IF st.err \/ l.broken THEN [st EXCEPT !.err = TRUE]
  ELSE IF ~l.indented
       THEN IF l.value # "" THEN [st EXCEPT !.err = TRUE]
            ELSE [st EXCEPT !.node = l.key]
  ELSE IF st.node = "" THEN [st EXCEPT !.err = TRUE]
  ELSE IF l.key = "ros__parameters" THEN [st EXCEPT !.inParams = TRUE]
  ELSE IF ~st.inParams \/ l.value = "" THEN [st EXCEPT !.err = TRUE]
  ELSE [st EXCEPT !.out[st.node][l.key] = l.value]

readLine(st, l) ==
  IF st.err \/ l.broken THEN [st EXCEPT !.err = TRUE]
  ELSE IF ~l.indented
       THEN IF l.value # "" THEN [st EXCEPT !.err = TRUE]
            ELSE [st EXCEPT !.node = l.key, !.inParams = FALSE]
  ELSE IF st.node = "" THEN [st EXCEPT !.err = TRUE]
  ELSE IF l.key = "ros__parameters" THEN [st EXCEPT !.inParams = TRUE]
  ELSE IF ~st.inParams \/ l.value = "" THEN [st EXCEPT !.err = TRUE]
  ELSE [st EXCEPT !.out[st.node][l.key] = l.value]

\* The parser's variables after each line.
readLines(lines) ==
  LET after[i \in 0..Len(lines)] == IF i = 0 THEN Start ELSE readLine(after[i - 1], lines[i])
  IN  after
parseParamFile(lines) == readLines(lines)[Len(lines)]

\* Files are read in order, and later ones win.
Overlay(under, over) ==
  [n \in FileNodes |-> [k \in Names |->
     IF over[n][k] # Absent THEN over[n][k] ELSE under[n][k]]]

LoadParamFiles(files) ==
  LET parsed == [i \in DOMAIN files |-> parseParamFile(files[i])] IN
  [err |-> \E i \in DOMAIN parsed : parsed[i].err,
   out |-> FoldLeft(LAMBDA acc, p : Overlay(acc, p.out), Empty, parsed)]

\* What a node takes from the files: its own entries, by its own name.
fileValue(loaded, node, name) ==
  IF node \in FileNodes THEN loaded[node][name] ELSE Absent

\* Bind: the default tag, which must parse, then the files.  An empty set is a
\* startup error.
bind(kind, default, loaded, node, name) ==
  LET raw == fileValue(loaded, node, name)
      value == parseInto(kind, default)
  IN  IF raw # Absent /\ value # {} THEN parseYAMLScalar(kind, raw) ELSE value

-----------------------------------------------------------------------------
(* What a file means: a parameter has the value of its last line under a   *)
(* ros__parameters line under its node, with no other node in between; a   *)
(* file in which some line has no place is refused.                        *)

HeaderOf(lines, i) == {j \in 1..(i - 1) : ~lines[j].indented
                         /\ \A m \in (j + 1)..(i - 1) : lines[m].indented}
InBlock(lines, i) == \E j \in HeaderOf(lines, i) :
                        \E m \in (j + 1)..(i - 1) : lines[m].key = "ros__parameters"
Placed(lines, i) ==
  LET l == lines[i] IN
  /\ ~l.broken
  /\ IF l.indented
     THEN /\ \E j \in HeaderOf(lines, i) : lines[j].key # ""
          /\ l.key = "ros__parameters" \/ (InBlock(lines, i) /\ l.value # "")
     ELSE l.value = ""
Settings(lines, n, k) ==
  {i \in DOMAIN lines : lines[i].indented /\ lines[i].key = k /\ k # "ros__parameters"
                        /\ \E j \in HeaderOf(lines, i) : lines[j].key = n}
LastOf(S) == CHOOSE i \in S : \A j \in S : j <= i

FileMeans(lines) ==
  LET read == parseParamFile(lines) IN
  /\ read.err <=> \E i \in DOMAIN lines : ~Placed(lines, i)
  /\ ~read.err => \A n \in FileNodes, k \in Names :
       LET at == Settings(lines, n, k) IN
       read.out[n][k] = IF at = {} THEN Absent ELSE lines[LastOf(at)].value
=============================================================================
