-------------------------- MODULE LifecycleClient --------------------------
(***************************************************************************)
(* The Lifecycle field (lifecycle_client.go): a program driving the        *)
(* managed nodes of other processes with change_state and get_state calls. *)
(*                                                                         *)
(* A call that times out at the client is not undone at the server: its    *)
(* request may be lost, or be taken up later, or be in its hook just now.  *)
(* Somebody else may drive the same nodes.                                 *)
(***************************************************************************)
EXTENDS Integers, Sequences, FiniteSets, SequencesExt, LifecycleTable

CONSTANTS Declared,      \* the nodes tag: a sequence, in bringup order
          MaxTimeouts,   \* bound: calls that time out, contexts that end
          MaxFailures,   \* bound: hooks that fail
          MaxOthers,     \* bound: transitions somebody else asks for
          MaxMethods     \* bound: methods the program calls, retries of BringUp aside

ASSUME ClientAssumption == Declared \in Seq(ToSet(Declared)) /\ MaxTimeouts \in Nat

VARIABLES
  remote,      \* each node: its state, and the transition its hook is running
  prog,        \* the method under way and where in it
  call,        \* the service call under way
  orphans,     \* abandoned change_state requests that no server has taken up yet
  seen,        \* l.seen
  was,         \* history: the states each node was in since the method began
  told,        \* what the last method returned
  timeouts, failures, others, methods   \* counted against the bounds

clientVars == <<remote, prog, call, orphans, seen, was, told,
                timeouts, failures, others, methods>>
bounds == <<timeouts, failures, others, methods>>

Remotes == ToSet(Declared)
AtRest == [t |-> "none", from |-> "none", goal |-> "none", ours |-> FALSE]
NoCall == [pc |-> "none"]
Resting == [method |-> "none"]
Nothing == [method |-> "none", result |-> "nothing"]
Rows(s, t) == {row \in transitionTable : row.from = s /\ row.t = t}
StateNames == Primary \cup {"Unknown", "Changing"}

\* While a hook runs the node is in the intermediate state of its transition.
StateOf(n) == IF remote[n].row.t = "none" THEN remote[n].state ELSE "Changing"

ClientTypeOK ==
  /\ \A n \in Remotes :
       /\ remote[n].state \in Primary
       /\ remote[n].row = AtRest \/ Rows(remote[n].state, remote[n].row.t) # {}
  /\ prog = Resting \/ prog.at \in 0..(Len(Declared) + 1)
  /\ call.pc \in {"none", "sent", "running", "answered"}
  /\ orphans \subseteq [node : Remotes, t : Transitions, nr : 1..MaxTimeouts]
  /\ seen \in [Remotes -> StateNames \cup {"never"}]
  /\ was \in [Remotes -> SUBSET StateNames]
  /\ told.result \in {"nothing", "ok", "error"}

ClientInit ==
  /\ remote = [n \in Remotes |-> [state |-> "Unconfigured", row |-> AtRest]]
  /\ prog = Resting /\ call = NoCall /\ orphans = {}
  /\ seen = [n \in Remotes |-> "never"]
  /\ was = [n \in Remotes |-> {}]
  /\ told = Nothing
  /\ timeouts = 0 /\ failures = 0 /\ others = 0 /\ methods = 0

-----------------------------------------------------------------------------
(* The servers.                                                            *)

\* A node takes a state of its own accord only through SetRemote, which keeps
\* the history.
SetRemote(n, r) ==
  /\ remote' = [remote EXCEPT ![n] = r]
  /\ was' = [was EXCEPT ![n] = @ \cup
               {IF r.row.t = "none" THEN r.state ELSE "Changing"}]

StartHook(n, row, ours) ==
  SetRemote(n, [remote[n] EXCEPT !.row = [t |-> row.t, from |-> row.from,
                                          goal |-> row.goal, ours |-> ours]])

\* A change_state request reaches its node: refused at once, or its hook runs.
Serve ==
  /\ call.pc = "sent"
  /\ LET n == call.node IN
     \/ /\ call.t = "get"
        /\ call' = [call EXCEPT !.pc = "answered", !.answer = StateOf(n)]
        /\ UNCHANGED <<remote, was>>
     \/ /\ call.t # "get" /\ Rows(StateOf(n), call.t) = {}
        /\ call' = [call EXCEPT !.pc = "answered", !.answer = "refused"]
        /\ UNCHANGED <<remote, was>>
     \/ \E row \in Rows(StateOf(n), call.t) :
          /\ StartHook(n, row, TRUE)
          /\ call' = [call EXCEPT !.pc = "running"]
  /\ UNCHANGED <<prog, orphans, seen, told, bounds>>

\* A request nobody waits for any more; it may also be lost.
ServeOrphan ==
  /\ \E o \in orphans :
       /\ orphans' = orphans \ {o}
       /\ \/ UNCHANGED <<remote, was>>
          \/ \E row \in Rows(StateOf(o.node), o.t) : StartHook(o.node, row, FALSE)
  /\ UNCHANGED <<prog, call, seen, told, bounds>>

SomebodyElse ==
  /\ others < MaxOthers
  /\ others' = others + 1
  /\ \E n \in Remotes, row \in transitionTable :
       row.from = StateOf(n) /\ StartHook(n, row, FALSE)
  /\ UNCHANGED <<prog, call, orphans, seen, told, timeouts, failures, methods>>

\* A hook that fails takes the node back to where it came from.
HookReturns(n) ==
  LET row == remote[n].row IN
  /\ row.t # "none"
  /\ \E ok \in BOOLEAN :
       /\ ok \/ failures < MaxFailures
       /\ failures' = IF ok THEN failures ELSE failures + 1
       /\ SetRemote(n, [state |-> IF ok THEN row.goal ELSE row.from, row |-> AtRest])
       /\ call' = IF row.ours
                  THEN [call EXCEPT !.pc = "answered", !.answer = IF ok THEN "done" ELSE "refused"]
                  ELSE call
  /\ UNCHANGED <<prog, orphans, seen, told, timeouts, others, methods>>

-----------------------------------------------------------------------------
(* The calls.                                                              *)

Ask(n, t) == call' = [pc |-> "sent", node |-> n, t |-> t, answer |-> "none"]

\* The client gives up.  A request still under way loses its owner.
Timeout ==
  /\ call.pc \in {"sent", "running"}
  /\ timeouts < MaxTimeouts
  /\ timeouts' = timeouts + 1
  /\ call' = [call EXCEPT !.pc = "answered", !.answer = "timeout"]
  /\ orphans' = IF call.pc = "sent" /\ call.t # "get"
                THEN orphans \cup {[node |-> call.node, t |-> call.t, nr |-> timeouts']}
                ELSE orphans
  /\ remote' = [remote EXCEPT ![call.node].row.ours = FALSE]
  /\ UNCHANGED <<prog, seen, was, told, failures, others, methods>>

\* resultOf, for the four transitions it lists.
resultOf(t) ==
  CASE t = "configure" -> "Inactive" [] t = "activate" -> "Active"
    [] t = "deactivate" -> "Inactive" [] t = "cleanup" -> "Unconfigured"
    [] OTHER -> "none"

Answered == call.pc = "answered"
Failed == call.answer \in {"timeout", "refused"}

\* What State and Transition remember of an answer.
Observed ==
  CASE call.t = "get" /\ call.answer = "timeout" -> "Unknown"
    [] call.t = "get" -> call.answer
    [] call.answer = "done" /\ resultOf(call.t) # "none" -> resultOf(call.t)
    [] OTHER -> seen[call.node]
Observe == seen' = [seen EXCEPT ![call.node] = Observed]

-----------------------------------------------------------------------------
(* The methods.                                                            *)

\* Those that drive every node by one transition.
EachMethods == {"Configure", "Activate", "Deactivate", "Cleanup"}
Methods == {"BringUp", "AwaitActive", "Shutdown"} \cup EachMethods
FirstTo(m) == IF m \in {"Shutdown", "Deactivate", "Cleanup"} THEN Len(Declared) ELSE 1
Step(m) == IF m \in {"Shutdown", "Deactivate", "Cleanup"} THEN -1 ELSE 1
Past(p) == p.at \notin 1..Len(Declared)
Node(p) == Declared[p.at]

\* The program calls a method; a mission step retries its BringUp.
CallMethod ==
  /\ prog = Resting
  /\ \E m \in Methods :
       /\ \/ methods < MaxMethods /\ methods' = methods + 1
          \/ m = "BringUp" /\ told = [method |-> m, result |-> "error"] /\ UNCHANGED methods
       /\ prog' = [method |-> m, pass |-> 1, at |-> FirstTo(m), errs |-> FALSE, waiting |-> FALSE]
  /\ was' = [n \in Remotes |-> {StateOf(n)}]
  /\ told' = Nothing
  /\ UNCHANGED <<remote, call, orphans, seen, timeouts, failures, others>>

Return(r) == prog' = Resting /\ told' = [method |-> prog.method, result |-> r]
Advance == prog' = [prog EXCEPT !.at = @ + Step(prog.method)] /\ UNCHANGED told
Calls(method) == prog # Resting /\ prog.method = method
Idling == call = NoCall
Rest == <<remote, orphans, was, bounds>>

\* BringUp: two passes over the nodes; each asks for the state first.
Wanted(pass) == IF pass = 1 THEN "configure" ELSE "activate"
From(pass) == IF pass = 1 THEN "Unconfigured" ELSE "Inactive"
To(pass) == IF pass = 1 THEN "Inactive" ELSE "Active"

BringUpLoop ==
  /\ Calls("BringUp") /\ Idling
  /\ \/ ~Past(prog) /\ Ask(Node(prog), "get") /\ UNCHANGED <<prog, told, timeouts>>
     \/ /\ ~Past(prog) /\ timeouts < MaxTimeouts         \* its context is over
        /\ timeouts' = timeouts + 1
        /\ Return("error") /\ UNCHANGED call
     \/ /\ Past(prog) /\ prog.pass = 1
        /\ prog' = [prog EXCEPT !.pass = 2, !.at = 1]
        /\ UNCHANGED <<call, told, timeouts>>
     \/ Past(prog) /\ prog.pass = 2 /\ Return("ok") /\ UNCHANGED <<call, timeouts>>
  /\ UNCHANGED <<remote, orphans, was, seen, failures, others, methods>>

\* Mutants: a node in a transition is taken to be on its way; a node that is
\* active already is not expected in the first pass.
BringUpAnswerEager ==
  /\ Calls("BringUp") /\ Answered
  /\ Observe
  /\ \/ /\ call.t = "get" /\ call.answer \in {To(prog.pass), "Active", "Changing"}
        /\ Advance /\ call' = NoCall
     \/ /\ call.t = "get" /\ call.answer = From(prog.pass)
        /\ Ask(Node(prog), Wanted(prog.pass))
        /\ UNCHANGED <<prog, told>>
     \/ /\ call.t # "get"
        /\ IF Failed THEN Return("error") ELSE Advance
        /\ call' = NoCall
  /\ UNCHANGED Rest
BringUpAnswerStrict ==
  /\ Calls("BringUp") /\ Answered
  /\ Observe
  /\ \/ /\ call.t = "get" /\ call.answer = To(prog.pass)
        /\ Advance /\ call' = NoCall
     \/ /\ call.t = "get" /\ call.answer = From(prog.pass)
        /\ Ask(Node(prog), Wanted(prog.pass))
        /\ UNCHANGED <<prog, told>>
     \/ /\ call.t = "get" /\ call.answer \notin {From(prog.pass), To(prog.pass)}
        /\ Return("error") /\ call' = NoCall
     \/ /\ call.t # "get"
        /\ IF Failed THEN Return("error") ELSE Advance
        /\ call' = NoCall
  /\ UNCHANGED Rest

BringUpAnswer ==
  /\ Calls("BringUp") /\ Answered
  /\ Observe
  /\ \/ /\ call.t = "get" /\ call.answer \in {To(prog.pass), "Active"}
        /\ Advance /\ call' = NoCall
     \/ /\ call.t = "get" /\ call.answer = From(prog.pass)
        /\ Ask(Node(prog), Wanted(prog.pass))
        /\ UNCHANGED <<prog, told>>
     \/ /\ call.t = "get" /\ call.answer \notin {From(prog.pass), To(prog.pass), "Active"}
        /\ Return("error") /\ call' = NoCall
     \/ /\ call.t # "get"
        /\ IF Failed THEN Return("error") ELSE Advance
        /\ call' = NoCall
  /\ UNCHANGED Rest

\* AwaitActive: all the states, then another round after a pause, until the
\* deadline; a node that does not answer counts as Unknown.
AwaitLoop ==
  /\ Calls("AwaitActive") /\ Idling
  /\ \/ ~Past(prog) /\ Ask(Node(prog), "get") /\ UNCHANGED <<prog, told>>
     \/ Past(prog) /\ ~prog.waiting /\ Return("ok") /\ UNCHANGED call
     \/ Past(prog) /\ prog.waiting /\ Return("error") /\ UNCHANGED call
     \/ /\ Past(prog) /\ prog.waiting
        /\ prog' = [prog EXCEPT !.at = 1, !.waiting = FALSE]
        /\ UNCHANGED <<call, told>>
  /\ UNCHANGED <<Rest, seen>>

AwaitAnswer ==
  /\ Calls("AwaitActive") /\ Answered
  /\ Observe
  /\ call' = NoCall
  /\ prog' = [prog EXCEPT !.at = @ + 1, !.waiting = @ \/ call.answer # "Active"]
  /\ UNCHANGED <<told, Rest>>

\* Shutdown: asks every node and picks its transition; errors are collected,
\* a node that is finalized or in a transition is passed over.
ShutdownLoop ==
  /\ Calls("Shutdown") /\ Idling
  /\ \/ ~Past(prog) /\ Ask(Node(prog), "get") /\ UNCHANGED <<prog, told>>
     \/ Past(prog) /\ Return(IF prog.errs THEN "error" ELSE "ok") /\ UNCHANGED call
  /\ UNCHANGED <<Rest, seen>>

ShutdownAnswer ==
  /\ Calls("Shutdown") /\ Answered
  /\ Observe
  /\ \/ /\ call.t = "get" /\ shutdownFor(call.answer) # "none"
        /\ Ask(Node(prog), shutdownFor(call.answer))
        /\ UNCHANGED prog
     \/ /\ call.t # "get" \/ shutdownFor(call.answer) = "none"
        /\ prog' = [prog EXCEPT !.at = @ - 1, !.errs = @ \/ Failed]
        /\ call' = NoCall
  /\ UNCHANGED <<told, Rest>>

\* Configure, Activate, Deactivate, Cleanup: each, without asking first.
Verb(m) == CASE m = "Configure" -> "configure" [] m = "Activate" -> "activate"
             [] m = "Deactivate" -> "deactivate" [] m = "Cleanup" -> "cleanup"
EachLoop ==
  /\ prog # Resting /\ prog.method \in EachMethods /\ Idling
  /\ \/ ~Past(prog) /\ Ask(Node(prog), Verb(prog.method)) /\ UNCHANGED <<prog, told>>
     \/ Past(prog) /\ Return("ok") /\ UNCHANGED call
  /\ UNCHANGED <<Rest, seen>>

EachAnswer ==
  /\ prog # Resting /\ prog.method \in EachMethods /\ Answered
  /\ Observe
  /\ call' = NoCall
  /\ IF Failed THEN Return("error") ELSE Advance
  /\ UNCHANGED Rest

MethodStep ==
  \/ BringUpLoop \/ BringUpAnswer \/ AwaitLoop \/ AwaitAnswer
  \/ ShutdownLoop \/ ShutdownAnswer \/ EachLoop \/ EachAnswer

ClientNext ==
  \/ Serve \/ ServeOrphan \/ SomebodyElse \/ \E n \in Remotes : HookReturns(n)
  \/ Timeout \/ CallMethod \/ MethodStep

ClientSpec == ClientInit /\ [][ClientNext]_clientVars

\* The servers answer, hooks return, the method runs on, and the program keeps
\* retrying a BringUp that failed.
RetryBringUp == told = [method |-> "BringUp", result |-> "error"] /\ CallMethod
                /\ prog'.method = "BringUp"
ClientFairness ==
  /\ WF_clientVars(Serve) /\ WF_clientVars(MethodStep) /\ WF_clientVars(RetryBringUp)
  /\ \A n \in Remotes : WF_clientVars(HookReturns(n))

ClientFairSpec == ClientSpec /\ ClientFairness

-----------------------------------------------------------------------------
(* Properties.                                                             *)

\* BringUp and AwaitActive say "ok" only of nodes that each were Active at some
\* moment of the call; and BringUp activates nobody before every node has been
\* configured ("a node that cannot configure is found before any of its peers
\* starts publishing"), however late answers and other managers interfere.
ClaimsAreTrue ==
  /\ told.method \in {"BringUp", "AwaitActive"} /\ told.result = "ok"
     => \A n \in Remotes : "Active" \in was[n]
  /\ Calls("BringUp") /\ call.pc # "none" /\ call.t = "activate"
     => \A n \in Remotes : was[n] \cap {"Inactive", "Active"} # {}

\* A BringUp that is retried ("safe to retry") gets there in the end, whatever
\* timeouts, abandoned transitions and failing hooks came first: it ends well,
\* or a node was finalized under it, or the program stopped retrying.
RetryBringsUp ==
  Calls("BringUp") ~>
    \/ told = [method |-> "BringUp", result |-> "ok"]
    \/ \E n \in Remotes : StateOf(n) = "Finalized"
    \/ prog # Resting /\ prog.method # "BringUp"

\* "Shutdown finalizes the named nodes": when it returns without an error and
\* nobody else drove them, no node ends up anywhere but Finalized.
ShutdownFinalizes ==
  told = [method |-> "Shutdown", result |-> "ok"] /\ others = 0
    => \A n \in Remotes : remote[n].row = AtRest => StateOf(n) = "Finalized"
=============================================================================
