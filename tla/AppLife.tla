------------------------------ MODULE AppLife ------------------------------
(***************************************************************************)
(* An application from start to exit (Run, app.bringUp, app.shutDown,      *)
(* run.go): its nodes are configured and activated in bringup order, and   *)
(* at the end deactivated and shut down in the reverse of it.  Meanwhile a *)
(* tool may drive any node through its change_state service.  A transition *)
(* is two steps, into the intermediate state and out of it when the hook   *)
(* has answered; what happens inside is ManagedNode's.                     *)
(***************************************************************************)
EXTENDS BringupOrder, LifecycleTable

CONSTANTS
  Launched,   \* the applications that are run, not only checked
  MaxAsked    \* bound: how many transitions tools ask for

\* An application without nodes is refused before it runs (newAppOpts).
ASSUME AppAssumption == Launched \subseteq Apps /\ MaxAsked \in Nat /\ N # 0

VARIABLES
  state,    \* node |-> its lifecycle state
  pc,       \* where Run is
  at,       \* the index in the order of the node bringUp or shutDown is at
  chosen,   \* the transition Run is about to ask for
  call,     \* caller |-> the transition it is in
  asked,    \* how many transitions tools have asked for
  touched,  \* history: nodes a tool has driven since Run last came to them
  failed    \* history: nodes a hook of which has failed in shutDown

appVars == <<state, pc, at, chosen, call, asked, touched, failed>>
lifeVars == <<orderVars, appVars>>

Callers == {"run", "tool"}

NoCall == [node |-> 0, from |-> "none", goal |-> "none", t |-> "none"]
Calls == {NoCall} \cup
         {[node |-> n, from |-> row.from, goal |-> row.goal, t |-> row.t] :
            n \in Nodes, row \in transitionTable}

order == kahn["bringup"].order
cycles == kahn["bringup"].cycles

\* Mutant: shutDown goes the way bringUp went.
NodeAtForwards(p, i) == order[i]

\* The i-th node Run comes to: bringUp follows the order, shutDown its reverse.
NodeAt(p, i) == IF p = "bringUp" THEN order[i] ELSE order[Len(order) + 1 - i]

Here == NodeAt(pc, at)

AppTypeOK ==
  /\ OrderTypeOK
  /\ state \in [Nodes -> Primary \cup {"moving"}]
  /\ pc \in {"order", "bringUp", "running", "check", "deactivate", "choose", "shutdown", "stopped"}
  /\ at \in 0..(N + 1)
  /\ chosen \in Transitions \cup {"none"}
  /\ call \in [Callers -> Calls]
  /\ asked \in 0..MaxAsked
  /\ touched \subseteq Nodes /\ failed \subseteq Nodes
  /\ \A n \in Nodes : state[n] = "moving" <=> \E c \in Callers : call[c].node = n

AppInit ==
  /\ OrderInit
  /\ state = [n \in Nodes |-> "Unconfigured"]
  /\ pc = "order" /\ at = 0 /\ chosen = "none"
  /\ call = [c \in Callers |-> NoCall]
  /\ asked = 0
  /\ touched = {} /\ failed = {}

-----------------------------------------------------------------------------
(* lifecycle.transition.                                                     *)

Valid(n, t) == \E row \in transitionTable : row.from = state[n] /\ row.t = t

\* The transition is valid and starts: its hook is running.
Begin(c, n, t) ==
  /\ call[c] = NoCall
  /\ \E row \in transitionTable :
       /\ row.from = state[n] /\ row.t = t
       /\ call' = [call EXCEPT ![c] = [node |-> n, from |-> row.from, goal |-> row.goal, t |-> t]]
  /\ state' = [state EXCEPT ![n] = "moving"]

\* The hook has returned: the goal, or back to where the node came from.
Settle(c, ok) ==
  /\ call[c] # NoCall
  /\ state' = [state EXCEPT ![call[c].node] = IF ok THEN call[c].goal ELSE call[c].from]
  /\ call' = [call EXCEPT ![c] = NoCall]

-----------------------------------------------------------------------------
(* A tool, through a node's change_state service.                            *)

\* A request the node's state allows; the others are refused and change nothing.
ToolAsks(n, t) ==
  /\ asked < MaxAsked
  /\ pc \notin {"order", "stopped"}
  /\ Begin("tool", n, t)
  /\ asked' = asked + 1
  /\ touched' = touched \cup {n}
  /\ UNCHANGED <<orderVars, pc, at, chosen, failed>>

ToolAnswered(ok) ==
  /\ Settle("tool", ok)
  /\ touched' = touched \cup {call["tool"].node}
  /\ UNCHANGED <<orderVars, pc, at, chosen, asked, failed>>

-----------------------------------------------------------------------------
(* Run.                                                                      *)

\* Run comes to its i-th node in phase p: what has happened to the node so far is
\* behind it, but for a tool's transition that is still going on.
ComeTo(p, i) ==
  /\ pc' = p
  /\ at' = i
  /\ touched' = IF i \in DOMAIN order /\ call["tool"].node # NodeAt(p, i)
                THEN touched \ {NodeAt(p, i)} ELSE touched

\* conductor check, before the application starts.
CheckOrder ==
  /\ Pop("graph") \/ Return("graph")
  /\ UNCHANGED appVars

\* bringUp; under -lifecycle manual shutDown is the first to need the order.
ComputeOrder ==
  /\ kahn["graph"].returned
  /\ Pop("bringup") \/ Return("bringup")
  /\ UNCHANGED appVars

Start ==
  /\ app \in Launched
  /\ pc = "order" /\ kahn["bringup"].returned
  /\ \/ ComeTo("bringUp", 1) /\ chosen' = "configure"
     \/ pc' = "running" /\ UNCHANGED <<at, chosen, touched>>
  /\ UNCHANGED <<orderVars, state, call, asked, failed>>

\* stop's first call.
EnterShutDown == ComeTo("check", 1) /\ chosen' = "none"

\* bringUp asks for the next transition.
BringUpAsks ==
  /\ pc = "bringUp" /\ at <= N
  /\ Begin("run", Here, chosen)
  /\ UNCHANGED <<orderVars, pc, at, chosen, asked, touched, failed>>

\* It is not valid: a tool has been here.  bringUp returns the error, Run stops.
BringUpRefused ==
  /\ pc = "bringUp" /\ at <= N /\ call["run"] = NoCall
  /\ ~Valid(Here, chosen)
  /\ EnterShutDown
  /\ UNCHANGED <<orderVars, state, call, asked, failed>>

BringUpAnswered(ok) ==
  /\ pc = "bringUp"
  /\ Settle("run", ok)
  /\ CASE ~ok -> EnterShutDown
       [] ok /\ chosen = "configure" -> chosen' = "activate" /\ UNCHANGED <<pc, at, touched>>
       [] OTHER -> chosen' = "configure" /\ ComeTo("bringUp", at + 1)
  /\ UNCHANGED <<orderVars, asked, failed>>

BringUpDone ==
  /\ pc = "bringUp" /\ at = N + 1
  /\ pc' = "running" /\ chosen' = "none"
  /\ UNCHANGED <<orderVars, state, at, call, asked, touched, failed>>

\* A signal, Shutdown or Abort.
Stop ==
  /\ pc = "running"
  /\ EnterShutDown
  /\ UNCHANGED <<orderVars, state, call, asked, failed>>

\* The next node of shutDown; after the last, stop closes what is left.
NextDown == ComeTo(IF at = N THEN "stopped" ELSE "check", at + 1)

\* shutDown reads the state, outside any lock it holds when it acts on it.
ReadActive ==
  /\ pc = "check"
  /\ pc' = IF state[Here] = "Active" THEN "deactivate" ELSE "choose"
  /\ chosen' = IF state[Here] = "Active" THEN "deactivate" ELSE "none"
  /\ UNCHANGED <<orderVars, state, at, call, asked, touched, failed>>

\* ... and again, to choose the shutdown.  A node in no primary state is left.
ReadShutdown ==
  /\ pc = "choose"
  /\ chosen' = shutdownFor(state[Here])
  /\ IF chosen' = "none" THEN NextDown ELSE pc' = "shutdown" /\ UNCHANGED <<at, touched>>
  /\ UNCHANGED <<orderVars, state, call, asked, failed>>

ShutDownAsks ==
  /\ pc \in {"deactivate", "shutdown"}
  /\ Begin("run", Here, chosen)
  /\ UNCHANGED <<orderVars, pc, at, chosen, asked, touched, failed>>

\* A failure, or a refusal, is logged and no more.
ShutDownMovesOn ==
  IF pc = "deactivate" THEN pc' = "choose" /\ UNCHANGED <<at, touched>> ELSE NextDown

ShutDownRefused ==
  /\ pc \in {"deactivate", "shutdown"} /\ call["run"] = NoCall
  /\ ~Valid(Here, chosen)
  /\ ShutDownMovesOn
  /\ chosen' = "none"
  /\ UNCHANGED <<orderVars, state, call, asked, failed>>

ShutDownAnswered(ok) ==
  /\ pc \in {"deactivate", "shutdown"}
  /\ Settle("run", ok)
  /\ ShutDownMovesOn
  /\ chosen' = "none"
  /\ failed' = IF ok THEN failed ELSE failed \cup {Here}
  /\ UNCHANGED <<orderVars, asked>>

AppNext ==
  \/ CheckOrder \/ ComputeOrder
  \/ Start \/ BringUpAsks \/ BringUpRefused \/ BringUpDone
  \/ Stop \/ ReadActive \/ ReadShutdown \/ ShutDownAsks \/ ShutDownRefused
  \/ \E ok \in BOOLEAN : BringUpAnswered(ok) \/ ShutDownAnswered(ok) \/ ToolAnswered(ok)
  \/ \E n \in Nodes, t \in Transitions : ToolAsks(n, t)

AppSpec == AppInit /\ [][AppNext]_lifeVars

-----------------------------------------------------------------------------
(* Properties.                                                               *)

\* Run begins the transition t.
Asks(t) == call["run"] = NoCall /\ call'["run"].t = t

\* A node outside cycles is activated once the nodes it consumes from are running,
\* unless a tool has been at them since (bringUp; "a node is only ever activated
\* once the things it needs are already running", bringup.go:8-9).
ActivatedAfterProviders ==
  [][\A n \in Nodes \ cycles :
       Asks("activate") /\ call'["run"].node = n =>
         \A p \in edges[n] : state[p] = "Active" \/ p \in touched]_lifeVars

\* When shutDown begins to stop a node, none of its consumers outside cycles is
\* still active, unless a hook of the consumer failed or a tool drove it while
\* shutDown was at it.
ConsumersStopFirst ==
  [][\A c \in Nodes \ cycles :
       (\E t \in Transitions : Asks(t)) /\ pc \in {"deactivate", "shutdown"}
       /\ call'["run"].node \in edges[c] =>
         state[c] # "Active" \/ c \in touched \cup failed]_lifeVars

\* Both orders together: up along the edges, down against them.
UpAndDownInOrder == ActivatedAfterProviders /\ ConsumersStopFirst

\* When the application exits every node is Finalized, unless a hook of it failed
\* or a tool drove it while shutDown was at it.
ExitsFinalized ==
  pc = "stopped" => \A n \in Nodes : state[n] = "Finalized" \/ n \in touched \cup failed
=============================================================================
