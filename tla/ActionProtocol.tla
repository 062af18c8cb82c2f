--------------------------- MODULE ActionProtocol ---------------------------
(***************************************************************************)
(* An action server (action.go) and the goal handles of an action client   *)
(* (action_client.go).  Every goal is one SendGoal call with a fresh       *)
(* random id; every request is handled on a goroutine of its own; the      *)
(* goal's handler runs on another.  A client that gives up on a request    *)
(* leaves the server's handler of it running.                              *)
(*                                                                         *)
(* The status topic is latched: latest is the array a late subscriber      *)
(* would be given.  publishStatus takes its snapshot under s.mu and        *)
(* publishes it after the unlock, so snapshots may overtake one another.   *)
(***************************************************************************)
EXTENDS Integers, FiniteSets

CONSTANTS
  Goals,       \* the goals clients send
  Cancelers,   \* cancel_goal requests in flight at a time
  FeedbackCap, \* capacity of a handle's feedback channel (16 in the code)
  Ours,        \* the goals sent through this ActionClient; others have another client
  Honours      \* goals whose handler returns an error once it is canceled

ASSUME ActionAssumption == FeedbackCap \in Nat \ {0} /\ Ours \subseteq Goals /\ Honours \subseteq Goals

Terminal == {"succeeded", "canceled", "aborted"}
Statuses == {"none", "executing", "canceling"} \cup Terminal

VARIABLES
  known,     \* s.goals: the goals whose record is in the map
  status,    \* goal |-> rec.status ("none" before the record exists)
  ctx,       \* the goals whose context has been canceled
  server,    \* goal |-> where its send_goal handler, then its goroutine, is
  canceler,  \* canceler |-> where its cancel_goal handler is
  snapshot,  \* publisher |-> the array it has taken and not yet published
  latest,    \* the array the latched status topic holds
  handle,    \* goal |-> where its client is
  getResult, \* goal |-> where its get_result handler is
  reply,     \* goal |-> the status its get_result handler answered with
  result,    \* goal |-> what Result returned: status, and whether err is nil
  pending,   \* c.pending: the goals whose feedback channel is open
  feedback   \* goal |-> messages waiting in the channel

actionVars == <<known, status, ctx, server, canceler, snapshot, latest, handle,
          getResult, reply, result, pending, feedback>>

\* A publication is under way on behalf of a goal's goroutines or a canceler.
Publishers == Goals \cup Cancelers
Arrays == [Goals -> Statuses]
NoArray == [g \in Goals |-> "none"]

serverVars == <<known, status, ctx, server, canceler, snapshot, latest>>
clientVars == <<handle, getResult, reply, result, pending, feedback>>

ActionTypeOK ==
  /\ known \subseteq Goals
  /\ status \in [Goals -> Statuses]
  /\ ctx \subseteq Goals
  /\ server \in [Goals -> {"idle", "request", "snap", "publish", "handler",
                           "endSnap", "endPublish", "grace", "dropped"}]
  /\ canceler \in [Cancelers -> {"idle", "snap", "publish"}]
  /\ snapshot \in [Publishers -> Arrays]
  /\ latest \in Arrays
  /\ handle \in [Goals -> {"idle", "sending", "accepted", "waiting", "released"}]
  /\ getResult \in [Goals -> {"idle", "request", "blocked", "answered"}]
  /\ reply \in [Goals -> Statuses]
  /\ result \in [Goals -> [status: Statuses, ok: BOOLEAN]]
  /\ pending \subseteq Goals
  /\ feedback \in [Goals -> 0..FeedbackCap]

NoResult == [status |-> "none", ok |-> FALSE]

ActionInit ==
  /\ known = {} /\ status = [g \in Goals |-> "none"] /\ ctx = {}
  /\ server = [g \in Goals |-> "idle"]
  /\ canceler = [c \in Cancelers |-> "idle"]
  /\ snapshot = [p \in Publishers |-> NoArray] /\ latest = NoArray
  /\ handle = [g \in Goals |-> "idle"]
  /\ getResult = [g \in Goals |-> "idle"] /\ reply = [g \in Goals |-> "none"]
  /\ result = [g \in Goals |-> NoResult]
  /\ pending = {} /\ feedback = [g \in Goals |-> 0]

-----------------------------------------------------------------------------
(* The server.                                                               *)

\* publishStatus: the snapshot under the lock, then the publication.
TakeSnapshot(p) ==
  snapshot' = [snapshot EXCEPT ![p] =
                 [g \in Goals |-> IF g \in known THEN status[g] ELSE "none"]]

PublishSnapshot(p) ==
  /\ latest' = snapshot[p]
  /\ snapshot' = [snapshot EXCEPT ![p] = NoArray]

\* handleSendGoal.  An id the server knows already is refused before anything is
\* changed; every goal here has an id of its own, so that is no step of any of them.
HandleSendGoal(g) ==
  /\ server[g] = "request"
  /\ known' = known \cup {g}
  /\ status' = [status EXCEPT ![g] = "executing"]
  /\ server' = [server EXCEPT ![g] = "snap"]
  /\ UNCHANGED <<ctx, canceler, snapshot, latest, clientVars>>

AcceptSnapshot(g) ==
  /\ server[g] = "snap"
  /\ TakeSnapshot(g)
  /\ server' = [server EXCEPT ![g] = "publish"]
  /\ UNCHANGED <<known, status, ctx, canceler, latest, clientVars>>

\* Publish, spawn the goal's goroutine and answer.
AcceptPublish(g) ==
  /\ server[g] = "publish"
  /\ PublishSnapshot(g)
  /\ server' = [server EXCEPT ![g] = "handler"]
  /\ UNCHANGED <<known, status, ctx, canceler, clientVars>>

\* The handler sends feedback; the client drops it when nobody listens or the
\* channel is full.
SendFeedback(g) ==
  /\ server[g] = "handler"
  /\ feedback' = [feedback EXCEPT ![g] =
                    IF g \in pending /\ @ < FeedbackCap THEN @ + 1 ELSE @]
  /\ UNCHANGED <<serverVars, handle, getResult, reply, result, pending>>

\* The handler returns; its status and result are recorded and done is closed
\* in one critical section.
HandlerReturns(g, err) ==
  /\ server[g] = "handler"
  /\ status' = [status EXCEPT ![g] = CASE err /\ g \in ctx -> "canceled"
                                       [] err /\ g \notin ctx -> "aborted"
                                       [] OTHER -> "succeeded"]
  /\ server' = [server EXCEPT ![g] = "endSnap"]
  /\ UNCHANGED <<known, ctx, canceler, snapshot, latest, clientVars>>

EndSnapshot(g) ==
  /\ server[g] = "endSnap"
  /\ TakeSnapshot(g)
  /\ server' = [server EXCEPT ![g] = "endPublish"]
  /\ UNCHANGED <<known, status, ctx, canceler, latest, clientVars>>

EndPublish(g) ==
  /\ server[g] = "endPublish"
  /\ PublishSnapshot(g)
  /\ server' = [server EXCEPT ![g] = "grace"]
  /\ UNCHANGED <<known, status, ctx, canceler, clientVars>>

\* The grace period of a finished goal is over.
DropGoal(g) ==
  /\ server[g] = "grace"
  /\ known' = known \ {g}
  /\ server' = [server EXCEPT ![g] = "dropped"]
  /\ UNCHANGED <<status, ctx, canceler, snapshot, latest, clientVars>>

\* Mutant: finished goals are canceled too.
CancelableAnyTime(named) == named \cap known

\* handleCancel for the goals it names: one goal, or (the zero id) all of them.
\* Unknown and finished goals are answered with an error code.
Cancelable(named) == {g \in named \cap known : status[g] \notin Terminal}

HandleCancel(c, named) ==
  /\ canceler[c] = "idle"
  /\ Cancelable(named) # {}
  /\ status' = [g \in Goals |-> IF g \in Cancelable(named) THEN "canceling" ELSE status[g]]
  /\ ctx' = ctx \cup Cancelable(named)
  /\ canceler' = [canceler EXCEPT ![c] = "snap"]
  /\ UNCHANGED <<known, server, snapshot, latest, clientVars>>

CancelSnapshot(c) ==
  /\ canceler[c] = "snap"
  /\ TakeSnapshot(c)
  /\ canceler' = [canceler EXCEPT ![c] = "publish"]
  /\ UNCHANGED <<known, status, ctx, server, latest, clientVars>>

CancelPublish(c) ==
  /\ canceler[c] = "publish"
  /\ PublishSnapshot(c)
  /\ canceler' = [canceler EXCEPT ![c] = "idle"]
  /\ UNCHANGED <<known, status, ctx, server, clientVars>>

\* handleGetResult: an unknown goal is answered at once; a known one is waited
\* for, and its record outlives its place in the map.
HandleGetResult(g) ==
  /\ getResult[g] = "request"
  /\ getResult' = [getResult EXCEPT ![g] = IF g \in known THEN "blocked" ELSE "answered"]
  /\ UNCHANGED <<serverVars, handle, reply, result, pending, feedback>>

\* Mutants: the answer does not wait for the goal; a canceled goal's done
\* channel is not closed.
AnswerResultEarly(g) ==
  /\ getResult[g] = "blocked"
  /\ reply' = [reply EXCEPT ![g] = status[g]]
  /\ getResult' = [getResult EXCEPT ![g] = "answered"]
  /\ UNCHANGED <<serverVars, handle, result, pending, feedback>>

AnswerResultUncanceled(g) ==
  /\ getResult[g] = "blocked"
  /\ status[g] \in {"succeeded", "aborted"}
  /\ reply' = [reply EXCEPT ![g] = status[g]]
  /\ getResult' = [getResult EXCEPT ![g] = "answered"]
  /\ UNCHANGED <<serverVars, handle, result, pending, feedback>>

AnswerResult(g) ==
  /\ getResult[g] = "blocked"
  /\ status[g] \in Terminal
  /\ reply' = [reply EXCEPT ![g] = status[g]]
  /\ getResult' = [getResult EXCEPT ![g] = "answered"]
  /\ UNCHANGED <<serverVars, handle, result, pending, feedback>>

-----------------------------------------------------------------------------
(* The client.                                                               *)

\* release: close the feedback channel and forget it.
Release(g) == pending' = pending \ {g}

SendGoal(g) ==
  /\ g \in Ours
  /\ handle[g] = "idle"
  /\ handle' = [handle EXCEPT ![g] = "sending"]
  /\ pending' = pending \cup {g}
  /\ server' = [server EXCEPT ![g] = "request"]
  /\ UNCHANGED <<known, status, ctx, canceler, snapshot, latest, getResult, reply,
                 result, feedback>>

\* Mutant: the early return forgets the channel.
SendTimeoutLeaks(g) ==
  /\ handle[g] = "sending"
  /\ handle' = [handle EXCEPT ![g] = "released"]
  /\ UNCHANGED <<serverVars, getResult, reply, result, pending, feedback>>

\* A goal of another client reaches the server.
ForeignGoal(g) ==
  /\ g \notin Ours
  /\ server[g] = "idle"
  /\ server' = [server EXCEPT ![g] = "request"]
  /\ UNCHANGED <<known, status, ctx, canceler, snapshot, latest, clientVars>>

\* No answer within sendGoalTimeout: the caller gets an error and no handle.
SendTimeout(g) ==
  /\ handle[g] = "sending"
  /\ handle' = [handle EXCEPT ![g] = "released"]
  /\ Release(g)
  /\ UNCHANGED <<serverVars, getResult, reply, result, feedback>>

\* The answer arrives, the goal's goroutine possibly well under way.
Accepted(g) ==
  /\ handle[g] = "sending"
  /\ server[g] \in {"handler", "endSnap", "endPublish", "grace", "dropped"}
  /\ handle' = [handle EXCEPT ![g] = "accepted"]
  /\ UNCHANGED <<serverVars, getResult, reply, result, pending, feedback>>

\* Result, called as early or as late as the client likes, and once.
Result(g) ==
  /\ handle[g] = "accepted"
  /\ handle' = [handle EXCEPT ![g] = "waiting"]
  /\ getResult' = [getResult EXCEPT ![g] = "request"]
  /\ UNCHANGED <<serverVars, reply, result, pending, feedback>>

ResultReturns(g, status_, ok) ==
  /\ handle[g] = "waiting"
  /\ result' = [result EXCEPT ![g] = [status |-> status_, ok |-> ok]]
  /\ handle' = [handle EXCEPT ![g] = "released"]
  /\ Release(g)
  /\ UNCHANGED <<serverVars, getResult, reply, feedback>>

ResultAnswered(g) == getResult[g] = "answered" /\ ResultReturns(g, reply[g], TRUE)
ResultTimeout(g) == getResult[g] # "answered" /\ ResultReturns(g, "none", FALSE)

\* The client takes a message from the feedback channel.
ReceiveFeedback(g) ==
  /\ feedback[g] > 0
  /\ feedback' = [feedback EXCEPT ![g] = @ - 1]
  /\ UNCHANGED <<serverVars, handle, getResult, reply, result, pending>>

-----------------------------------------------------------------------------
ServerNext(g) ==
  \/ HandleSendGoal(g) \/ AcceptSnapshot(g) \/ AcceptPublish(g) \/ SendFeedback(g)
  \/ HandlerReturns(g, TRUE) \/ HandlerReturns(g, FALSE)
  \/ EndSnapshot(g) \/ EndPublish(g) \/ DropGoal(g)
  \/ HandleGetResult(g) \/ AnswerResult(g)

CancelNext(c) ==
  \/ \E g \in Goals : HandleCancel(c, {g})
  \/ HandleCancel(c, Goals)
  \/ CancelSnapshot(c) \/ CancelPublish(c)

ClientNext(g) ==
  \/ SendGoal(g) \/ ForeignGoal(g) \/ SendTimeout(g) \/ Accepted(g) \/ Result(g)
  \/ ResultAnswered(g) \/ ResultTimeout(g) \/ ReceiveFeedback(g)

ActionNext ==
  \/ \E g \in Goals : ServerNext(g) \/ ClientNext(g)
  \/ \E c \in Cancelers : CancelNext(c)

ActionSpec == ActionInit /\ [][ActionNext]_actionVars

\* Goroutines run; the handler of a goal that honours its context returns once
\* it is canceled; nothing else makes a handler return.
ActionFairness ==
  \A g \in Goals :
    /\ WF_actionVars(HandleSendGoal(g) \/ AcceptSnapshot(g) \/ AcceptPublish(g)
                       \/ EndSnapshot(g) \/ EndPublish(g))
    /\ WF_actionVars(HandleGetResult(g) \/ AnswerResult(g))
    /\ WF_actionVars(ResultAnswered(g))
    /\ g \in Honours => WF_actionVars(g \in ctx /\ HandlerReturns(g, TRUE))

ActionFairSpec == ActionSpec /\ ActionFairness

-----------------------------------------------------------------------------
(* Properties.                                                               *)

Life == INSTANCE GoalLife

\* Every goal lives the life the action protocol gives it, however cancel
\* requests race with the handler's return.
GoalsImplementLife == Life!Spec

\* What Result reports without an error is what the server recorded, and it is
\* final: no late cancel and no dropped record changes it afterwards.
ResultIsFinal ==
  \A g \in Goals :
    result[g].ok /\ result[g].status # "none" =>
      result[g].status \in Terminal /\ result[g].status = status[g]

\* The latched status array may be out of date, because snapshots overtake one
\* another, but it never tells a late subscriber that a goal is over which is
\* not, or that it ended otherwise than it did.
EndingsToldAreTrue == \A g \in Goals : latest[g] \in Terminal => status[g] = latest[g]

\* Nothing the server has said of the end of a goal turns out untrue: not an
\* answer to get_result, not the status topic.
ToldIsTrue == ActionTypeOK /\ ResultIsFinal /\ EndingsToldAreTrue

\* Feedback is registered for exactly as long as somebody holds the goal:
\* rejected, timed out and finished goals leave no channel behind.
NoLeakedFeedback ==
  \A g \in Goals : g \in pending <=> handle[g] \in {"sending", "accepted", "waiting"}

\* A canceled goal whose handler honours its context ends, and its waiting
\* client hears of it.
CancelHeard ==
  \A g \in Honours \cap Ours :
    (g \in ctx /\ handle[g] = "waiting") ~> (handle[g] = "released" /\ status[g] \in Terminal)
=============================================================================
