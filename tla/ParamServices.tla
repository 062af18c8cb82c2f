--------------------------- MODULE ParamServices ---------------------------
(***************************************************************************)
(* The parameters of a node and their services (param.go,                  *)
(* param_services.go, and use_sim_time in clock.go).                       *)
(*                                                                         *)
(* Every request is handled in a goroutine of its own.  A handler looks    *)
(* its parameters up, applies them one by one, reading each one back, and  *)
(* announces what it changed in one /parameter_events message.  A          *)
(* parameter's lock covers one assignment, not a request.                  *)
(***************************************************************************)
EXTENDS ParamFile

CONSTANTS Node,          \* the node's name
          kindOf,        \* Names -> the declared kind
          defaultOf,     \* Names -> the default tag
          SimTime,       \* whether the process is on simulated time
          Callers,       \* clients of the services
          Requests,      \* set_parameters[_atomically] requests they make
          Files,         \* the lists of parameter files the process may be given
          MaxRequests    \* bound: requests each client makes

VARIABLES
  params,     \* parameter -> its value
  handler,    \* client -> the request being handled for it
  events,     \* the messages on /parameter_events
  put,        \* history: what each request assigned, in order
  given,      \* the parameter files the process was started with
  bound       \* whether startup went well

paramVars == <<params, handler, events, put, given, bound>>
atStart == <<given, bound>>

useSimTimeParam == "use_sim_time"
Handles == Names \cup {useSimTimeParam}
Kind(name) == IF name = useSimTimeParam THEN "bool" ELSE kindOf[name]
simulated == IF SimTime THEN "true" ELSE "false"

\* A duration is an integer on the wire.
rosType(name) == IF Kind(name) = "duration" THEN "int" ELSE Kind(name)

\* What arrives on the wire. A parameter declared under the name of the runtime's
\* is hidden by it (byName).
ParamMsgs == [name : STRING, type : STRING, value : STRING]
ASSUME ParamAssumption ==
  /\ useSimTimeParam \notin Names
  /\ \A r \in Requests : r.atomic \in BOOLEAN /\ r.params \in Seq(ParamMsgs)

Idle == [pc |-> "idle", req |-> <<>>, at |-> 1, results |-> <<>>, changed |-> <<>>, nr |-> 0]

ParamTypeOK ==
  /\ DOMAIN params = Handles
  /\ \A c \in Callers : handler[c].pc \in {"idle", "apply", "read"}
  /\ bound \in BOOLEAN

\* newApp binds every Param: its default, then what the files say.
ParamInit ==
  /\ given \in Files
  /\ LET loaded == LoadParamFiles(given)
           value(n) == bind(kindOf[n], defaultOf[n], loaded.out, Node, n)
       IN /\ bound = (~loaded.err /\ \A n \in Names : value(n) # {})
          /\ params = [n \in Handles |->
               IF n = useSimTimeParam THEN simulated
               ELSE IF bound THEN CHOOSE v \in value(n) : TRUE ELSE "unset"]
  /\ handler = [c \in Callers |-> Idle]
  /\ events = <<>> /\ put = {}

-----------------------------------------------------------------------------
\* setFromValue: the type must be the declared one; then the value goes through
\* the same text the files use.  The set of what may be stored: empty, refused.
setFromValue(p) ==
  IF p.type # rosType(p.name) THEN {}
  ELSE IF p.name = useSimTimeParam
       THEN parseYAMLScalar("bool", p.value) \cap {simulated}
       ELSE parseYAMLScalar(Kind(p.name), p.value)

\* A request arrives: set_parameters_atomically looks at all of it first.
Refused(ps) == \E i \in DOMAIN ps : ps[i].name \notin Handles \/ ps[i].type # rosType(ps[i].name)

Called(c) ==
  /\ bound /\ handler[c].pc = "idle" /\ handler[c].nr < MaxRequests
  /\ \E r \in Requests :
       handler' = [handler EXCEPT ![c] =
         [req |-> r, at |-> 1, changed |-> <<>>, nr |-> @.nr + 1,
          results |-> IF r.atomic /\ Refused(r.params) THEN <<FALSE>> ELSE <<>>,
          pc |-> IF r.atomic /\ Refused(r.params) THEN "idle" ELSE "apply"]]
  /\ UNCHANGED <<params, events, put, atStart>>

\* apply: an unknown name or a value that is not taken is a result of its own.
Apply(c) ==
  LET h == handler[c]  p == h.req.params[h.at] IN
  /\ h.pc = "apply" /\ h.at <= Len(h.req.params)
  /\ \/ /\ p.name \in Handles => setFromValue(p) = {}
        /\ handler' = [handler EXCEPT ![c].at = @ + 1, ![c].results = Append(@, FALSE)]
        /\ UNCHANGED <<params, put>>
     \/ /\ p.name \in Handles
        /\ \E v \in setFromValue(p) :
             /\ params' = [params EXCEPT ![p.name] = v]
             /\ put' = put \cup {[by |-> c, nr |-> h.nr, name |-> p.name, value |-> v]}
        /\ handler' = [handler EXCEPT ![c].pc = "read"]
  /\ UNCHANGED <<events, atStart>>

\* Mutant: what is announced is what was asked for.
ReadBackAsked(c) ==
  LET h == handler[c]  p == h.req.params[h.at] IN
  /\ h.pc = "read"
  /\ handler' = [handler EXCEPT ![c].pc = "apply", ![c].at = @ + 1,
                   ![c].results = Append(@, TRUE),
                   ![c].changed = Append(@, [name |-> p.name, value |-> p.value])]
  /\ UNCHANGED <<params, events, put, atStart>>

\* What is announced is read back after the assignment.
ReadBack(c) ==
  LET h == handler[c]  p == h.req.params[h.at] IN
  /\ h.pc = "read"
  /\ handler' = [handler EXCEPT ![c].pc = "apply", ![c].at = @ + 1,
                   ![c].results = Append(@, TRUE),
                   ![c].changed = Append(@, [name |-> p.name, value |-> params[p.name]])]
  /\ UNCHANGED <<params, events, put, atStart>>

\* announce and reply.  The atomic service has one result, and it is success.
Reply(c) ==
  LET h == handler[c] IN
  /\ h.pc = "apply" /\ h.at > Len(h.req.params)
  /\ events' = IF h.changed = <<>> THEN events ELSE Append(events, h.changed)
  /\ handler' = [handler EXCEPT ![c].pc = "idle",
                   ![c].results = IF h.req.atomic THEN <<TRUE>> ELSE @]
  /\ UNCHANGED <<params, put, atStart>>

\* The services that only read (list, get, get_types, describe) change nothing.
get_parameters(names) ==
  [i \in DOMAIN names |-> IF names[i] \in Handles
     THEN [type |-> rosType(names[i]), value |-> params[names[i]]]
     ELSE [type |-> "not_set", value |-> ""]]

ParamNext == \E c \in Callers : Called(c) \/ Apply(c) \/ ReadBack(c) \/ Reply(c)
ParamSpec == ParamInit /\ [][ParamNext]_paramVars
ParamFairSpec == ParamSpec /\ \A c \in Callers : WF_paramVars(Apply(c) \/ ReadBack(c) \/ Reply(c))

-----------------------------------------------------------------------------
(* Properties.                                                             *)
Replied(c) == handler[c].pc = "idle" /\ handler[c].nr > 0
Effects(c) == {e \in put : e.by = c /\ e.nr = handler[c].nr}

\* A reply says what the request did: a parameter reported as set was set, one
\* reported as refused was left alone; an atomic request that is refused touched
\* nothing ("validate every parameter before applying any of them").
RepliesAreTrue ==
  \A c \in Callers : Replied(c) =>
    LET h == handler[c] IN
    IF h.req.atomic
    THEN h.results = <<FALSE>> => Effects(c) = {}
    ELSE /\ Len(h.results) = Len(h.req.params)
         /\ {h.req.params[i].name : i \in {j \in DOMAIN h.results : h.results[j]}}
              = {e.name : e \in Effects(c)}

\* "Type changes are refused rather than silently coerced": whatever files and
\* clients send, a parameter holds a value of its declared kind, the value
\* get_parameters reports with that type; use_sim_time never moves.
TypesKept ==
  bound => /\ \A n \in Names : params[n] \in parseInto(kindOf[n], params[n])
           /\ params[useSimTimeParam] = simulated
           /\ \A n \in Handles : get_parameters(<<n>>)[1].type = rosType(n)

\* Somebody who follows /parameter_events has heard of the value a parameter
\* has: once all handlers are done, a changed parameter's value is in a message,
\* whoever assigned last.
ValueAnnounced ==
  (\A c \in Callers : handler[c].pc = "idle") =>
    \A e \in put : \E m \in ToSet(events) :
      [name |-> e.name, value |-> params[e.name]] \in ToSet(m)

\* What clients are told of the parameters holds, and they are told of it all.
ParamsKeepFaith == ParamTypeOK /\ RepliesAreTrue /\ TypesKept /\ ValueAnnounced

\* "set_parameters_atomically really is all-or-nothing": one that succeeded
\* assigned every parameter it named.
AtomicAllOrNothing ==
  \A c \in Callers :
    Replied(c) /\ handler[c].req.atomic /\ handler[c].results = <<TRUE>> =>
      {e.name : e \in Effects(c)} = {handler[c].req.params[i].name : i \in DOMAIN handler[c].req.params}

\* "ROS's `/**` wildcard node key is supported": what a file says of every node
\* holds for a node no file says otherwise of.
WildcardApplies ==
  LET loaded == LoadParamFiles(given).out IN
  bound /\ put = {} => \A n \in Names :
    loaded[paramWildcard][n] # Absent /\ loaded[Node][n] = Absent
      => params[n] \in parseYAMLScalar(kindOf[n], loaded[paramWildcard][n])
=============================================================================
