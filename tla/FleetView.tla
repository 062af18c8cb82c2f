----------------------------- MODULE FleetView ------------------------------
(***************************************************************************)
(* What a process says of itself on its dashboard (dashboard.go,           *)
(* inventory.go) and what the fleet view makes of all of them: one graph   *)
(* per robot, and the findings only it can make (fleet.go).                *)
(*                                                                         *)
(* A process has a host, a name, a robot and an address; ok is whether it  *)
(* answers in time. It runs the nodes of a release, a function from nodes  *)
(* to their endpoints, all of them publishers or subscriptions here, each  *)
(* with the messages it counted. A name is a sequence of its parts.        *)
(***************************************************************************)
EXTENDS Integers, FiniteSets, SequencesExt

CONSTANT Names    \* every node and topic, in the order of their names

At(x) == CHOOSE i \in DOMAIN Names : Names[i] = x
Before(x, y) == At(x) < At(y)
Sorted(S) == SetToSortSeq(S, Before)

-----------------------------------------------------------------------------
(* A process (dashboard.go).                                               *)

\* endpointsSnapshot: by node, then by name, what is left in the order bound.
endpointsSnapshot(p) ==
  LET all == FlattenSeq([i \in DOMAIN p.nodes |->
               LET of == p.release.endpoints[p.nodes[i]]
               IN  [j \in DOMAIN of |-> [end |-> of[j], node |-> p.nodes[i], at |-> <<i, j>>]]])
      Earlier(a, b) == \/ Before(a.node, b.node)
                       \/ a.node = b.node /\ Before(a.end.topic, b.end.topic)
                       \/ a.node = b.node /\ a.end.topic = b.end.topic /\ a.at[2] < b.at[2]
  IN  SortSeq(all, Earlier)

\* topicViews: an endpoint after another writes over the type and QoS of its topic.
topicView(p, topic) ==
  LET all == SelectSeq(endpointsSnapshot(p), LAMBDA e : e.end.topic = topic)
      Ends(kind) == {i \in DOMAIN all : all[i].end.kind = kind}
      Counted(kind) == FoldSet(LAMBDA i, n : n + all[i].end.count, 0, Ends(kind))
  IN [topic |-> topic, type |-> all[Len(all)].end.type, qos |-> all[Len(all)].end.qos,
      pubs |-> {all[i].node : i \in Ends("pub")}, subs |-> {all[i].node : i \in Ends("sub")},
      sent |-> Counted("pub"), received |-> Counted("sub")]
topicViews(p) == {topicView(p, t) : t \in {endpointsSnapshot(p)[i].end.topic :
                                           i \in DOMAIN endpointsSnapshot(p)}}

\* snapshot, without the metrics and traces: the answer to /api/summary.
snapshot(p) ==
  [nodes |-> LET of == Sorted(ToSet(p.nodes))
             IN [i \in DOMAIN of |-> [name |-> of[i], state |-> p.state[of[i]],
                                      dropped |-> of[i] \in p.dropped]],
   topics |-> topicViews(p), frames |-> p.release.frames,
   missions |-> p.release.missions \cap ToSet(p.nodes)]

NoSnapshot == [nodes |-> <<>>, topics |-> {}, frames |-> <<>>, missions |-> {}]

-----------------------------------------------------------------------------
(* The merge (fleet.go).                                                   *)

label(p) ==
  LET parts == SelectSeq(<<p.host, p.name>>, LAMBDA s : s # "")
  IN  IF parts = <<>> THEN <<p.url>> ELSE parts

\* A process of one node is labelled after it.
nodeKey(process, node) == IF Last(process) = node THEN process ELSE Append(process, node)

\* fetchPeer: nothing of a process that does not answer. Every process is asked
\* once, before anything is merged.
fetchPeer(p) == IF p.ok THEN snapshot(p) ELSE NoSnapshot
fetchAll(fleet) == [i \in DOMAIN fleet |-> [said |-> fetchPeer(fleet[i])] @@ fleet[i]]

Told(code, robot, about) == [code |-> code, robot |-> robot, about |-> about]

RobotsOf(fleet) == {fleet[i].robot : i \in DOMAIN fleet}
On(fleet, robot) == SelectSeq(fleet, LAMBDA p : p.robot = robot)
\* What the processes of a robot say of a topic, in the order of the peers.
Views(fleet, robot, topic) ==
  LET says(p) == SetToSeq({t \in p.said.topics : t.topic = topic})
      of == On(fleet, robot)
  IN  FlattenSeq([i \in DOMAIN of |-> [j \in DOMAIN says(of[i]) |->
                                         [process |-> label(of[i]), view |-> says(of[i])[j]]]])
TopicsOn(fleet, robot) == UNION {{t.topic : t \in p.said.topics} : p \in ToSet(On(fleet, robot))}

\* A merged topic: an endpoint for every node, with the count of its process.
FleetTopic(fleet, robot, topic) ==
  LET views == Views(fleet, robot, topic)
      Of(field, count) == UNION {{[process |-> views[i].process,
                                   key |-> nodeKey(views[i].process, n),
                                   counts |-> views[i].view[count]] :
                                  n \in views[i].view[field]} : i \in DOMAIN views}
      Total(S) == FoldSet(LAMBDA e, n : n + e.counts, 0, S)
      pubs == Of("pubs", "sent")
      subs == Of("subs", "received")
  IN [topic |-> topic, robot |-> robot, pubs |-> pubs, subs |-> subs,
      sent |-> Total(pubs), received |-> Total(subs)]

\* mergeTopicFacts: each against the first that was given.
mergeTopicFacts(fleet, robot, topic) ==
  LET views == Views(fleet, robot, topic)
      Differs(field, i) ==
        \E j \in 1..(i - 1) : /\ views[j].view[field] # "" /\ views[i].view[field] # ""
                              /\ \A k \in 1..(j - 1) : views[k].view[field] = ""
                              /\ views[i].view[field] # views[j].view[field]
  IN {Told("FLEET05", robot, <<topic, field>>) :
        field \in {f \in {"type", "qos"} : \E i \in DOMAIN views : Differs(f, i)}}

\* mergeFrames: a tree against the first of its robot.
mergeFrames(fleet, robot) ==
  LET of == SelectSeq(On(fleet, robot), LAMBDA p : p.said.frames # <<>>)
  IN {Told("FLEET06", robot, label(of[i])) :
        i \in {j \in DOMAIN of : of[j].release.frames # of[1].release.frames}}

\* The first pass: what a process, or a node of it, is told of.
Alarms(p) ==
  IF ~p.ok THEN {Told("FLEET01", p.robot, label(p))}
  ELSE LET nodes == ToSet(p.said.nodes) IN
       {Told("FLEET02", p.robot, nodeKey(label(p), n.name)) : n \in {m \in nodes : m.state # "active"}}
       \cup {Told("FLEET03", p.robot, nodeKey(label(p), n.name)) : n \in {m \in nodes : m.dropped}}

\* Mutant: topics are merged by their name, whatever the robot.
unpublishedAnywhere(fleet, robot, external) ==
  {Told("FLEET04", robot, t) :
     t \in {u \in TopicsOn(fleet, robot) \ external :
              /\ \A r \in RobotsOf(fleet) : FleetTopic(fleet, r, u).pubs = {}
              /\ FleetTopic(fleet, robot, u).subs # {}}}

\* Subscribers and no publisher that answers, on one robot.
unpublished(fleet, robot, external) ==
  {Told("FLEET04", robot, t) :
     t \in {u \in TopicsOn(fleet, robot) \ external :
              FleetTopic(fleet, robot, u).pubs = {} /\ FleetTopic(fleet, robot, u).subs # {}}}

Findings(fleet, external) ==
  UNION {Alarms(p) : p \in ToSet(fleet)}
  \cup UNION {unpublished(fleet, r, external) \cup mergeFrames(fleet, r)
              \cup UNION {mergeTopicFacts(fleet, r, t) : t \in TopicsOn(fleet, r)} :
              r \in RobotsOf(fleet)}

\* addNode: a process that does not answer is one node.
NodesOn(fleet, robot) ==
  UNION {IF ~p.ok THEN {label(p)}
         ELSE {nodeKey(label(p), n.name) : n \in ToSet(p.said.nodes)} :
         p \in ToSet(On(fleet, robot))}

\* nodeDepsFor and BringupOrder's edges: the keys a key waits for.
Needs(fleet, robot, key) ==
  {other \in NodesOn(fleet, robot) \ {key} :
     \E t \in TopicsOn(fleet, robot) :
       /\ \E e \in FleetTopic(fleet, robot, t).subs : e.key = key
       /\ \E e \in FleetTopic(fleet, robot, t).pubs : e.key = other}

-----------------------------------------------------------------------------
(* Properties.                                                             *)

\* The nodes that do run and whose process answers, with the releases' own
\* word for what they publish and subscribe.
Up(fleet, robot) ==
  {<<p, n>> \in ToSet(fleet) \X ToSet(Names) : p.ok /\ p.robot = robot /\ n \in ToSet(p.nodes)}
Has(up, kind, topic) ==
  \E e \in ToSet(up[1].release.endpoints[up[2]]) : e.kind = kind /\ e.topic = topic
TopicNames(fleet) ==
  UNION {UNION {{e.topic : e \in ToSet(p.release.endpoints[n])} : n \in ToSet(p.nodes)} : p \in ToSet(fleet)}
Keyed(up) == nodeKey(label(up[1]), up[2])

\* FLEET04 "subscriber(s) in this deployment and no publisher answering"
\* (fleet.go:337): told of a robot exactly when that is so of it, whatever other
\* robots publish.
StarvedAreTold(fleet, external) ==
  \A r \in RobotsOf(fleet) : \A t \in TopicNames(fleet) \ external :
    Told("FLEET04", r, t) \in Findings(fleet, external) <=>
      /\ \E u \in Up(fleet, r) : Has(u, "sub", t)
      /\ ~\E u \in Up(fleet, r) : Has(u, "pub", t)

\* A fleet of one release in which every process answers and every node is
\* active has nothing the matter with it, in one process or split.
HealthyIsQuiet(fleet, external) ==
  (/\ \A p \in ToSet(fleet) : p.ok /\ p.dropped = {} /\ \A n \in ToSet(p.nodes) : p.state[n] = "active"
   /\ Cardinality({p.release : p \in ToSet(fleet)}) = 1
   /\ \A r \in RobotsOf(fleet) : \A u \in Up(fleet, r) : \A e \in ToSet(u[1].release.endpoints[u[2]]) :
        /\ e.kind = "sub" => e.topic \in external \/ \E v \in Up(fleet, r) : Has(v, "pub", e.topic)
        /\ \A v \in Up(fleet, r) : \A o \in ToSet(v[1].release.endpoints[v[2]]) :
             o.topic = e.topic => o.type = e.type /\ o.qos = e.qos) =>
  Findings(fleet, external) = {}

\* Two processes of a robot that were built from different sources are told of:
\* other frames, or another type for a topic both name.
DisagreementsAreTold(fleet, external) ==
  \A r \in RobotsOf(fleet) : \A p, q \in {x \in ToSet(fleet) : x.ok /\ x.robot = r} :
    /\ p.release.frames # <<>> /\ q.release.frames # <<>> /\ p.release.frames # q.release.frames =>
         \E f \in Findings(fleet, external) : f.code = "FLEET06" /\ f.robot = r
    /\ \A v \in p.said.topics, w \in q.said.topics : v.topic = w.topic /\ v.type # w.type =>
         Told("FLEET05", r, <<v.topic, "type">>) \in Findings(fleet, external)

\* Nodes of different processes are kept apart, a node that is a process of its
\* own is the same node whether it answers or not, and what a node waits for is
\* what its declarations say.
NodesAreKept(fleet) ==
  \A r \in RobotsOf(fleet) :
    /\ Cardinality(NodesOn(fleet, r)) =
         Cardinality(Up(fleet, r)) + Cardinality({p \in ToSet(fleet) : p.robot = r /\ ~p.ok})
    /\ \A u \in Up(fleet, r) : u[1].name = u[2] => Keyed(u) = label(u[1])
    /\ \A u, v \in Up(fleet, r) : Keyed(v) \in Needs(fleet, r, Keyed(u)) <=>
         u # v /\ \E t \in TopicNames(fleet) : Has(u, "sub", t) /\ Has(v, "pub", t)

FleetIsTrue(fleet, external) ==
  /\ StarvedAreTold(fleet, external) /\ HealthyIsQuiet(fleet, external)
  /\ DisagreementsAreTold(fleet, external) /\ NodesAreKept(fleet)
=============================================================================
