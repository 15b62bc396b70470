----------------------------- MODULE GraphView ------------------------------
(***************************************************************************)
(* The ROS graph that the sessions of a host report.                       *)
(*                                                                         *)
(* A session keeps the counts of its own endpoints, and advertises each    *)
(* endpoint it creates in its slot of the daemon's node table: a service   *)
(* as a published response and a subscribed request topic, a client the    *)
(* other way round.  The queries of rmw combine the session's own counts   *)
(* with the slots of the others.  Nothing takes a topic out of a slot but  *)
(* the daemon, when the whole node has left or died.                       *)
(*                                                                         *)
(* Several threads of a process may create endpoints.  An advertisement    *)
(* reads the count of topics in the slot, and later writes the topic and   *)
(* the new count, without a lock.  The local part of a create or destroy   *)
(* is one step here: Endpoints has its interleavings.  A session is a node *)
(* with a name of its own; types, QoS and GIDs follow the topic.  How the  *)
(* slot is claimed, and how it reaches other hosts, is in NodeTable and    *)
(* PeerSync.                                                               *)
(***************************************************************************)
EXTENDS Integers, FiniteSets, Sequences, FiniteSetsExt

CONSTANTS
  Sessions,
  Threads,     \* the threads of each session
  Names,       \* names of topics and of services
  MaxTopics,   \* MAX_TOPICS_PER_NODE
  MaxCreates   \* bound on the endpoints created

Kinds == {"publisher", "subscription", "service", "client"}
Sides == {"published", "subscribed"}
Topics == {"topic", "request", "response"} \X Names
None == <<>>

VARIABLES
  count,       \* count[s][k][n]: publisher_counts, subscription_counts, ...
  table,       \* table[s]: the slot of s in the node table
  proc,        \* proc[s]: "up", "left" or "dead"
  thread,      \* thread[s][t]: the advertisements a create has still to make
  creates,
  destroyed,   \* history: sessions that have destroyed an endpoint
  dropped,     \* history: sessions with a topic that no longer fitted its slot
  overlapped   \* history: sessions with two advertisements at once

vars == <<count, table, proc, thread, creates, destroyed, dropped, overlapped>>
history == <<destroyed, dropped, overlapped>>

NoTopics == [topics |-> [i \in 1..MaxTopics |-> None], count |-> 0]
Blank == [st |-> "empty", published |-> NoTopics, subscribed |-> NoTopics]
Idle == [todo |-> <<>>, at |-> 0]

Init ==
  /\ count = [s \in Sessions |-> [k \in Kinds |-> [n \in Names |-> 0]]]
  /\ table = [s \in Sessions |-> [Blank EXCEPT !.st = "pending"]]
  /\ proc = [s \in Sessions |-> "up"]
  /\ thread = [s \in Sessions |-> [t \in Threads |-> Idle]]
  /\ creates = 0
  /\ destroyed = {} /\ dropped = {} /\ overlapped = {}

----------------------------------------------------------------------------
(* Creating and destroying endpoints *)

\* register_published_topic_with_daemon and register_subscribed_topic_with_daemon,
\* as each of the four creates calls them.
Advertised(k, n) ==
  CASE k = "publisher"    -> <<<<"published", <<"topic", n>>>>>>
    [] k = "subscription" -> <<<<"subscribed", <<"topic", n>>>>>>
    [] k = "service"      -> <<<<"published", <<"response", n>>>>, <<"subscribed", <<"request", n>>>>>>
    [] k = "client"       -> <<<<"published", <<"request", n>>>>, <<"subscribed", <<"response", n>>>>>>

Create(s, t, k, n) ==
  /\ proc[s] = "up" /\ thread[s][t] = Idle
  /\ creates < MaxCreates
  /\ creates' = creates + 1
  /\ count' = [count EXCEPT ![s][k][n] = @ + 1]
  /\ thread' = [thread EXCEPT ![s][t].todo = Advertised(k, n)]
  /\ UNCHANGED <<table, proc, history>>

\* A topic that does not fit is not advertised, and nobody is told.
Room(side, s) == table[s][side].count < MaxTopics

ReadCount(s, t) ==
  /\ proc[s] = "up" /\ thread[s][t].todo # <<>> /\ thread[s][t].at = 0
  /\ LET side == Head(thread[s][t].todo)[1] IN
     /\ IF Room(side, s)
        THEN thread' = [thread EXCEPT ![s][t].at = table[s][side].count + 1] /\ UNCHANGED dropped
        ELSE thread' = [thread EXCEPT ![s][t].todo = Tail(@)] /\ dropped' = dropped \cup {s}
     /\ overlapped' = overlapped \cup
          {r \in {s} : \E u \in Threads : thread[s][u].at # 0 /\ Head(thread[s][u].todo)[1] = side}
  /\ UNCHANGED <<count, table, proc, creates, destroyed>>

WriteTopic(s, t) ==
  /\ proc[s] = "up" /\ thread[s][t].at # 0
  /\ LET side == Head(thread[s][t].todo)[1]
         i == thread[s][t].at
     IN table' = [table EXCEPT ![s][side].topics[i] = Head(thread[s][t].todo)[2], ![s][side].count = i]
  /\ thread' = [thread EXCEPT ![s][t] = [todo |-> Tail(@.todo), at |-> 0]]
  /\ UNCHANGED <<count, proc, creates, history>>

Unadvertised_Last(slot, k) ==
  [slot EXCEPT !.published.count = IF k # "subscription" /\ @ > 0 THEN @ - 1 ELSE @]

\* The slot keeps what it has.
Unadvertised(slot, k) == slot

Destroy(s, t, k, n) ==
  /\ proc[s] = "up" /\ thread[s][t] = Idle
  /\ count[s][k][n] > 0
  /\ count' = [count EXCEPT ![s][k][n] = @ - 1]
  /\ table' = [table EXCEPT ![s] = Unadvertised(@, k)]
  /\ destroyed' = destroyed \cup {s}
  /\ UNCHANGED <<proc, thread, creates, dropped, overlapped>>

----------------------------------------------------------------------------
(* Processes and the daemon *)

\* unregister_from_daemon
Leave(s) ==
  /\ proc[s] = "up" /\ \A t \in Threads : thread[s][t] = Idle
  /\ proc' = [proc EXCEPT ![s] = "left"]
  /\ table' = [table EXCEPT ![s].st = "leaving"]
  /\ UNCHANGED <<count, thread, creates, history>>

Crash(s) ==
  /\ proc[s] = "up"
  /\ proc' = [proc EXCEPT ![s] = "dead"]
  /\ UNCHANGED <<count, table, thread, creates, history>>

\* process_pending_registrations (NodeTable has the unregister that it overtakes)
Activate(s) ==
  /\ table[s].st = "pending"
  /\ table' = [table EXCEPT ![s].st = "active"]
  /\ UNCHANGED <<count, proc, thread, creates, history>>

\* process_departed_nodes
Clear(s) ==
  /\ \/ table[s].st = "leaving"
     \/ table[s].st = "active" /\ proc[s] = "dead"
  /\ table' = [table EXCEPT ![s] = Blank]
  /\ UNCHANGED <<count, proc, thread, creates, history>>

----------------------------------------------------------------------------
Next ==
  \E s \in Sessions :
    \/ Leave(s) \/ Crash(s) \/ Activate(s) \/ Clear(s)
    \/ \E t \in Threads :
         \/ ReadCount(s, t) \/ WriteTopic(s, t)
         \/ \E k \in Kinds, n \in Names : Create(s, t, k, n) \/ Destroy(s, t, k, n)

Spec == Init /\ [][Next]_vars

----------------------------------------------------------------------------
(* What session x is told *)

\* is_daemon_node_alive: of a node on this host, whether its process exists.
is_daemon_node_alive(s) == proc[s] = "up"

Active == {s \in Sessions : table[s].st = "active"}

Others_DeadToo(x) == {s \in Active : s # x}

Others(x) == {s \in Active : s # x /\ is_daemon_node_alive(s)}

\* How often a slot has topic tp, and the names of its topics of a sort.
Times(s, side, tp) == Cardinality({i \in 1..table[s][side].count : table[s][side].topics[i] = tp})
Has(s, side, tp) == Times(s, side, tp) > 0
Of(s, side, sort) == {n \in Names : Has(s, side, <<sort, n>>)}

Own(x, k) == {n \in Names : count[x][k][n] > 0}
InOthers(x, side, tp) == FoldSet(LAMBDA s, sum : sum + Times(s, side, tp), 0, Others(x))
Present(x, k, n) == IF n \in Own(x, k) THEN 1 ELSE 0

\* The slots of nodes that have died are left out of some of the queries only, and the
\* session's own slot is in some of them.
get_node_names(x) == {x} \cup Others(x)

get_topic_names(x) ==
  Own(x, "publisher") \cup Own(x, "subscription")
    \cup UNION {Of(s, "published", "topic") \cup Of(s, "subscribed", "topic") : s \in Active}

get_topic_names_and_types(x) ==
  Own(x, "publisher") \cup Own(x, "subscription")
    \cup UNION {Of(s, "published", "topic") \cup Of(s, "subscribed", "topic") :
                  s \in {r \in Active : is_daemon_node_alive(r)}}

get_service_names_and_types(x) ==
  Own(x, "service") \cup UNION {Of(s, "published", "response") : s \in Active}

count_publishers(x, n) == count[x]["publisher"][n] + InOthers(x, "published", <<"topic", n>>)

count_subscribers(x, n) == count[x]["subscription"][n] + InOthers(x, "subscribed", <<"topic", n>>)

count_services(x, n) == Present(x, "service", n) + InOthers(x, "published", <<"response", n>>)

count_clients(x, n) == Present(x, "client", n) + InOthers(x, "published", <<"request", n>>)

service_available(x, n) ==
  n \in Own(x, "service") \/ \E s \in Active : Has(s, "published", <<"response", n>>)

\* One endpoint for each node.
get_publishers_info(x, n) ==
  {s \in {x} : n \in Own(x, "publisher")} \cup {s \in Others(x) : Has(s, "published", <<"topic", n>>)}

get_subscriptions_info(x, n) ==
  {s \in {x} : n \in Own(x, "subscription")} \cup {s \in Others(x) : Has(s, "subscribed", <<"topic", n>>)}

\* A node is looked up by its name, whether its process is alive or not.
resolve_node_id(x, s) == {r \in {s} : s = x \/ s \in Active}

ByNode(x, s, k, side, sort) ==
  {n \in Own(x, k) : s = x} \cup UNION {Of(r, side, sort) : r \in resolve_node_id(x, s) \cap Active}

get_publishers_by_node(x, s) == ByNode(x, s, "publisher", "published", "topic")
get_subscribers_by_node(x, s) == ByNode(x, s, "subscription", "subscribed", "topic")
get_services_by_node(x, s) == ByNode(x, s, "service", "subscribed", "request")
get_clients_by_node(x, s) == ByNode(x, s, "client", "published", "request")

\* The counts that rmw gets are of nodes, but those of matched endpoints are of endpoints.
axon_session_count_publishers(x, n) == Cardinality(get_publishers_info(x, n))
axon_session_count_subscribers(x, n) == Cardinality(get_subscriptions_info(x, n))
axon_session_count_matched_pubs(x, n) == count_publishers(x, n)
axon_session_count_matched_subs(x, n) == count_subscribers(x, n)

----------------------------------------------------------------------------
(* Properties *)

TypeOK ==
  /\ \A s \in Sessions : /\ table[s].st \in {"empty", "pending", "active", "leaving"}
                         /\ \A side \in Sides : table[s][side].count \in 0..MaxTopics
                         /\ proc[s] \in {"up", "left", "dead"}
  /\ creates \in 0..MaxCreates

\* A session that is active and creates nothing just now.
Settled(s) == proc[s] = "up" /\ s \in Active /\ \A t \in Threads : thread[s][t] = Idle

\* Every endpoint of a settled session is in the graph of every session: in the names, in
\* the counts, by its topic and by its node.  A topic may be missing only if the slot was
\* full, or two threads advertised at once (register_published_topic_with_daemon).
NoneMissing ==
  \A x, s \in Sessions : proc[x] = "up" /\ Settled(s) /\ s \notin dropped \cup overlapped =>
    \A n \in Names :
      /\ count[s]["publisher"][n] > 0 =>
           /\ n \in get_topic_names(x) \cap get_topic_names_and_types(x) \cap get_publishers_by_node(x, s)
           /\ s \in get_publishers_info(x, n)
           /\ count_publishers(x, n) >= count[s]["publisher"][n]
      /\ count[s]["subscription"][n] > 0 =>
           /\ n \in get_topic_names(x) \cap get_topic_names_and_types(x) \cap get_subscribers_by_node(x, s)
           /\ s \in get_subscriptions_info(x, n)
           /\ count_subscribers(x, n) >= count[s]["subscription"][n]
      /\ count[s]["service"][n] > 0 =>
           /\ n \in get_service_names_and_types(x) \cap get_services_by_node(x, s)
           /\ service_available(x, n) /\ count_services(x, n) > 0
      /\ count[s]["client"][n] > 0 =>
           n \in get_clients_by_node(x, s) /\ count_clients(x, n) > 0

\* Of the endpoints of all processes that run, how many are of kind k and name n?
Running(k, n) ==
  FoldSet(LAMBDA s, sum : sum + count[s][k][n], 0, {s \in Sessions : is_daemon_node_alive(s)})

\* As long as no endpoint has been destroyed, no session counts an endpoint that does not
\* exist or whose process has died, the counts of rmw agree on whether there is one, and a
\* service is available only if some process has created it (count_publishers and the
\* queries like it, service_available).
NoneInvented ==
  destroyed = {} =>
    \A x \in Sessions, n \in Names : proc[x] = "up" =>
      /\ count_publishers(x, n) <= Running("publisher", n)
      /\ count_subscribers(x, n) <= Running("subscription", n)
      /\ count_services(x, n) <= Running("service", n)
      /\ count_clients(x, n) <= Running("client", n)
      /\ axon_session_count_publishers(x, n) > 0 <=> axon_session_count_matched_pubs(x, n) > 0
      /\ axon_session_count_subscribers(x, n) > 0 <=> axon_session_count_matched_subs(x, n) > 0
      /\ service_available(x, n) => \E s \in Sessions : n \in Own(s, "service")

\* "true if a service server exists for the given name" (service_available).
AvailableOnlyIfServed ==
  \A x \in Sessions, n \in Names :
    proc[x] = "up" /\ service_available(x, n) => \E s \in Sessions : n \in Own(s, "service")

=============================================================================
