------------------------------ MODULE MCGraph ------------------------------
(***************************************************************************)
(* What a host knows of the others, for model checking: the routes of a    *)
(* publisher to remote peers (RemoteRoutes), the graph that the daemons of *)
(* two hosts exchange (PeerSync), and what the queries of rmw make of the  *)
(* graph (GraphView).  They share no state in these models, and a          *)
(* behaviour is one of one of them, chosen by part.                        *)
(***************************************************************************)
EXTENDS RemoteRoutes, TLC

CONSTANTS d1, d2, m1, n1, c1, c2

VARIABLES
  part,
  nodes, matches, flag, wire, peers, sync, crossed, lapsed,
  changes, failures, silences,                                                   \* of PeerSync
  count, table, proc, caller, creates, destroyed, dropped, raced                 \* of GraphView

syncVars == <<nodes, matches, flag, wire, peers, sync, crossed, lapsed, changes, failures, silences>>
viewVars == <<count, table, proc, caller, creates, destroyed, dropped, raced>>

\* One node on each host.
S == INSTANCE PeerSync WITH
  Daemons <- {d1, d2}, NodesOf <- d1 :> {m1} @@ d2 :> {n1}, MaxChanges <- 3,
  MaxFailures <- 1, MaxSilences <- 1, Watch <- TRUE,
  table <- nodes, known <- peers

\* The two sessions have the names of the two peers: one permutation serves both.
V == INSTANCE GraphView WITH
  Sessions <- Peers, Threads <- {c1}, Names <- {"name"}, MaxTopics <- 2, MaxCreates <- 3,
  thread <- caller, overlapped <- raced

\* The same with two threads in each session, and two endpoints.
T == INSTANCE GraphView WITH
  Sessions <- Peers, Threads <- {c1, c2}, Names <- {"name"}, MaxTopics <- 2, MaxCreates <- 2,
  thread <- caller, overlapped <- raced

\* Either three changes and no faults, or a change and the faults after the nodes of both
\* hosts have registered.
SyncInit ==
  \/ S!Started("absent") /\ changes = 0 /\ failures = 1 /\ silences = 1
  \/ part = "sync" /\ S!Started("topic") /\ changes = 2 /\ failures = 0 /\ silences = 0

\* Only the part that runs has more than one initial state.
MCInit ==
  /\ part \in {"routes", "sync", "view", "threads"}
  /\ Init /\ SyncInit /\ (IF part = "threads" THEN T!Init ELSE V!Init)
  /\ part # "routes" => durability = "none"

\* The properties of RemoteRoutes say nothing of what follows an overlap, which is never
\* taken back: those behaviours end with the step that overlaps.
MCNext ==
  /\ UNCHANGED part
  /\ \/ part = "routes" /\ ~ overlap /\ Next /\ UNCHANGED <<syncVars, viewVars>>
     \/ part = "sync" /\ S!Next /\ UNCHANGED <<vars, viewVars>>
     \/ part = "view" /\ V!Next /\ UNCHANGED <<vars, syncVars>>
     \/ part = "threads" /\ T!Next /\ UNCHANGED <<vars, syncVars>>

MCSpec == MCInit /\ [][MCNext]_<<part, vars, syncVars, viewVars>>

\* Peers, and sessions, differ in nothing but their names; so do the two hosts.
Hosts == {d1 :> d1 @@ d2 :> d2 @@ m1 :> m1 @@ n1 :> n1, d1 :> d2 @@ d2 :> d1 @@ m1 :> n1 @@ n1 :> m1}
Symmetry == {p @@ h : p \in Permutations(Peers), h \in Hosts}

-----------------------------------------------------------------------------
\* The variables of the part that runs have their types.
Types ==
  /\ part = "routes" => TypeOK
  /\ part = "sync" => S!TypeOK
  /\ part = "view" => V!TypeOK
  /\ part = "threads" => T!TypeOK

\* A daemon that has recorded the current generation of its peer has exactly the nodes
\* that are there, but for those that have expired since it last merged them, of which there
\* are none when the peer has recorded its current generation too; unless the syncs of the
\* two daemons have crossed and none has run alone since (the generation of HELLOs,
\* process_departed_nodes; see PeerSync).
NodeRevisionUncrossed == Types /\ (part = "sync" => S!NodeRevisionUncrossed)

\* Every endpoint of a settled session is in the graph of every session, unless its slot
\* was full or two threads advertised at once (register_published_topic_with_daemon and
\* the queries of graph.rs; see GraphView).
NoneMissing ==
  /\ part = "view" => V!NoneMissing
  /\ part = "threads" => T!NoneMissing

\* As long as no endpoint has been destroyed, no session counts an endpoint that does not
\* exist or whose process has died (count_publishers and the queries like it, see GraphView).
NoneInvented ==
  /\ part = "view" => V!NoneInvented
  /\ part = "threads" => T!NoneInvented
=============================================================================
