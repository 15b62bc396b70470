------------------------------ MODULE PeerSync ------------------------------
(***************************************************************************)
(* Graph synchronisation between the daemons of two hosts.                 *)
(*                                                                         *)
(* Each daemon says HELLO over UDP with a generation that it raises when   *)
(* its monitor has set topology_changed.  A daemon that hears a generation *)
(* it has not recorded connects to the peer, pushes its own nodes and gets *)
(* the peer's.  One domain and one topic: a node has no topic yet, or it   *)
(* publishes and subscribes to the topic, so that two nodes with the topic *)
(* match.  The slots of the node table are in NodeTable; here a table is a *)
(* function from nodes to what it says of them.                            *)
(*                                                                         *)
(* Generations are kept relative: what matters is whether the generation a *)
(* HELLO carries, or a daemon has recorded, is the sender's current one.   *)
(***************************************************************************)
EXTENDS Integers, FiniteSets

CONSTANTS
  Daemons,      \* two of them
  NodesOf,      \* the nodes of each daemon's host
  MaxChanges,   \* bound on the changes of local graphs
  MaxFailures,  \* bound on the failures of sync connections
  MaxSilences,  \* bound on the times no HELLO arrives for 10 s
  Watch         \* is it recorded whether syncs cross, and which nodes have expired?

ASSUME PeerSyncAssumption ==
  /\ Cardinality(Daemons) = 2
  /\ DOMAIN NodesOf = Daemons
  /\ {MaxChanges, MaxFailures, MaxSilences} \subseteq Nat
  /\ Watch \in BOOLEAN

VARIABLES
  table,     \* table[d][n]: d's node table, of local and remote nodes
  matches,   \* matches[d]: the pairs of nodes matched in d's table
  flag,      \* topology_changed
  wire,      \* wire[d]: the HELLO of d that is on its way, if any
  known,     \* known[d]: known_peers of d
  sync,      \* sync[d]: the graph sync that d's sync thread is in
  crossed,   \* history, if watched: have both daemons been in a sync at once, without one
             \* of them having completed another sync alone since?  "mending" in such a sync
  lapsed,    \* lapsed[d]: history, if watched: the nodes that have expired since d last
             \* merged the nodes of its peer
  changes, failures, silences

vars == <<table, matches, flag, wire, known, sync, crossed, lapsed, changes, failures, silences>>

Nodes == UNION {NodesOf[d] : d \in Daemons}
Peer(d) == CHOOSE e \in Daemons : e # d

----------------------------------------------------------------------------
Local(d) == [n \in NodesOf[d] |-> table[d][n]]      \* collect_domain_nodes
View(d) == [n \in NodesOf[Peer(d)] |-> table[d][n]] \* what d has of its peer
Active(g) == {n \in DOMAIN g : g[n] # "absent"}

\* Does active_domains include the domain?
Domain(d) == Active(Local(d)) # {}

\* The matches that process_topic_updates finds in a table.
Pairs(g) ==
  {p \in SUBSET Nodes : Cardinality(p) = 2 /\ \A n \in p : g[n] = "topic"}

NoHello == [gen |-> "none", domain |-> FALSE]
Unknown == [gen |-> "none", domain |-> FALSE]
NoSync == [pc |-> "idle"]

\* The daemons have not heard of each other; what each has of its own nodes is local.
Started(local) ==
  /\ table = [d \in Daemons |-> [n \in Nodes |-> IF n \in NodesOf[d] THEN local ELSE "absent"]]
  /\ matches = [d \in Daemons |-> {}]
  /\ flag = [d \in Daemons |-> local # "absent"]
  /\ wire = [d \in Daemons |-> NoHello]
  /\ known = [d \in Daemons |-> Unknown]
  /\ sync = [d \in Daemons |-> NoSync]
  /\ crossed = IF Watch THEN "no" ELSE "yes"
  /\ lapsed = [d \in Daemons |-> {}]

Init == Started("absent") /\ changes = 0 /\ failures = 0 /\ silences = 0

----------------------------------------------------------------------------
(* The local sessions and the monitor thread *)

Change(d, n, before, after) ==
  /\ changes < MaxChanges
  /\ changes' = changes + 1
  /\ n \in NodesOf[d]
  /\ table[d][n] \in before
  /\ table' = [table EXCEPT ![d][n] = after]

\* process_pending_registrations: Pending -> Active.  The session may have
\* advertised the topic by then.
Register(d, n) ==
  /\ \E after \in {"bare", "topic"} : Change(d, n, {"absent"}, after)
  /\ matches' = [matches EXCEPT ![d] = @ \cup {p \in Pairs(table'[d]) : n \in p}]
  /\ flag' = [flag EXCEPT ![d] = TRUE]
  /\ UNCHANGED <<wire, known, sync, crossed, failures, silences, lapsed>>

\* register_published_topic_with_daemon: only the header's generation, which
\* nobody reads, tells of it.
Advertise(d, n) ==
  /\ Change(d, n, {"bare"}, "topic")
  /\ UNCHANGED <<matches, flag, wire, known, sync, failures, crossed, silences, lapsed>>

\* process_departed_nodes: a local process has left or died.
Depart(d, n) ==
  /\ Change(d, n, {"bare", "topic"}, "absent")
  /\ matches' = [matches EXCEPT ![d] = {p \in @ : n \notin p}]
  /\ flag' = [flag EXCEPT ![d] = TRUE]
  /\ UNCHANGED <<wire, known, sync, failures, crossed, silences, lapsed>>

\* process_topic_updates, by the monitor thread.
Monitor(d) ==
  /\ matches[d] # Pairs(table[d])
  /\ matches' = [matches EXCEPT ![d] = Pairs(table[d])]
  /\ flag' = [flag EXCEPT ![d] = TRUE]
  /\ UNCHANGED <<table, wire, known, sync, changes, failures, crossed, silences, lapsed>>

\* process_departed_nodes: 30 s after the sync that brought it, a remote node
\* is dropped.  The generation that d has recorded of the peer stays; its own is raised,
\* which makes the peer sync again.
Expire(d, n) ==
  /\ n \in Active(View(d))
  /\ table' = [table EXCEPT ![d][n] = "absent"]
  /\ matches' = [matches EXCEPT ![d] = {p \in @ : n \notin p}]
  /\ flag' = [flag EXCEPT ![d] = TRUE]
  /\ UNCHANGED <<wire, known, sync, changes, failures, crossed, silences>>
  /\ lapsed' = [lapsed EXCEPT ![d] = IF Watch THEN @ \cup {n} ELSE @]

----------------------------------------------------------------------------
(* HELLO *)

Older(hello) == IF hello.gen = "current" THEN [hello EXCEPT !.gen = "old"] ELSE hello

HelloSend_NoGeneration(d, arrives) ==
  /\ flag' = [flag EXCEPT ![d] = FALSE]
  /\ wire' = [wire EXCEPT ![d] =
                IF arrives THEN [gen |-> "current", domain |-> Domain(d)] ELSE @]
  /\ UNCHANGED <<table, matches, known, sync, crossed, changes, failures, silences, lapsed>>

\* The HELLO thread: a change raises the generation, so what the peer has
\* recorded, or is about to hear, is no longer the current one.  A HELLO may be
\* lost, and one that arrives replaces an older one that has not been read.
HelloSend(d, arrives) ==
  LET aged(hello) == IF flag[d] THEN Older(hello) ELSE hello
  IN /\ flag' = [flag EXCEPT ![d] = FALSE]
     /\ wire' = [wire EXCEPT ![d] =
                   IF arrives THEN [gen |-> "current", domain |-> Domain(d)]
                              ELSE aged(@)]
     /\ known' = [known EXCEPT ![Peer(d)] = aged(@)]
     /\ UNCHANGED <<table, matches, sync, crossed, changes, failures, silences, lapsed>>

Idle(d) == sync[d].pc = "idle"

\* Does the HELLO call for a sync?
record_peer_hello(d, hello, newer) ==
  \/ known[d].gen = "none"
  \/ known[d].gen = "old" /\ (hello.gen = "current" \/ newer)
  \/ known[d].domain # Domain(d)

\* The sync thread takes a HELLO of the peer.  It starts a sync if both have
\* the domain.
HelloReceive(d) ==
  LET hello == wire[Peer(d)]
      vacant == known[d].gen = "none"
  IN /\ Idle(d)
     /\ hello # NoHello
     /\ \E newer \in BOOLEAN :
          LET raised == known[d].gen = "old" /\ (hello.gen = "current" \/ newer)
              changed == record_peer_hello(d, hello, newer)
          IN /\ known' = [known EXCEPT ![d] =
                            [gen |-> IF vacant \/ raised THEN hello.gen ELSE @.gen,
                             domain |-> Domain(d)]]
             /\ sync' = IF changed /\ hello.domain /\ Domain(d)
                        THEN [sync EXCEPT ![d] = [pc |-> "connect"]]
                        ELSE sync
     /\ wire' = [wire EXCEPT ![Peer(d)] = NoHello]
     /\ UNCHANGED <<table, matches, flag, changes, failures, crossed, silences, lapsed>>

\* No HELLO for 10 s: the peer is forgotten with its nodes.
Silence(d) ==
  /\ Idle(d)
  /\ silences < MaxSilences
  /\ silences' = silences + 1
  /\ known[d] # Unknown
  /\ known' = [known EXCEPT ![d] = Unknown]
  /\ table' = [table EXCEPT ![d] =
                 [n \in Nodes |-> IF n \in NodesOf[d] THEN @[n] ELSE "absent"]]
  /\ matches' = [matches EXCEPT ![d] = {p \in @ : p \subseteq NodesOf[d]}]
  /\ flag' = [flag EXCEPT ![d] = TRUE]
  /\ UNCHANGED <<wire, sync, changes, failures, crossed, lapsed>>

----------------------------------------------------------------------------
(* Graph sync *)

\* A table after merging the peer's nodes, and the matches that survive: those
\* of a node that has gone or changed are dropped.
Merged(d, nodes) == [n \in Nodes |-> IF n \in DOMAIN nodes THEN nodes[n] ELSE table[d][n]]
Kept(d, nodes) ==
  {p \in matches[d] : \A n \in p \cap DOMAIN nodes : nodes[n] = table[d][n]}

\* d sends the request with its nodes.
Push(d) ==
  /\ sync[d].pc = "connect"
  /\ sync' = [sync EXCEPT ![d] = [pc |-> "request", nodes |-> Local(d)]]
  /\ crossed' = CASE ~Idle(Peer(d)) -> "yes"
                  [] Idle(Peer(d)) /\ Watch /\ crossed = "yes" -> "mending"
                  [] OTHER -> crossed
  /\ UNCHANGED <<table, matches, flag, wire, known, changes, failures, silences, lapsed>>

\* handle_sync_payload at the peer: it merges and answers with its own nodes.
Serve(d) ==
  LET p == Peer(d)
  IN /\ sync[d].pc = "request"
     /\ table' = [table EXCEPT ![p] = Merged(p, sync[d].nodes)]
     /\ matches' = [matches EXCEPT ![p] = Kept(p, sync[d].nodes)]
     /\ sync' = [sync EXCEPT ![d] = [pc |-> "response", nodes |-> Local(p)]]
     /\ UNCHANGED <<flag, wire, known, changes, failures, crossed, silences>>
     /\ lapsed' = [lapsed EXCEPT ![p] = {}]

\* d merges the answer; the matches it then finds do not set topology_changed.
Pull(d) ==
  /\ sync[d].pc = "response"
  /\ table' = [table EXCEPT ![d] = Merged(d, sync[d].nodes)]
  /\ matches' = [matches EXCEPT ![d] = Pairs(table'[d])]
  /\ sync' = [sync EXCEPT ![d] = NoSync]
  /\ UNCHANGED <<flag, wire, known, changes, failures, silences>>
  /\ crossed' = IF crossed = "mending" THEN "no" ELSE crossed
  /\ lapsed' = [lapsed EXCEPT ![d] = {}]

\* The connection fails: the generation is forgotten, for the next HELLO to
\* try again.
SyncFails(d) ==
  /\ ~Idle(d)
  /\ failures < MaxFailures
  /\ failures' = failures + 1
  /\ sync' = [sync EXCEPT ![d] = NoSync]
  /\ known' = [known EXCEPT ![d] = Unknown]
  /\ crossed' = IF crossed = "mending" THEN "yes" ELSE crossed
  /\ UNCHANGED <<table, matches, flag, wire, changes, silences, lapsed>>

----------------------------------------------------------------------------
Next ==
  \E d \in Daemons :
    \/ \E n \in Nodes : Register(d, n) \/ Advertise(d, n) \/ Depart(d, n) \/ Expire(d, n)
    \/ Monitor(d)
    \/ \E arrives \in BOOLEAN : HelloSend(d, arrives)
    \/ HelloReceive(d) \/ Silence(d)
    \/ Push(d) \/ Serve(d) \/ Pull(d) \/ SyncFails(d)

Spec == Init /\ [][Next]_vars

\* HELLOs are sent every 500 ms and not all of them are lost; the threads of a
\* daemon run, and a timer that has run out is noticed.
Fairness ==
  \A d \in Daemons :
    /\ WF_vars(HelloSend(d, TRUE))
    /\ SF_vars(wire[Peer(d)].gen = "current" /\ HelloReceive(d))
    /\ WF_vars(Monitor(d))
    /\ WF_vars(Push(d) \/ Serve(d) \/ Pull(d))
    /\ WF_vars(\E n \in Nodes : Expire(d, n))

FairSpec == Spec /\ Fairness

----------------------------------------------------------------------------
(* Properties *)

Entry == {"absent", "bare", "topic"}

\* The types of the variables; a match is between nodes that are in the table.
TypeOK ==
  /\ table \in [Daemons -> [Nodes -> Entry]]
  /\ \A d \in Daemons : \A p \in matches[d] :
       Cardinality(p) = 2 /\ p \subseteq Active(table[d])
  /\ flag \in [Daemons -> BOOLEAN]
  /\ \A d \in Daemons : {wire[d].gen, known[d].gen} \subseteq {"none", "old", "current"}
  /\ crossed \in {"no", "mending", "yes"} /\ lapsed \in [Daemons -> SUBSET Nodes]
  /\ \A d \in Daemons : sync[d].pc \in {"idle", "connect", "request", "response"}

\* d has recorded the current generation of its peer and nothing is on its way.
UpToDate(d) ==
  /\ known[d].gen = "current"
  /\ ~flag[Peer(d)]
  /\ \A e \in Daemons : Idle(e) /\ Domain(e)
  /\ known[d].domain

\* "The generation identifies topology revisions": a daemon that has recorded the current
\* generation of its peer has exactly the nodes that are there, but for those that have
\* expired since it last merged them; and none has when the peer, too, has recorded the
\* current generation of the daemon, which the expiry has raised.
NodeRevision ==
  \A d \in Daemons :
    UpToDate(d) => /\ Active(View(d)) = Active(Local(Peer(d))) \ lapsed[d]
                   /\ UpToDate(Peer(d)) => lapsed[d] = {}

\* It does, unless the syncs of the two daemons have crossed, when an older answer can be
\* merged over a newer push: then from the next sync that one of them completes alone.
NodeRevisionUncrossed == crossed = "no" => NodeRevision

\* The same of what the nodes advertise.  It does not hold: Advertise sets no flag.
TopicRevision == \A d \in Daemons : UpToDate(d) => View(d) = Local(Peer(d))

\* Whatever is lost, each host comes back again and again to a state where it has
\* what the nodes of the other host advertise or, where one of them has no node in
\* the domain and they do not sync, where it has forgotten the nodes that are gone.
InSync(d) ==
  IF Domain(d) /\ Domain(Peer(d)) THEN View(d) = Local(Peer(d))
  ELSE Active(View(d)) \subseteq Active(Local(Peer(d)))
SyncedAgain == \A d \in Daemons : []<>InSync(d)

\* "Peers still receive periodic HELLOs for liveness": a node of a live peer
\* that has not left stays in the table.  It does not hold: Expire drops it when
\* nothing has changed for 30 s.
StaysWhileAlive ==
  [][\A d \in Daemons : \A n \in NodesOf[Peer(d)] :
       /\ silences' = silences
       /\ n \in Active(View(d)) /\ n \in Active(Local(Peer(d)))
       /\ n \in Active(Local(Peer(d)))'
       => n \in Active(View(d))']_vars

=============================================================================
