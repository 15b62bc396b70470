---------------------------- MODULE QkdSessions -----------------------------
(***************************************************************************)
(* The QKD bootstrap between the daemons of two hosts.                     *)
(*                                                                         *)
(* Daemons tell each other their ids in heartbeats.  The one with the      *)
(* lower id gets a key from its key manager (KME) and announces the key's  *)
(* id; the other one retrieves the key with that id from its own KME,      *)
(* makes it the active session with this daemon, and acknowledges; the     *)
(* acknowledgement makes the session active on the first side.  Graphs are *)
(* synchronised over connections that the session's key authenticates.     *)
(*                                                                         *)
(* A daemon gets a new random id when it starts, and its store of sessions *)
(* is reset.  All three messages are UDP datagrams: they are lost,         *)
(* repeated and reordered.  A key is its number, in the order of creation; *)
(* the KME hands out each key once to each side.                           *)
(***************************************************************************)
EXTENDS Integers, FiniteSets

CONSTANTS
  MaxIds,     \* bound on the ids that daemons draw
  MaxKeys,    \* bound on the keys that the KME makes
  MaxFaults   \* bound on restarts, lost datagrams, KME failures and lapses

Hosts == 1..2
Peer(h) == 3 - h
Ids == 1..MaxIds

NoKey == 0
Keys == 1..MaxKeys
None == [key |-> NoKey, active |-> FALSE]
Pending(k) == [key |-> k, active |-> FALSE]
Active(k) == [key |-> k, active |-> TRUE]

VARIABLES
  id,       \* id[h]: the id of the daemon of h
  used,     \* the ids that have been drawn
  session,  \* session[h][i]: the store of h, for the remote daemon i
  known,    \* known[h]: known_peers, the ids whose last HELLO needs no more work
  synced,   \* synced[h]: the daemon with which h has synchronised last
  net,      \* the datagrams on their way
  made,     \* the number of keys made
  taken,    \* the keys that were retrieved with their id
  faults,
  split     \* history: did the two sides come apart (see below)?

vars == <<id, used, session, known, synced, net, made, taken, faults, split>>

Init ==
  /\ id \in {f \in [Hosts -> Ids] : f[1] < f[2]}  \* the hosts are named by their first ids
  /\ used = {id[1], id[2]}
  /\ session = [h \in Hosts |-> [i \in Ids |-> None]]
  /\ known = [h \in Hosts |-> {}]
  /\ synced = [h \in Hosts |-> 0]
  /\ net = {} /\ made = 0 /\ taken = {} /\ faults = 0 /\ split = FALSE

----------------------------------------------------------------------------
(* The store *)

find_for_daemon(h, i) == session[h][i]
has_active_session(h, i) == session[h][i].active
find_by_key_id_for_tls(h, k) == {i \in Ids : session[h][i].key = k}

\* The store has 32 entries, and when all are in use entry 0 is overwritten: here every id
\* has an entry, so no more than 32 daemons have been met since the store was reset.
put(h, i, s) == session' = [session EXCEPT ![h][i] = s]

Forget(h, i) == known' = [known EXCEPT ![h] = @ \ {i}]
Fault == faults < MaxFaults /\ faults' = faults + 1

\* A datagram is handled, and may come again, but a HELLO is followed by others anyway.
Received(m, answers) ==
  net' \in {(net \ {m}) \cup answers} \cup (IF m.type = "hello" THEN {} ELSE {net \cup answers})

----------------------------------------------------------------------------
(* The heartbeat, and what a daemon does about one *)

Hello(h) ==
  /\ net' = net \cup {[type |-> "hello", to |-> Peer(h), id |-> id[h]]}
  /\ UNCHANGED <<id, used, session, known, synced, made, taken, faults, split>>

Announcement(h, k) == [type |-> "announce", to |-> Peer(h), id |-> id[h], key |-> k]
Ack(h, k) == [type |-> "ack", to |-> Peer(h), key |-> k]

\* The announcement of the key that h already has.
Announced(h, k) == {Announcement(h, k)}

\* get_encryption_key: the KME makes a key, which is pending until the other side has it.
Made(h, i) ==
  /\ made < MaxKeys /\ made' = made + 1
  /\ put(h, i, Pending(made + 1))

\* prepare_outbound: the key that h has for this daemon, or a new one.
Outbound(h, m) ==
  \/ /\ find_for_daemon(h, m.id).key # NoKey
     /\ Received(m, Announced(h, session[h][m.id].key))
     /\ UNCHANGED <<session, made, faults>>
  \/ /\ find_for_daemon(h, m.id).key = NoKey
     /\ Made(h, m.id)
     /\ Received(m, {Announcement(h, made + 1)})
     /\ UNCHANGED faults
  \/ /\ find_for_daemon(h, m.id).key = NoKey
     /\ Fault
     /\ Received(m, {})
     /\ UNCHANGED <<session, made>>

\* Does a connection that h opens with this key come about, and does the other side
\* accept the graph?
Accepts(h, i) ==
  /\ id[Peer(h)] = i
  /\ find_by_key_id_for_tls(Peer(h), session[h][i].key) # {}
  /\ has_active_session(Peer(h), id[h])

OnHello(h, m) ==
  /\ m \in net /\ m.type = "hello" /\ m.to = h
  /\ IF has_active_session(h, m.id)
     THEN /\ IF m.id \in known[h] \/ Accepts(h, m.id)
             THEN known' = [known EXCEPT ![h] = @ \cup {m.id}]
             ELSE Forget(h, m.id)
          /\ synced' = IF m.id \notin known[h] /\ Accepts(h, m.id)
                       THEN [synced EXCEPT ![h] = m.id] ELSE synced
          /\ Received(m, {})
          /\ UNCHANGED <<session, made, faults>>
     ELSE /\ IF id[h] < m.id THEN Outbound(h, m)
             ELSE Received(m, {}) /\ UNCHANGED <<session, made, faults>>
          /\ Forget(h, m.id)
          /\ UNCHANGED synced
  /\ UNCHANGED <<id, used, taken, split>>

----------------------------------------------------------------------------
(* The control messages *)

\* An announcement does not say for whom it is.  Has it come too late: with a key that its
\* sender does not have for this daemon, to one with a lower id, which should announce a key
\* itself, or to one that has acknowledged another key?
Strayed(h, m) ==
  /\ m.id = id[Peer(h)]
  /\ find_for_daemon(Peer(h), id[h]).key # m.key
  /\ id[h] < m.id \/ has_active_session(h, m.id)

\* accept_inbound: the key is there already, or the KME gives it, once.
Accepted(h, m) ==
  /\ \/ session[h][m.id].key = m.key /\ UNCHANGED <<taken, split>>
     \/ /\ session[h][m.id].key # m.key /\ m.key \notin taken
        /\ taken' = taken \cup {m.key}
        /\ split' = (split \/ Strayed(h, m))
  /\ put(h, m.id, Active(m.key))

\* An announcement is acknowledged when its key is accepted, and otherwise ignored.
OnAnnounce(h, m) ==
  /\ m \in net /\ m.type = "announce" /\ m.to = h
  /\ \/ /\ Accepted(h, m)
        /\ Received(m, {Ack(h, m.key)})
        /\ Forget(h, m.id)
        /\ UNCHANGED faults
     \/ /\ session[h][m.id].key # m.key
        /\ IF m.key \in taken THEN UNCHANGED faults ELSE Fault
        /\ Received(m, {})
        /\ UNCHANGED <<session, known, taken, split>>
  /\ UNCHANGED <<id, used, synced, made>>

Acknowledged_Any(h, k) == {i \in Ids : session[h][i].key # NoKey}

\* activate_outbound_by_key_id
Acknowledged(h, k) == find_by_key_id_for_tls(h, k)

OnAck(h, m) ==
  /\ m \in net /\ m.type = "ack" /\ m.to = h
  /\ Received(m, {})
  /\ \/ /\ Acknowledged(h, m.key) = {}
        /\ UNCHANGED <<session, known>>
     \/ \E i \in Acknowledged(h, m.key) :
          put(h, i, Active(session[h][i].key)) /\ Forget(h, i)
  /\ UNCHANGED <<id, used, synced, made, taken, faults, split>>

----------------------------------------------------------------------------
(* Time, and faults *)

\* No HELLO for 10 s: the peer is gone, or the way from it to h is.
Stale(h, i) ==
  /\ i \in known[h]
  /\ put(h, i, None)
  /\ Forget(h, i)
  /\ IF i = id[Peer(h)] THEN Fault /\ split' = (split \/ i < id[h])
                        ELSE UNCHANGED <<faults, split>>
  /\ UNCHANGED <<id, used, synced, net, made, taken>>

\* QkdKeyStore::reset
Cleared(h) == session' = [session EXCEPT ![h] = [i \in Ids |-> None]]

\* A new daemon, with a new daemon_node_id.
Restart(h) ==
  /\ Fault
  /\ \E i \in Ids \ used : id' = [id EXCEPT ![h] = i] /\ used' = used \cup {i}
  /\ Cleared(h)
  /\ known' = [known EXCEPT ![h] = {}]
  /\ synced' = [synced EXCEPT ![h] = 0]
  /\ UNCHANGED <<net, made, taken, split>>

Lose(m) ==
  /\ m \in net /\ m.type # "hello"
  /\ Fault
  /\ net' = net \ {m}
  /\ UNCHANGED <<id, used, session, known, synced, made, taken, split>>

Handle(h, m) == OnHello(h, m) \/ OnAnnounce(h, m) \/ OnAck(h, m)

Next ==
  \/ \E h \in Hosts : Hello(h) \/ Restart(h) \/ \E i \in Ids : Stale(h, i)
  \/ \E m \in net : Lose(m) \/ \E h \in Hosts : Handle(h, m)

Spec == Init /\ [][Next]_vars

\* Heartbeats go on, and a datagram that is not lost is handled.
FairSpec ==
  /\ Spec
  /\ \A h \in Hosts :
       /\ WF_vars(Hello(h))
       /\ WF_vars(\E m \in net : OnHello(h, m))
       /\ \A k \in Keys : /\ WF_vars(\E m \in net : m.type = "announce" /\ m.key = k /\ OnAnnounce(h, m))
                         /\ WF_vars(\E m \in net : m.type = "ack" /\ m.key = k /\ OnAck(h, m))

----------------------------------------------------------------------------
(* Properties *)

Datagrams ==
  [type : {"hello"}, to : Hosts, id : Ids]
    \cup [type : {"announce"}, to : Hosts, id : Ids, key : Keys]
    \cup [type : {"ack"}, to : Hosts, key : Keys]

TypeOK ==
  /\ id \in [Hosts -> Ids] /\ used \subseteq Ids
  /\ session \in [Hosts -> [Ids -> [key : Keys \cup {NoKey}, active : BOOLEAN]]]
  /\ known \in [Hosts -> SUBSET Ids] /\ synced \in [Hosts -> Ids \cup {0}]
  /\ net \subseteq Datagrams
  /\ made \in Keys \cup {NoKey} /\ taken \subseteq 1..made
  /\ faults \in 0..MaxFaults /\ split \in BOOLEAN

\* The two sides come apart when the daemon with the lower id has an active session that the
\* other one does not have, because then no one announces a key: the daemon with the higher
\* id alone has forgotten it (Stale), or has replaced it (Strayed).

\* A session that is active on the side that announced it is there on the other side,
\* with the same key: the acknowledgement was for this key (activate_outbound_by_key_id,
\* accept_inbound).
ActiveIsShared ==
  \A h \in Hosts : LET i == id[Peer(h)] IN
    id[h] < i /\ session[h][i].active /\ ~split => session[Peer(h)][id[h]] = session[h][i]

\* The two daemons have the same active session and have synchronised over it.
Together == \A h \in Hosts : session[h][id[Peer(h)]].active /\ synced[h] = id[Peer(h)]

=============================================================================
