----------------------------- MODULE NodeTable ------------------------------
(***************************************************************************)
(* The node table that a daemon shares with the sessions of its host.      *)
(*                                                                         *)
(* A session claims an empty slot by compare-and-swap, fills it and marks  *)
(* it Pending; the daemon's monitor thread makes it Active, and clears the *)
(* slots of sessions that leave or die.  Two more threads of the daemon,   *)
(* the acceptor and the sync thread, enter the nodes of a peer daemon.  No *)
(* lock protects a slot: the order of its writes is what matters, so a     *)
(* store to the state and the writes to the other fields are steps of      *)
(* their own.  A slot's topics and matches are in RemoteRoutes, PeerSync.  *)
(***************************************************************************)
EXTENDS Integers, FiniteSets

CONSTANTS
  Slots,       \* MAX_NODES of them
  Sessions,    \* the nodes of this host, each in a process of its own
  Remotes,     \* the nodes of the peer daemon's host
  Mergers,     \* which threads merge: "acceptor" (a push), "sync" (an answer)
  None,        \* no node, no process
  MaxMerges,   \* bound on merges
  MaxExpiries  \* bound on entries dropped for their age

ASSUME NodeTableAssumption ==
  /\ Mergers \subseteq {"acceptor", "sync"}
  /\ 0 \notin Slots
  /\ Sessions \cap Remotes = {} /\ None \notin Sessions \cup Remotes
  /\ {MaxMerges, MaxExpiries} \subseteq Nat

VARIABLES
  slot,     \* slot[i]: state, node_id, pid and daemon_origin of slot i
  session,  \* session[s]: where the process of s is, and its daemon_slot
  monitor,  \* the slot that the monitor thread is wiping, or NoSlot
  merger,   \* merger[m]: where merging thread m is
  merges, expiries,
  raced     \* history: has a slot been taken that a thread of the daemon had
            \* in hand, were there two merges at once, or has a Pending lapsed?

vars == <<slot, session, monitor, merger, merges, expiries, raced>>

NoSlot == 0
Blank == [st |-> "empty", node |-> None, pid |-> None, origin |-> "local"]
Off == [pc |-> "off", idx |-> NoSlot]
Rest == [pc |-> "rest", nodes |-> {}, node |-> None, idx |-> NoSlot]

Init ==
  /\ slot = [i \in Slots |-> Blank]
  /\ session = [s \in Sessions |-> Off]
  /\ monitor = NoSlot
  /\ merger = [m \in Mergers |-> Rest]
  /\ merges = 0 /\ expiries = 0 /\ raced = FALSE

----------------------------------------------------------------------------
Store(i, st) == slot' = [slot EXCEPT ![i].st = st]

\* Everything but the state is reset: the tail of clear_node_entry.
Wiped(i) == [Blank EXCEPT !.st = slot[i].st]

\* Does a thread of the daemon have slot i in hand?
InHand(i) == monitor = i \/ \E m \in Mergers : merger[m].idx = i
Take(i) == raced' = (raced \/ InHand(i))

----------------------------------------------------------------------------
(* Sessions: with_quic and unregister_from_daemon *)

At(s, pc) == session[s].pc = pc
Alive(s) == session[s].pc \notin {"dead", "gone"}
Goto(s, pc) == session' = [session EXCEPT ![s].pc = pc]

\* claim_free_slot: compare-and-swap of the state; a slot freed meanwhile behind
\* the scan is not seen, so any slot that is empty may be the one.
Claim(s) ==
  /\ At(s, "off")
  /\ \E i \in Slots :
       /\ slot[i].st = "empty"
       /\ Store(i, "claiming")
       /\ session' = [session EXCEPT ![s] = [pc |-> "claimed", idx |-> i]]
       /\ Take(i)
  /\ UNCHANGED <<monitor, merger, merges, expiries>>

\* The entry is filled; daemon_origin is not written.
Fill(s) ==
  /\ At(s, "claimed")
  /\ slot' = [slot EXCEPT ![session[s].idx].node = s, ![session[s].idx].pid = s]
  /\ Goto(s, "filled")
  /\ UNCHANGED <<monitor, merger, merges, expiries, raced>>

Pending(s) ==
  /\ At(s, "filled")
  /\ Store(session[s].idx, "pending")
  /\ Goto(s, "up")
  /\ UNCHANGED <<monitor, merger, merges, expiries, raced>>

\* unregister_from_daemon, and the end of the process. Between the load of Pending and the
\* store of Active in process_pending_registrations the store of Leaving is lost: the entry
\* is then an active one of a process that is gone.
Leave(s) ==
  /\ At(s, "up")
  /\ \/ Store(session[s].idx, "leaving")
     \/ /\ monitor = NoSlot
        /\ slot[session[s].idx].st = "pending"
        /\ Store(session[s].idx, "active")
  /\ Goto(s, "gone")
  /\ UNCHANGED <<monitor, merger, merges, expiries, raced>>

Crash(s) ==
  /\ session[s].pc \in {"claimed", "filled", "up"}
  /\ Goto(s, "dead")
  /\ UNCHANGED <<slot, monitor, merger, merges, expiries, raced>>

----------------------------------------------------------------------------
(* The monitor thread *)

\* process_pending_registrations: the load and the store, with no unregister in between
\* (see Leave).
Activate(i) ==
  /\ monitor = NoSlot
  /\ slot[i].st = "pending"
  /\ Store(i, "active")
  /\ UNCHANGED <<session, monitor, merger, merges, expiries, raced>>

\* The process of the entry does not exist.
Dead(e) == e.pid # None /\ ~Alive(e.pid)

Departed_LeavingOnly(e) ==
  \/ e.st = "leaving"
  \/ e.st = "active" /\ e.origin = "local" /\ e.pid = None /\ e.node # None

\* process_departed_nodes: which entries go.  A local entry without a process
\* goes after 10 s; one with a live process is renewed by the monitor itself.
Departed(e) ==
  \/ e.st = "leaving"
  \/ e.st = "active" /\ Dead(e)
  \/ e.st = "active" /\ e.origin = "local" /\ e.pid = None /\ e.node # None

\* The first store of the clearing makes the slot free to claim ...
Release(i) ==
  /\ monitor = NoSlot
  /\ Departed(slot[i])
  /\ Store(i, "empty")
  /\ monitor' = i
  /\ Take(i)
  /\ UNCHANGED <<session, merger, merges, expiries>>

\* ... also that of a remote node 30 s after the sync that brought it ...
Expire(i) ==
  /\ monitor = NoSlot
  /\ expiries < MaxExpiries
  /\ expiries' = expiries + 1
  /\ slot[i].st = "active" /\ slot[i].pid = None /\ slot[i].origin = "remote"
  /\ Store(i, "empty")
  /\ monitor' = i
  /\ Take(i)
  /\ UNCHANGED <<session, merger, merges>>

\* ... also that of a session that took 2 s from filling it to Pending, or
\* whose clock was set in between ...
Lapse(i) ==
  /\ monitor = NoSlot
  /\ expiries < MaxExpiries
  /\ expiries' = expiries + 1
  /\ slot[i].st = "pending"
  /\ Store(i, "empty")
  /\ monitor' = i
  /\ raced' = TRUE
  /\ UNCHANGED <<session, merger, merges>>

\* ... and the other fields follow.
Wipe ==
  /\ monitor # NoSlot
  /\ slot' = [slot EXCEPT ![monitor] = Wiped(monitor)]
  /\ monitor' = NoSlot
  /\ UNCHANGED <<session, merger, merges, expiries, raced>>

----------------------------------------------------------------------------
(* The merging threads *)

MergerAt(m, pc) == merger[m].pc = pc
Move(m, pc) == merger' = [merger EXCEPT ![m].pc = pc]

\* merge_remote_nodes, or the sync thread with an answer: the peer has these.
Merge(m, nodes) ==
  /\ MergerAt(m, "rest")
  /\ merges < MaxMerges
  /\ merges' = merges + 1
  /\ merger' = [merger EXCEPT ![m] = [Rest EXCEPT !.pc = "clear", !.nodes = nodes]]
  /\ raced' = (raced \/ \E k \in Mergers : ~MergerAt(k, "rest"))
  /\ UNCHANGED <<slot, session, monitor, expiries>>

Stale_AnyOrigin(m, e) == e.st # "empty" /\ e.node \notin merger[m].nodes
Stale(m, e) == e.st # "empty" /\ e.origin = "remote" /\ e.node \notin merger[m].nodes

\* An entry of the peer that it no longer has is cleared, in two steps.
MergeRelease(m, i) ==
  /\ MergerAt(m, "clear")
  /\ Stale(m, slot[i])
  /\ Store(i, "empty")
  /\ Take(i)
  /\ merger' = [merger EXCEPT ![m].pc = "wipe", ![m].idx = i]
  /\ UNCHANGED <<session, monitor, merges, expiries>>

MergeWipe(m) ==
  /\ MergerAt(m, "wipe")
  /\ slot' = [slot EXCEPT ![merger[m].idx] = Wiped(merger[m].idx)]
  /\ merger' = [merger EXCEPT ![m].pc = "clear", ![m].idx = NoSlot]
  /\ UNCHANGED <<session, monitor, merges, expiries, raced>>

MergeCleared(m) ==
  /\ MergerAt(m, "clear")
  /\ \A i \in Slots : ~Stale(m, slot[i])
  /\ Move(m, "place")
  /\ UNCHANGED <<slot, session, monitor, merges, expiries, raced>>

Having(n) == {i \in Slots : slot[i].st # "empty" /\ slot[i].node = n}
Free == {i \in Slots : slot[i].st = "empty"}

Choices_Free(n) == Free

\* The slot of a node is the one it has, or one that is free now.
Choices(n) == IF Having(n) # {} THEN Having(n) ELSE Free

MergePick(m) ==
  /\ MergerAt(m, "place")
  /\ \E n \in merger[m].nodes : \E i \in Choices(n) :
       /\ merger' = [merger EXCEPT ![m] =
                       [pc |-> CASE m = "sync" -> "state"
                                 [] m = "acceptor" /\ Having(n) = {} -> "blank"
                                 [] OTHER -> "write",
                        nodes |-> @.nodes \ {n}, node |-> n, idx |-> i]]
       /\ Take(i)
  /\ UNCHANGED <<slot, session, monitor, merges, expiries>>

\* A new entry is first cleared, the state included.
MergeBlank(m) ==
  /\ MergerAt(m, "blank")
  /\ slot' = [slot EXCEPT ![merger[m].idx] = Blank]
  /\ Move(m, "write")
  /\ UNCHANGED <<session, monitor, merges, expiries, raced>>

Placed(m) == merger' = [merger EXCEPT ![m].pc = "place", ![m].node = None, ![m].idx = NoSlot]

\* The fields are written, by the acceptor before the state and by the sync
\* thread after it.
MergeWrite(m) ==
  /\ MergerAt(m, "write")
  /\ slot' = [slot EXCEPT ![merger[m].idx] =
                [st |-> @.st, node |-> merger[m].node, pid |-> None, origin |-> "remote"]]
  /\ IF m = "sync" THEN Placed(m) ELSE Move(m, "state")
  /\ UNCHANGED <<session, monitor, merges, expiries, raced>>

MergeState(m) ==
  /\ MergerAt(m, "state")
  /\ Store(merger[m].idx, "active")
  /\ IF m = "sync" THEN Move(m, "write") ELSE Placed(m)
  /\ UNCHANGED <<session, monitor, merges, expiries, raced>>

\* All nodes are placed, or no slot is free.
MergeDone(m) ==
  /\ MergerAt(m, "place")
  /\ \A n \in merger[m].nodes : Choices(n) = {}
  /\ merger' = [merger EXCEPT ![m] = Rest]
  /\ UNCHANGED <<slot, session, monitor, merges, expiries, raced>>

----------------------------------------------------------------------------
Monitor == Wipe \/ \E i \in Slots : Activate(i) \/ Release(i)
Age == \E i \in Slots : Expire(i) \/ Lapse(i)

MergeStep(m) ==
  \/ \E i \in Slots : MergeRelease(m, i)
  \/ MergeWipe(m) \/ MergeCleared(m) \/ MergePick(m) \/ MergeBlank(m)
  \/ MergeWrite(m) \/ MergeState(m) \/ MergeDone(m)

Next ==
  \/ \E s \in Sessions : Claim(s) \/ Fill(s) \/ Pending(s) \/ Leave(s) \/ Crash(s)
  \/ Monitor \/ Age
  \/ \E m \in Mergers : MergeStep(m) \/ \E nodes \in SUBSET Remotes : Merge(m, nodes)

Spec == Init /\ [][Next]_vars

\* The monitor thread goes on looping, and so does a merge.
FairSpec == Spec /\ WF_vars(Monitor) /\ \A m \in Mergers : WF_vars(MergeStep(m))

----------------------------------------------------------------------------
(* Properties *)

States == {"empty", "claiming", "pending", "active", "leaving"}

Entries == [st : States, node : Sessions \cup Remotes \cup {None},
            pid : Sessions \cup {None}, origin : {"local", "remote"}]
SessionStates == [pc : {"off", "claimed", "filled", "up", "gone", "dead"}, idx : Slots \cup {NoSlot}]
MergerStates == [pc : {"rest", "clear", "wipe", "place", "blank", "write", "state"},
                 nodes : SUBSET Remotes, node : Remotes \cup {None}, idx : Slots \cup {NoSlot}]

\* The types of the variables; a session that has come as far as claiming has a slot, and a
\* merging thread has one in hand exactly while it clears or writes it.
TypeOK ==
  /\ slot \in [Slots -> Entries]
  /\ session \in [Sessions -> SessionStates]
  /\ \A s \in Sessions : At(s, "off") <=> session[s].idx = NoSlot
  /\ monitor \in Slots \cup {NoSlot}
  /\ merger \in [Mergers -> MergerStates]
  /\ \A m \in Mergers :
       merger[m].idx = NoSlot <=> merger[m].pc \in {"rest", "clear", "place"}
  /\ {merges, expiries} \subseteq Nat /\ raced \in BOOLEAN

\* "Callers must only write to slots they own": the slot of a session that is
\* registered and alive says so.
Identity ==
  \A s \in Sessions : At(s, "up") =>
    /\ slot[session[s].idx].node = s /\ slot[session[s].idx].pid = s
    /\ slot[session[s].idx].origin = "local"

\* find_slot_by_node_id: a node is in one slot only.
Unique ==
  \A i, j \in Slots :
    slot[i].node # None /\ slot[i].node = slot[j].node
    /\ slot[i].st # "empty" /\ slot[j].st # "empty" => i = j

\* "use the state / generation atomics to publish changes": an Active entry is
\* a complete one.  Only the sync thread breaks this, in the slot it has in hand.
Published ==
  \A i \in Slots :
    slot[i].st = "active" /\ slot[i].node = None
    => \E m \in Mergers : m = "sync" /\ merger[m].idx = i

\* None of the three holds as it stands.  They hold unless a slot is taken that a thread
\* of the daemon has in hand, two threads merge at once, or a Pending entry lapses
\* (process_departed_nodes, merge_remote_nodes, claim_slot).
IdentityUnlessRaced == raced \/ Identity

\* On the same condition a node is in one slot only, and an Active slot is a complete one.
PublishedOnceUnlessRaced == raced \/ (Unique /\ Published)

\* process_departed_nodes: the slot of a process that has died or left after it
\* registered has still to be freed, and no race has given the slot away.
Unreclaimed(s) ==
  ~raced /\ ~Alive(s) /\ \E i \in Slots : slot[i].node = s /\ slot[i].st \in {"pending", "active", "leaving"}

=============================================================================
