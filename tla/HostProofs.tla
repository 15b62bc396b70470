----------------------------- MODULE HostProofs -----------------------------
(***************************************************************************)
(* Proofs about a host: about the node table that its sessions share with  *)
(* the daemon (NodeTable), for any number of slots, sessions, remote nodes *)
(* and threads that merge, and about the start of the daemon               *)
(* (DaemonStart), for any number of sessions, daemons and faults.          *)
(*                                                                         *)
(* Both properties of the table need more than they say: an entry is       *)
(* coherent with the session it names only if nobody else is about to wipe *)
(* or to overwrite it, so the invariant follows every slot that somebody   *)
(* has in hand (Freed, Placing).  That the sessions of a host are together *)
(* rests on what a daemon has left behind at each step of its start        *)
(* (Shown) and on the lock, which makes a spawned daemon the only one      *)
(* (OnlyChild).                                                            *)
(***************************************************************************)
EXTENDS MCHost, TLAPS

-----------------------------------------------------------------------------
(* The inductive invariant of the node table *)

\* The slot of a session, in the order in which the session fills it.
HeldBy(s) ==
  /\ At(s, "claimed") => slot[session[s].idx].st = "claiming" /\ slot[session[s].idx].node = None
  /\ At(s, "filled") => slot[session[s].idx].st = "claiming" /\ slot[session[s].idx].node = s
  /\ At(s, "up") => slot[session[s].idx].st \in {"pending", "active"} /\ slot[session[s].idx].node = s
Held == \A s \in Sessions : HeldBy(s)

\* Two sessions do not have the same slot before either has put its name into it.
ClaimedOnce ==
  \A s, t \in Sessions :
    At(s, "claimed") /\ At(t, "claimed") /\ session[s].idx = session[t].idx => s = t

\* What else an entry says follows from whose it is; an entry that is free and not blank is
\* in hand, and so is one that is Active and nobody's.
CoherentAt(i) ==
  /\ slot[i].pid = IF slot[i].node \in Sessions THEN slot[i].node ELSE None
  /\ slot[i].origin = IF slot[i].node \in Remotes THEN "remote" ELSE "local"
  /\ slot[i].node \in Sessions =>
       session[slot[i].node].idx = i /\ session[slot[i].node].pc \notin {"off", "claimed"}
  /\ slot[i].node \in Remotes => slot[i].st \in {"active", "empty"}
  /\ slot[i].node = None =>
       \/ slot[i].st \in {"empty", "claiming"}
       \/ slot[i].st = "active" /\ \E m \in Mergers : m = "sync" /\ merger[m].idx = i /\ MergerAt(m, "write")
  /\ slot[i].node # None /\ slot[i].st = "empty" => InHand(i)
Coherent == \A i \in Slots : CoherentAt(i)

\* The slot that the monitor is wiping stays free until it has.
Freed == monitor # NoSlot => slot[monitor].st = "empty" /\ \A m \in Mergers : merger[m].idx # monitor

OneMerges == \A m, k \in Mergers : ~MergerAt(m, "rest") /\ ~MergerAt(k, "rest") => m = k

\* The slot that a merge has in hand, and no other, is the one of the node it places.
PlacedBy(m) ==
  /\ MergerAt(m, "wipe") \/ MergerAt(m, "blank") => slot[merger[m].idx].st = "empty"
  /\ MergerAt(m, "blank") => m # "sync"
  /\ merger[m].pc \in {"blank", "write", "state"} =>
       /\ merger[m].node \in Remotes
       /\ \A j \in Slots : slot[j].st # "empty" /\ slot[j].node = merger[m].node => j = merger[m].idx
  /\ merger[m].pc \in {"write", "state"} =>
       /\ slot[merger[m].idx].st \in {"empty", "active"}
       /\ slot[merger[m].idx].node \in {None, merger[m].node}
  /\ MergerAt(m, "state") /\ m # "sync" => slot[merger[m].idx].node = merger[m].node
  /\ MergerAt(m, "write") /\ m = "sync" => slot[merger[m].idx].st = "active"
Placing == \A m \in Mergers : PlacedBy(m)

Orderly == Held /\ ClaimedOnce /\ Coherent /\ Freed /\ OneMerges /\ Placing /\ Unique
TableInv == TypeOK /\ (raced \/ Orderly)

-----------------------------------------------------------------------------
(* Lemmas about the node table *)

\* A store of an entry's state leaves the rest of the entry, and the other entries, alone
\* (NodeTableEntry's state).
LEMMA StoreChanges ==
  ASSUME TypeOK, NEW i \in Slots, NEW st \in States, Store(i, st)
  PROVE  /\ slot' \in [Slots -> Entries]
         /\ slot'[i].st = st /\ slot'[i].node = slot[i].node
         /\ slot'[i].pid = slot[i].pid /\ slot'[i].origin = slot[i].origin
         /\ \A j \in Slots : j # i => slot'[j] = slot[j]
BY Zenon DEF TypeOK, Store, Entries

\* A step of a session keeps the slot it has (Session::with_quic).
LEMMA GotoChanges ==
  ASSUME TypeOK, NEW s \in Sessions, NEW pc \in {"claimed", "filled", "up", "gone", "dead"}, Goto(s, pc)
  PROVE  /\ session' \in [Sessions -> SessionStates]
         /\ session'[s].pc = pc /\ session'[s].idx = session[s].idx
         /\ \A t \in Sessions : t # s => session'[t] = session[t]
BY Zenon DEF TypeOK, Goto, SessionStates

\* A step of a merge keeps the slot and the node it has in hand (merge_remote_nodes).
LEMMA MoveChanges ==
  ASSUME TypeOK, NEW m \in Mergers, NEW pc \in {"clear", "place", "write", "state"}, Move(m, pc)
  PROVE  /\ merger' \in [Mergers -> MergerStates]
         /\ merger'[m].pc = pc /\ merger'[m].idx = merger[m].idx
         /\ merger'[m].node = merger[m].node /\ merger'[m].nodes = merger[m].nodes
         /\ \A k \in Mergers : k # m => merger'[k] = merger[k]
BY Zenon DEF TypeOK, Move, MergerStates

\* A merge that takes a slot to clear keeps what it still has to place
\* (merge_remote_nodes).
LEMMA HandChanges ==
  ASSUME TypeOK, NEW m \in Mergers, NEW pc \in {"clear", "wipe"}, NEW i \in Slots \cup {NoSlot},
         merger' = [merger EXCEPT ![m].pc = pc, ![m].idx = i]
  PROVE  /\ merger' \in [Mergers -> MergerStates]
         /\ merger'[m].pc = pc /\ merger'[m].idx = i
         /\ merger'[m].node = merger[m].node /\ merger'[m].nodes = merger[m].nodes
         /\ \A k \in Mergers : k # m => merger'[k] = merger[k]
BY Zenon DEF TypeOK, MergerStates

\* A merge that is done with a node goes on with the next (merge_remote_nodes).
LEMMA PlacedChanges ==
  ASSUME TypeOK, NEW m \in Mergers, Placed(m)
  PROVE  /\ merger' \in [Mergers -> MergerStates]
         /\ merger'[m].pc = "place" /\ merger'[m].idx = NoSlot
         /\ merger'[m].node = None /\ merger'[m].nodes = merger[m].nodes
         /\ \A k \in Mergers : k # m => merger'[k] = merger[k]
BY Zenon DEF TypeOK, Placed, MergerStates

\* The steps of sessions, of the monitor and of the merges keep the types.
LEMMA TableTyped ==
  ASSUME TypeOK, [Next]_vars
  PROVE  TypeOK'
<1> USE NodeTableAssumption DEF NoSlot
<1>1. ASSUME NEW s \in Sessions, Claim(s) PROVE TypeOK'
  <2> PICK i \in Slots :
        /\ Store(i, "claiming")
        /\ session' = [session EXCEPT ![s] = [pc |-> "claimed", idx |-> i]]
        /\ Take(i)
    BY <1>1, Zenon DEF Claim
  <2>1. slot' \in [Slots -> Entries]
    BY StoreChanges, Zenon DEF States
  <2>2. session' \in [Sessions -> SessionStates]
    BY Zenon DEF TypeOK, SessionStates
  <2> QED BY <1>1, <2>1, <2>2, Zenon DEF TypeOK, Claim, At, Take
<1>2. ASSUME NEW s \in Sessions, Fill(s) PROVE TypeOK'
  <2>1. session[s].idx \in Slots
    BY <1>2, Zenon DEF TypeOK, Fill, At, SessionStates
  <2>2. slot' \in [Slots -> Entries]
    BY <1>2, <2>1 DEF TypeOK, Fill, Entries
  <2> QED BY <1>2, <2>1, <2>2, GotoChanges DEF TypeOK, Fill, At
<1>3. ASSUME NEW s \in Sessions, Pending(s) PROVE TypeOK'
  <2>1. session[s].idx \in Slots
    BY <1>3, Zenon DEF TypeOK, Pending, At, SessionStates
  <2>2. slot' \in [Slots -> Entries]
    BY <1>3, <2>1, StoreChanges, Zenon DEF Pending, States
  <2> QED BY <1>3, <2>1, <2>2, GotoChanges DEF TypeOK, Pending, At
<1>4. ASSUME NEW s \in Sessions, Leave(s) PROVE TypeOK'
  <2>1. session[s].idx \in Slots
    BY <1>4, Zenon DEF TypeOK, Leave, At, SessionStates
  <2>2. slot' \in [Slots -> Entries]
    BY <1>4, <2>1, StoreChanges, Zenon DEF Leave, States
  <2> QED BY <1>4, <2>1, <2>2, GotoChanges DEF TypeOK, Leave, At
<1>5. ASSUME NEW s \in Sessions, Crash(s) PROVE TypeOK'
  BY <1>5, GotoChanges DEF TypeOK, Crash, At, SessionStates
<1>6. ASSUME NEW i \in Slots, Activate(i) PROVE TypeOK'
  <2>1. slot' \in [Slots -> Entries]
    BY <1>6, StoreChanges, Zenon DEF Activate, States
  <2> QED BY <1>6, <2>1, Zenon DEF TypeOK, Activate, At
<1>7. ASSUME NEW i \in Slots, Release(i) PROVE TypeOK'
  <2>1. slot' \in [Slots -> Entries]
    BY <1>7, StoreChanges, Zenon DEF Release, States
  <2> QED BY <1>7, <2>1, Zenon DEF TypeOK, Release, At, Take
<1>8. ASSUME NEW i \in Slots, Expire(i) PROVE TypeOK'
  <2>1. slot' \in [Slots -> Entries]
    BY <1>8, StoreChanges, Zenon DEF Expire, States
  <2> QED BY <1>8, <2>1 DEF TypeOK, Expire, At, Take
<1>9. ASSUME NEW i \in Slots, Lapse(i) PROVE TypeOK'
  <2>1. slot' \in [Slots -> Entries]
    BY <1>9, StoreChanges, Zenon DEF Lapse, States
  <2> QED BY <1>9, <2>1 DEF TypeOK, Lapse, At
<1>10. ASSUME Wipe PROVE TypeOK'
  BY <1>10, Zenon DEF TypeOK, Wipe, Wiped, Blank, Entries, At
<1>11. ASSUME NEW m \in Mergers, NEW nodes \in SUBSET Remotes, Merge(m, nodes) PROVE TypeOK'
  <2>1. merger' \in [Mergers -> MergerStates]
    BY <1>11, Zenon DEF TypeOK, Merge, MergerAt, Rest, MergerStates
  <2> QED BY <1>11, <2>1 DEF TypeOK, Merge, MergerAt, Rest, At
<1>12. ASSUME NEW m \in Mergers, NEW i \in Slots, MergeRelease(m, i) PROVE TypeOK'
  <2>1. slot' \in [Slots -> Entries]
    BY <1>12, StoreChanges, Zenon DEF MergeRelease, States
  <2>2. /\ merger' \in [Mergers -> MergerStates]
        /\ merger'[m].pc = "wipe" /\ merger'[m].idx = i
        /\ \A k \in Mergers : k # m => merger'[k] = merger[k]
    BY <1>12, HandChanges, Zenon DEF MergeRelease
  <2>3. \A k \in Mergers : merger'[k].idx = NoSlot <=> merger'[k].pc \in {"rest", "clear", "place"}
    BY <1>12, <2>2 DEF TypeOK, MergeRelease
  <2> QED BY <1>12, <2>1, <2>2, <2>3, Zenon DEF TypeOK, MergeRelease, At, Take
<1>13. ASSUME NEW m \in Mergers, MergeWipe(m) PROVE TypeOK'
  <2>1. merger[m].idx \in Slots
    BY <1>13, Zenon DEF TypeOK, MergeWipe, MergerAt, MergerStates
  <2>2. slot' \in [Slots -> Entries]
    BY <1>13, <2>1, Zenon DEF TypeOK, MergeWipe, Wiped, Blank, Entries
  <2>3. /\ merger' \in [Mergers -> MergerStates]
        /\ merger'[m].pc = "clear" /\ merger'[m].idx = NoSlot
        /\ \A k \in Mergers : k # m => merger'[k] = merger[k]
    BY <1>13, HandChanges, Zenon DEF MergeWipe
  <2>4. \A k \in Mergers : merger'[k].idx = NoSlot <=> merger'[k].pc \in {"rest", "clear", "place"}
    BY <1>13, <2>3, Zenon DEF TypeOK, MergeWipe
  <2> QED BY <1>13, <2>2, <2>3, <2>4, Zenon DEF TypeOK, MergeWipe, At
<1>14. ASSUME NEW m \in Mergers, MergeCleared(m) PROVE TypeOK'
  BY <1>14, MoveChanges DEF TypeOK, MergeCleared, MergerAt, At
<1>15. ASSUME NEW m \in Mergers, MergePick(m) PROVE TypeOK'
  <2> DEFINE Picks(n, i) ==
        /\ merger' = [merger EXCEPT ![m] =
                        [pc |-> CASE m = "sync" -> "state"
                                  [] m = "acceptor" /\ Having(n) = {} -> "blank"
                                  [] OTHER -> "write",
                         nodes |-> @.nodes \ {n}, node |-> n, idx |-> i]]
        /\ Take(i)
  <2> PICK n \in merger[m].nodes : \E i \in Choices(n) : Picks(n, i)
    BY <1>15, Zenon DEF MergePick
  <2> PICK i \in Choices(n) : Picks(n, i)
    BY Zenon
  <2>1. i \in Slots /\ n \in Remotes
    BY Zenon DEF TypeOK, MergerStates, Choices, Having, Free
  <2>2. merger' \in [Mergers -> MergerStates]
    BY <2>1, Zenon DEF TypeOK, MergerStates
  <2>3. \A k \in Mergers : merger'[k].idx = NoSlot <=> merger'[k].pc \in {"rest", "clear", "place"}
    BY <2>1, Zenon DEF TypeOK, MergerStates
  <2> QED BY <1>15, <2>2, <2>3, Zenon DEF TypeOK, MergePick, Take, At
<1>16. ASSUME NEW m \in Mergers, MergeBlank(m) PROVE TypeOK'
  <2>1. slot' \in [Slots -> Entries]
    BY <1>16, Zenon DEF TypeOK, MergeBlank, Blank, Entries, States
  <2> QED BY <1>16, <2>1, MoveChanges DEF TypeOK, MergeBlank, MergerAt, At
<1>17. ASSUME NEW m \in Mergers, MergeWrite(m) PROVE TypeOK'
  <2>1. merger[m].idx \in Slots
    BY <1>17, Zenon DEF TypeOK, MergeWrite, MergerAt, MergerStates
  <2>2. slot' \in [Slots -> Entries]
    BY <1>17, <2>1, Zenon DEF TypeOK, MergeWrite, Entries, MergerStates
  <2>3. CASE m = "sync"
    BY <1>17, <2>2, <2>3, PlacedChanges DEF TypeOK, MergeWrite, MergerAt, At
  <2>4. CASE m # "sync"
    BY <1>17, <2>2, <2>4, MoveChanges DEF TypeOK, MergeWrite, MergerAt, At
  <2> QED BY <2>3, <2>4, Zenon
<1>18. ASSUME NEW m \in Mergers, MergeState(m) PROVE TypeOK'
  <2>1. merger[m].idx \in Slots
    BY <1>18, Zenon DEF TypeOK, MergeState, MergerAt, MergerStates
  <2>2. slot' \in [Slots -> Entries]
    BY <1>18, <2>1, StoreChanges, Zenon DEF MergeState, States
  <2>3. CASE m = "sync"
    BY <1>18, <2>2, <2>3, MoveChanges DEF TypeOK, MergeState, MergerAt, At
  <2>4. CASE m # "sync"
    BY <1>18, <2>2, <2>4, PlacedChanges DEF TypeOK, MergeState, MergerAt, At
  <2> QED BY <2>3, <2>4, Zenon
<1>19. ASSUME NEW m \in Mergers, MergeDone(m) PROVE TypeOK'
  <2>1. merger' \in [Mergers -> MergerStates]
    BY <1>19, Zenon DEF TypeOK, MergeDone, Rest, MergerStates
  <2> QED BY <1>19, <2>1, Zenon DEF TypeOK, MergeDone, Rest, At
<1>20. CASE UNCHANGED vars
  BY <1>20, Zenon DEF TypeOK, vars, At
<1> QED
  BY <1>1, <1>2, <1>3, <1>4, <1>5, <1>6, <1>7, <1>8, <1>9, <1>10, <1>11, <1>12, <1>13, <1>14, <1>15,
     <1>16, <1>17, <1>18, <1>19, <1>20, Zenon DEF Next, Monitor, Age, MergeStep

\* What the proofs need of the types.
Shaped ==
  /\ \A i \in Slots : slot[i].node \in Sessions \cup Remotes \cup {None}
  /\ \A s \in Sessions : session[s].pc # "off" => session[s].idx \in Slots
  /\ \A m \in Mergers :
       IF merger[m].pc \in {"rest", "clear", "place"} THEN merger[m].idx = 0 ELSE merger[m].idx \in Slots
  /\ monitor # 0 => monitor \in Slots

\* What the types say of the slots that are in use.
LEMMA TypedShaped == TypeOK => Shaped
BY NodeTableAssumption, Zenon DEF TypeOK, Shaped, Entries, SessionStates, MergerStates, NoSlot, At

Owning == {"claimed", "filled", "up"}

\* A session keeps its hold on a slot that nobody has written.
LEMMA HeldFrame ==
  ASSUME NEW t \in Sessions, HeldBy(t), session'[t] = session[t],
         session[t].pc \in Owning => slot'[session[t].idx] = slot[session[t].idx]
  PROVE  HeldBy(t)'
BY Zenon DEF HeldBy, Owning, At

\* An entry that nobody has written stays coherent while the session it names keeps the
\* slot and whoever has it in hand keeps it.
LEMMA CoherentFrame ==
  ASSUME NEW j \in Slots, CoherentAt(j), slot'[j] = slot[j],
         slot[j].node \in Sessions =>
           /\ session'[slot[j].node].idx = session[slot[j].node].idx
           /\ session'[slot[j].node].pc \notin {"off", "claimed"},
         InHand(j) => InHand(j)' \/ slot[j].st # "empty" \/ slot[j].node = None,
         \A m \in Mergers : m = "sync" /\ merger[m].idx = j /\ MergerAt(m, "write") =>
                              merger'[m].idx = j /\ MergerAt(m, "write")'
  PROVE  CoherentAt(j)'
BY Zenon DEF CoherentAt

\* A step gives no slot to a node of the peer.
RemotesKept ==
  \A j \in Slots : slot'[j].st # "empty" /\ slot'[j].node \in Remotes =>
                     slot[j].st # "empty" /\ slot[j].node = slot'[j].node

\* A merge keeps what it knows of its slot while nobody else writes the slot or a remote
\* entry.
LEMMA PlacedFrame ==
  ASSUME NEW m \in Mergers, PlacedBy(m), merger'[m] = merger[m], RemotesKept,
         merger[m].pc \in {"wipe", "blank", "write", "state"} => slot'[merger[m].idx] = slot[merger[m].idx]
  PROVE  PlacedBy(m)'
BY Zenon DEF PlacedBy, MergerAt, RemotesKept

\* A step that brings no remote entry keeps the nodes of the table apart: local ones are
\* in the slot of their session.
LEMMA UniqueFrame ==
  ASSUME TypeOK', Unique, Coherent', RemotesKept
  PROVE  Unique'
<1>1. \A i \in Slots : slot'[i].node \in Sessions \cup Remotes \cup {None}
  BY Zenon DEF TypeOK, Entries
<1> QED BY <1>1 DEF Unique, Coherent, CoherentAt, RemotesKept

\* The slot of a session that is starting or up is taken, is not named for another node,
\* is in nobody's hand, and is no other session's.
LEMMA OwnedSlot ==
  ASSUME TypeOK, Orderly, NEW s \in Sessions, session[s].pc \in Owning
  PROVE  /\ session[s].idx \in Slots /\ slot[session[s].idx].st # "empty"
         /\ slot[session[s].idx].node \in {None, s}
         /\ ~InHand(session[s].idx)
         /\ \A t \in Sessions : t # s /\ session[t].pc \in Owning => session[t].idx # session[s].idx
<1>1. Shaped /\ HeldBy(s)
  BY TypedShaped, Zenon DEF Orderly, Held
<1>2. /\ session[s].idx \in Slots /\ slot[session[s].idx].st # "empty"
      /\ slot[session[s].idx].node \in {None, s}
  BY <1>1, Zenon DEF Shaped, HeldBy, At, Owning
<1>3. monitor # session[s].idx
  BY <1>2, NodeTableAssumption, Zenon DEF Orderly, Freed, NoSlot
<1>4. ASSUME NEW m \in Mergers, merger[m].idx = session[s].idx PROVE FALSE
  <2>1. PlacedBy(m) /\ merger[m].pc \notin {"rest", "clear", "place"}
    BY <1>1, <1>2, <1>4, NodeTableAssumption, Zenon DEF Orderly, Placing, Shaped
  <2>2. merger[m].pc \in {"wipe", "blank", "write", "state"}
    BY <2>1, Zenon DEF TypeOK, MergerStates
  <2> QED BY <1>1, <1>2, <1>4, <2>1, <2>2, NodeTableAssumption DEF PlacedBy, HeldBy, Owning, MergerAt, At
<1>5. ASSUME NEW t \in Sessions, t # s, session[t].pc \in Owning PROVE session[t].idx # session[s].idx
  <2>1. HeldBy(t)
    BY Zenon DEF Orderly, Held
  <2> QED BY <1>1, <1>5, <2>1, NodeTableAssumption, Zenon DEF HeldBy, Owning, At, Orderly, ClaimedOnce
<1> QED BY <1>2, <1>3, <1>4, <1>5, Zenon DEF InHand

\* claim_free_slot: the compare-and-swap gives a free slot to one session; if the slot was in
\* hand, that is a race.
LEMMA ClaimOrderly ==
  ASSUME TypeOK, TypeOK', Orderly, ~raced', NEW s \in Sessions, Claim(s)
  PROVE  Orderly'
<1> PICK i \in Slots :
      /\ slot[i].st = "empty"
      /\ Store(i, "claiming")
      /\ session' = [session EXCEPT ![s] = [pc |-> "claimed", idx |-> i]]
      /\ Take(i)
  BY Zenon DEF Claim
<1>1. /\ slot'[i].st = "claiming" /\ slot'[i].node = slot[i].node
      /\ slot'[i].pid = slot[i].pid /\ slot'[i].origin = slot[i].origin
      /\ \A j \in Slots : j # i => slot'[j] = slot[j]
  BY StoreChanges, Zenon DEF States
<1>2. /\ session'[s].pc = "claimed" /\ session'[s].idx = i
      /\ \A t \in Sessions : t # s => session'[t] = session[t]
  BY Zenon DEF TypeOK
<1>3. ~InHand(i)
  BY Zenon DEF Take
<1>4. session[s].pc = "off" /\ monitor' = monitor /\ merger' = merger
  BY Zenon DEF Claim, At
<1>5. slot[i].node = None
  BY <1>3, Zenon DEF Orderly, Coherent, CoherentAt
<1>6. \A t \in Sessions : HeldBy(t)
  BY Zenon DEF Orderly, Held
<1>7. \A t \in Sessions : session[t].pc \in Owning => session[t].idx \in Slots \ {i}
  BY <1>6, TypedShaped, Zenon DEF HeldBy, At, Shaped, Owning
<1>8. \A j \in Slots : InHand(j)' <=> InHand(j)
  BY <1>4, Zenon DEF InHand
<1>11. Held'
  <2> SUFFICES ASSUME NEW t \in Sessions PROVE HeldBy(t)'
    BY Zenon DEF Held
  <2>1. CASE t = s
    BY <1>1, <1>2, <1>5, <2>1, Zenon DEF HeldBy, At
  <2>2. CASE t # s
    BY <1>1, <1>2, <1>6, <1>7, <2>2, HeldFrame, Zenon
  <2> QED BY <2>1, <2>2, Zenon
<1>12. ClaimedOnce'
  BY <1>2, <1>7 DEF Orderly, ClaimedOnce, At, Owning
<1>13. Coherent'
  <2> SUFFICES ASSUME NEW j \in Slots PROVE CoherentAt(j)'
    BY Zenon DEF Coherent
  <2>1. CoherentAt(j)
    BY Zenon DEF Orderly, Coherent
  <2>2. CASE j = i
    BY <1>1, <1>5, <2>1, <2>2, NodeTableAssumption, Zenon DEF CoherentAt
  <2>3. CASE j # i
    <3>1. slot'[j] = slot[j]
      BY <1>1, <2>3, Zenon
    <3>2. slot[j].node \in Sessions => slot[j].node # s
      BY <1>4, <2>1, Zenon DEF CoherentAt
    <3> QED BY <1>2, <1>4, <1>8, <2>1, <3>1, <3>2, CoherentFrame, Zenon DEF CoherentAt, MergerAt
  <2> QED BY <2>2, <2>3, Zenon
<1>14. Freed'
  BY <1>1, <1>3, <1>4, TypedShaped, Zenon DEF Orderly, Freed, InHand, Shaped, NoSlot
<1>15. OneMerges'
  BY <1>4, Zenon DEF Orderly, OneMerges, MergerAt
<1>18. RemotesKept
  BY <1>1, <1>5, NodeTableAssumption, Zenon DEF RemotesKept
<1>16. Placing'
  <2> SUFFICES ASSUME NEW k \in Mergers PROVE PlacedBy(k)'
    BY Zenon DEF Placing
  <2>1. PlacedBy(k) /\ merger[k].idx # i
    BY <1>3, Zenon DEF Orderly, Placing, InHand
  <2> QED BY <1>1, <1>4, <1>18, <2>1, PlacedFrame, TypedShaped, Zenon DEF Shaped
<1>17. Unique'
  BY <1>18, <1>13, UniqueFrame, Zenon DEF Orderly
<1> QED BY <1>11, <1>12, <1>13, <1>14, <1>15, <1>16, <1>17, Zenon DEF Orderly

\* Session::with_quic: the session puts its name into a slot that is its own.
LEMMA FillOrderly ==
  ASSUME TypeOK, TypeOK', Orderly, NEW s \in Sessions, Fill(s)
  PROVE  Orderly'
<1> DEFINE x == session[s].idx
<1>1. session[s].pc = "claimed" /\ session[s].pc \in Owning /\ monitor' = monitor /\ merger' = merger
  BY Zenon DEF Fill, At, Owning
<1>2. /\ x \in Slots /\ ~InHand(x)
      /\ \A t \in Sessions : t # s /\ session[t].pc \in Owning => session[t].idx # x
  BY <1>1, OwnedSlot, Zenon
<1>3. slot[x].st = "claiming" /\ slot[x].node = None /\ slot[x].origin = "local"
  BY <1>1, <1>2, NodeTableAssumption, Zenon DEF Orderly, Held, HeldBy, At, Coherent, CoherentAt
<1>4. /\ slot'[x].st = "claiming" /\ slot'[x].node = s /\ slot'[x].pid = s /\ slot'[x].origin = "local"
      /\ \A j \in Slots : j # x => slot'[j] = slot[j]
  BY <1>2, <1>3 DEF Fill, TypeOK, Entries
<1>5. /\ session'[s].pc = "filled" /\ session'[s].idx = x
      /\ \A t \in Sessions : t # s => session'[t] = session[t]
  BY GotoChanges, Zenon DEF Fill
<1> HIDE DEF x
<1>6. \A t \in Sessions : HeldBy(t) /\ (session[t].pc \in Owning => session[t].idx \in Slots)
  BY TypedShaped, Zenon DEF Orderly, Held, Shaped, Owning
<1>7. \A j \in Slots : InHand(j)' <=> InHand(j)
  BY <1>1, Zenon DEF InHand
<1>11. Held'
  <2> SUFFICES ASSUME NEW t \in Sessions PROVE HeldBy(t)'
    BY Zenon DEF Held
  <2>1. CASE t = s
    BY <1>4, <1>5, <2>1, Zenon DEF HeldBy, At
  <2>2. CASE t # s
    BY <1>2, <1>4, <1>5, <1>6, <2>2, HeldFrame, Zenon
  <2> QED BY <2>1, <2>2, Zenon
<1>12. ClaimedOnce'
  BY <1>5, Zenon DEF Orderly, ClaimedOnce, At
<1>13. Coherent'
  <2> SUFFICES ASSUME NEW j \in Slots PROVE CoherentAt(j)'
    BY Zenon DEF Coherent
  <2>1. CoherentAt(j)
    BY Zenon DEF Orderly, Coherent
  <2>2. CASE j = x
    BY <1>4, <1>5, <2>2, NodeTableAssumption, Zenon DEF CoherentAt
  <2>3. CASE j # x
    <3>1. slot'[j] = slot[j]
      BY <1>4, <2>3, Zenon
    <3>2. slot[j].node \in Sessions => slot[j].node # s
      BY <1>1, <2>1, Zenon DEF CoherentAt
    <3> QED BY <1>1, <1>5, <1>7, <2>1, <3>1, <3>2, CoherentFrame, Zenon DEF CoherentAt, MergerAt
  <2> QED BY <2>2, <2>3, Zenon
<1>14. Freed'
  BY <1>1, <1>2, <1>4, TypedShaped, Zenon DEF Orderly, Freed, InHand, Shaped, NoSlot
<1>15. OneMerges'
  BY <1>1, Zenon DEF Orderly, OneMerges, MergerAt
<1>16. RemotesKept
  BY <1>4, NodeTableAssumption, Zenon DEF RemotesKept
<1>17. Placing'
  <2> SUFFICES ASSUME NEW k \in Mergers PROVE PlacedBy(k)'
    BY Zenon DEF Placing
  <2>1. PlacedBy(k) /\ merger[k].idx # x
    BY <1>2, Zenon DEF Orderly, Placing, InHand
  <2> QED BY <1>1, <1>4, <1>16, <2>1, PlacedFrame, TypedShaped, Zenon DEF Shaped
<1> QED BY <1>11, <1>12, <1>13, <1>14, <1>15, <1>16, <1>17, UniqueFrame, Zenon DEF Orderly

\* The session publishes its entry as Pending, with its name in it.
LEMMA PendingOrderly ==
  ASSUME TypeOK, TypeOK', Orderly, NEW s \in Sessions, Pending(s)
  PROVE  Orderly'
<1> DEFINE x == session[s].idx
<1>1. session[s].pc = "filled" /\ session[s].pc \in Owning /\ monitor' = monitor /\ merger' = merger
  BY Zenon DEF Pending, At, Owning
<1>2. /\ x \in Slots /\ ~InHand(x)
      /\ \A t \in Sessions : t # s /\ session[t].pc \in Owning => session[t].idx # x
  BY <1>1, OwnedSlot, Zenon
<1>3. slot[x].node = s /\ slot[x].pid = s /\ slot[x].origin = "local"
  BY <1>1, <1>2, NodeTableAssumption DEF Orderly, Held, HeldBy, At, Coherent, CoherentAt
<1>4. /\ slot'[x].st = "pending" /\ slot'[x].node = s /\ slot'[x].pid = s /\ slot'[x].origin = "local"
      /\ \A j \in Slots : j # x => slot'[j] = slot[j]
  BY <1>2, <1>3, StoreChanges, Zenon DEF Pending, States
<1>5. /\ session'[s].pc = "up" /\ session'[s].idx = x
      /\ \A t \in Sessions : t # s => session'[t] = session[t]
  BY GotoChanges, Zenon DEF Pending
<1> HIDE DEF x
<1>6. \A t \in Sessions : HeldBy(t) /\ (session[t].pc \in Owning => session[t].idx \in Slots)
  BY TypedShaped, Zenon DEF Orderly, Held, Shaped, Owning
<1>7. \A j \in Slots : InHand(j)' <=> InHand(j)
  BY <1>1, Zenon DEF InHand
<1>11. Held'
  <2> SUFFICES ASSUME NEW t \in Sessions PROVE HeldBy(t)'
    BY Zenon DEF Held
  <2>1. CASE t = s
    BY <1>4, <1>5, <2>1, Zenon DEF HeldBy, At
  <2>2. CASE t # s
    BY <1>2, <1>4, <1>5, <1>6, <2>2, HeldFrame, Zenon
  <2> QED BY <2>1, <2>2, Zenon
<1>12. ClaimedOnce'
  BY <1>5, Zenon DEF Orderly, ClaimedOnce, At
<1>13. Coherent'
  <2> SUFFICES ASSUME NEW j \in Slots PROVE CoherentAt(j)'
    BY Zenon DEF Coherent
  <2>1. CoherentAt(j)
    BY Zenon DEF Orderly, Coherent
  <2>2. CASE j = x
    BY <1>4, <1>5, <2>2, NodeTableAssumption, Zenon DEF CoherentAt
  <2>3. CASE j # x
    <3>1. slot'[j] = slot[j]
      BY <1>4, <2>3, Zenon
    <3>2. slot[j].node \in Sessions => slot[j].node # s
      BY <2>1, <2>3, Zenon DEF CoherentAt, x
    <3> QED BY <1>1, <1>5, <1>7, <2>1, <3>1, <3>2, CoherentFrame, Zenon DEF CoherentAt, MergerAt
  <2> QED BY <2>2, <2>3, Zenon
<1>14. Freed'
  BY <1>1, <1>2, <1>4, TypedShaped, Zenon DEF Orderly, Freed, InHand, Shaped, NoSlot
<1>15. OneMerges'
  BY <1>1, Zenon DEF Orderly, OneMerges, MergerAt
<1>16. RemotesKept
  BY <1>4, NodeTableAssumption, Zenon DEF RemotesKept
<1>17. Placing'
  <2> SUFFICES ASSUME NEW k \in Mergers PROVE PlacedBy(k)'
    BY Zenon DEF Placing
  <2>1. PlacedBy(k) /\ merger[k].idx # x
    BY <1>2, Zenon DEF Orderly, Placing, InHand
  <2> QED BY <1>1, <1>4, <1>16, <2>1, PlacedFrame, TypedShaped, Zenon DEF Shaped
<1> QED BY <1>11, <1>12, <1>13, <1>14, <1>15, <1>16, <1>17, UniqueFrame, Zenon DEF Orderly

\* A session that leaves marks its entry, or loses the mark to the monitor; the entry stays
\* named for it until the monitor frees it.
LEMMA LeaveOrderly ==
  ASSUME TypeOK, TypeOK', Orderly, NEW s \in Sessions, Leave(s)
  PROVE  Orderly'
<1> DEFINE x == session[s].idx
<1>1. session[s].pc = "up" /\ session[s].pc \in Owning /\ monitor' = monitor /\ merger' = merger
  BY Zenon DEF Leave, At, Owning
<1>2. /\ x \in Slots /\ ~InHand(x)
      /\ \A t \in Sessions : t # s /\ session[t].pc \in Owning => session[t].idx # x
  BY <1>1, OwnedSlot, Zenon
<1>3. slot[x].node = s /\ slot[x].pid = s /\ slot[x].origin = "local"
  BY <1>1, <1>2, NodeTableAssumption DEF Orderly, Held, HeldBy, At, Coherent, CoherentAt
<1>4. /\ slot'[x].st \in {"leaving", "active"}
      /\ slot'[x].node = s /\ slot'[x].pid = s /\ slot'[x].origin = "local"
      /\ \A j \in Slots : j # x => slot'[j] = slot[j]
  <2>1. CASE Store(x, "leaving")
    BY <1>2, <1>3, <2>1, StoreChanges, Zenon DEF States
  <2>2. CASE Store(x, "active")
    BY <1>2, <1>3, <2>2, StoreChanges, Zenon DEF States
  <2> QED BY <2>1, <2>2, Zenon DEF Leave
<1>5. /\ session'[s].pc = "gone" /\ session'[s].idx = x
      /\ \A t \in Sessions : t # s => session'[t] = session[t]
  BY GotoChanges, Zenon DEF Leave
<1> HIDE DEF x
<1>6. \A t \in Sessions : HeldBy(t) /\ (session[t].pc \in Owning => session[t].idx \in Slots)
  BY TypedShaped, Zenon DEF Orderly, Held, Shaped, Owning
<1>7. \A j \in Slots : InHand(j)' <=> InHand(j)
  BY <1>1, Zenon DEF InHand
<1>11. Held'
  <2> SUFFICES ASSUME NEW t \in Sessions PROVE HeldBy(t)'
    BY Zenon DEF Held
  <2>1. CASE t = s
    BY <1>4, <1>5, <2>1, Zenon DEF HeldBy, At
  <2>2. CASE t # s
    BY <1>2, <1>4, <1>5, <1>6, <2>2, HeldFrame, Zenon
  <2> QED BY <2>1, <2>2, Zenon
<1>12. ClaimedOnce'
  BY <1>5, Zenon DEF Orderly, ClaimedOnce, At
<1>13. Coherent'
  <2> SUFFICES ASSUME NEW j \in Slots PROVE CoherentAt(j)'
    BY Zenon DEF Coherent
  <2>1. CoherentAt(j)
    BY Zenon DEF Orderly, Coherent
  <2>2. CASE j = x
    BY <1>4, <1>5, <2>2, NodeTableAssumption, Zenon DEF CoherentAt
  <2>3. CASE j # x
    <3>1. slot'[j] = slot[j]
      BY <1>4, <2>3, Zenon
    <3>2. slot[j].node \in Sessions => slot[j].node # s
      BY <2>1, <2>3, Zenon DEF CoherentAt, x
    <3> QED BY <1>1, <1>5, <1>7, <2>1, <3>1, <3>2, CoherentFrame, Zenon DEF CoherentAt, MergerAt
  <2> QED BY <2>2, <2>3, Zenon
<1>14. Freed'
  BY <1>1, <1>2, <1>4, TypedShaped, Zenon DEF Orderly, Freed, InHand, Shaped, NoSlot
<1>15. OneMerges'
  BY <1>1, Zenon DEF Orderly, OneMerges, MergerAt
<1>16. RemotesKept
  BY <1>4, NodeTableAssumption, Zenon DEF RemotesKept
<1>17. Placing'
  <2> SUFFICES ASSUME NEW k \in Mergers PROVE PlacedBy(k)'
    BY Zenon DEF Placing
  <2>1. PlacedBy(k) /\ merger[k].idx # x
    BY <1>2, Zenon DEF Orderly, Placing, InHand
  <2> QED BY <1>1, <1>4, <1>16, <2>1, PlacedFrame, TypedShaped, Zenon DEF Shaped
<1> QED BY <1>11, <1>12, <1>13, <1>14, <1>15, <1>16, <1>17, UniqueFrame, Zenon DEF Orderly

\* A session that dies leaves its entry as it was.
LEMMA CrashOrderly ==
  ASSUME TypeOK, TypeOK', Orderly, NEW s \in Sessions, Crash(s)
  PROVE  Orderly'
<1>1. session[s].pc \in Owning /\ slot' = slot /\ monitor' = monitor /\ merger' = merger
  BY Zenon DEF Crash, Owning
<1>2. /\ session'[s].pc = "dead" /\ session'[s].idx = session[s].idx
      /\ \A t \in Sessions : t # s => session'[t] = session[t]
  BY GotoChanges, Zenon DEF Crash
<1>3. Held'
  BY <1>1, <1>2, HeldFrame, Zenon DEF Orderly, Held, HeldBy, At
<1>4. ClaimedOnce'
  BY <1>2, Zenon DEF Orderly, ClaimedOnce, At
<1>5. \A j \in Slots : InHand(j)' <=> InHand(j)
  BY <1>1, Zenon DEF InHand
<1>6. Coherent'
  <2> SUFFICES ASSUME NEW j \in Slots PROVE CoherentAt(j)'
    BY Zenon DEF Coherent
  <2>1. CoherentAt(j)
    BY Zenon DEF Orderly, Coherent
  <2> QED BY <1>1, <1>2, <1>5, <2>1, CoherentFrame DEF CoherentAt, MergerAt
<1>7. RemotesKept
  BY <1>1, Zenon DEF RemotesKept
<1>8. Placing'
  BY <1>1, <1>7, PlacedFrame, Zenon DEF Orderly, Placing
<1>9. Freed' /\ OneMerges'
  BY <1>1, Zenon DEF Orderly, Freed, OneMerges, MergerAt
<1> QED BY <1>3, <1>4, <1>6, <1>7, <1>8, <1>9, UniqueFrame, Zenon DEF Orderly

\* process_pending_registrations: an entry that is Pending becomes Active and keeps its name.
LEMMA ActivateOrderly ==
  ASSUME TypeOK, TypeOK', Orderly, NEW i \in Slots, Activate(i)
  PROVE  Orderly'
<1>1. monitor = NoSlot /\ slot[i].st = "pending" /\ monitor' = monitor /\ merger' = merger /\ session' = session
  BY Zenon DEF Activate
<1>2. /\ slot'[i].st = "active" /\ slot'[i].node = slot[i].node
      /\ slot'[i].pid = slot[i].pid /\ slot'[i].origin = slot[i].origin
      /\ \A j \in Slots : j # i => slot'[j] = slot[j]
  BY StoreChanges, Zenon DEF Activate, States
<1>3. slot[i].node \in Sessions
  BY <1>1, TypedShaped, Zenon DEF Orderly, Coherent, CoherentAt, Shaped
<1>4. \A m \in Mergers : merger[m].idx # i
  <2> SUFFICES ASSUME NEW m \in Mergers, merger[m].idx = i PROVE FALSE
    BY Zenon
  <2>1. PlacedBy(m) /\ merger[m].pc \in {"wipe", "blank", "write", "state"}
    BY NodeTableAssumption, Zenon DEF Orderly, Placing, TypeOK, MergerStates, NoSlot
  <2> QED BY <1>1, <2>1, Zenon DEF PlacedBy, MergerAt
<1>5. \A j \in Slots : InHand(j)' <=> InHand(j)
  BY <1>1, Zenon DEF InHand
<1>11. Held'
  <2> SUFFICES ASSUME NEW t \in Sessions PROVE HeldBy(t)'
    BY Zenon DEF Held
  <2>1. HeldBy(t) /\ (session[t].pc # "off" => session[t].idx \in Slots)
    BY TypedShaped, Zenon DEF Orderly, Held, Shaped
  <2> QED BY <1>1, <1>2, <2>1, Zenon DEF HeldBy, At
<1>12. ClaimedOnce'
  BY <1>1, Zenon DEF Orderly, ClaimedOnce, At
<1>13. Coherent'
  <2> SUFFICES ASSUME NEW j \in Slots PROVE CoherentAt(j)'
    BY Zenon DEF Coherent
  <2>1. CoherentAt(j)
    BY Zenon DEF Orderly, Coherent
  <2>2. CASE j = i
    BY <1>1, <1>2, <1>3, <2>1, <2>2, NodeTableAssumption, Zenon DEF CoherentAt
  <2>3. CASE j # i
    BY <1>1, <1>2, <1>5, <2>1, <2>3, CoherentFrame, Zenon DEF CoherentAt, MergerAt
  <2> QED BY <2>2, <2>3, Zenon
<1>14. Freed' /\ OneMerges'
  BY <1>1, Zenon DEF Orderly, Freed, OneMerges, MergerAt
<1>15. RemotesKept
  BY <1>2, <1>3, NodeTableAssumption, Zenon DEF RemotesKept
<1>16. Placing'
  <2> SUFFICES ASSUME NEW k \in Mergers PROVE PlacedBy(k)'
    BY Zenon DEF Placing
  <2> QED BY <1>1, <1>2, <1>4, <1>15, PlacedFrame, TypedShaped, Zenon DEF Orderly, Placing, Shaped
<1> QED BY <1>11, <1>12, <1>13, <1>14, <1>15, <1>16, UniqueFrame, Zenon DEF Orderly

\* process_departed_nodes stores Empty into a slot that no living session has, and has it
\* in hand until it is wiped.
LEMMA ReleaseOrderly ==
  ASSUME TypeOK, TypeOK', Orderly, ~raced', NEW i \in Slots,
         monitor = NoSlot, Store(i, "empty"), monitor' = i, Take(i), UNCHANGED <<session, merger>>,
         \A t \in Sessions : session[t].pc \in Owning => session[t].idx # i
  PROVE  Orderly'
<1>1. /\ slot'[i].st = "empty" /\ slot'[i].node = slot[i].node
      /\ slot'[i].pid = slot[i].pid /\ slot'[i].origin = slot[i].origin
      /\ \A j \in Slots : j # i => slot'[j] = slot[j]
  BY StoreChanges, Zenon DEF States
<1>2. ~InHand(i)
  BY Zenon DEF Take
<1>3. \A j \in Slots : InHand(j) => InHand(j)'
  BY NodeTableAssumption, Zenon DEF InHand, NoSlot
<1>4. InHand(i)'
  BY Zenon DEF InHand
<1>11. Held'
  <2> SUFFICES ASSUME NEW t \in Sessions PROVE HeldBy(t)'
    BY Zenon DEF Held
  <2>1. HeldBy(t) /\ (session[t].pc \in Owning => session[t].idx \in Slots)
    BY TypedShaped, Zenon DEF Orderly, Held, Shaped, Owning
  <2> QED BY <1>1, <2>1, HeldFrame, Zenon
<1>12. ClaimedOnce'
  BY Zenon DEF Orderly, ClaimedOnce, At
<1>13. Coherent'
  <2> SUFFICES ASSUME NEW j \in Slots PROVE CoherentAt(j)'
    BY Zenon DEF Coherent
  <2>1. CoherentAt(j)
    BY Zenon DEF Orderly, Coherent
  <2>2. CASE j = i
    BY <1>1, <1>4, <2>1, <2>2, Zenon DEF CoherentAt
  <2>3. CASE j # i
    BY <1>1, <1>3, <2>1, <2>3, CoherentFrame, Zenon DEF CoherentAt, MergerAt
  <2> QED BY <2>2, <2>3, Zenon
<1>14. Freed' /\ OneMerges'
  BY <1>1, <1>2, Zenon DEF Orderly, Freed, OneMerges, MergerAt, InHand
<1>15. RemotesKept
  BY <1>1, Zenon DEF RemotesKept
<1>16. Placing'
  <2> SUFFICES ASSUME NEW k \in Mergers PROVE PlacedBy(k)'
    BY Zenon DEF Placing
  <2>1. merger[k].idx # i
    BY <1>2, Zenon DEF InHand
  <2> QED BY <1>1, <1>15, <2>1, PlacedFrame, TypedShaped, Zenon DEF Orderly, Placing, Shaped
<1> QED BY <1>11, <1>12, <1>13, <1>14, <1>15, <1>16, UniqueFrame, Zenon DEF Orderly

\* The monitor clears the entry it has freed, which nobody has taken meanwhile.
LEMMA WipeOrderly ==
  ASSUME TypeOK, TypeOK', Orderly, Wipe
  PROVE  Orderly'
<1>1. monitor \in Slots /\ monitor' = NoSlot /\ session' = session /\ merger' = merger
  BY TypedShaped, Zenon DEF Wipe, Shaped, NoSlot
<1>2. slot[monitor].st = "empty" /\ \A m \in Mergers : merger[m].idx # monitor
  BY <1>1, NodeTableAssumption, Zenon DEF Orderly, Freed, NoSlot
<1>3. /\ slot'[monitor].st = "empty" /\ slot'[monitor].node = None
      /\ slot'[monitor].pid = None /\ slot'[monitor].origin = "local"
      /\ \A j \in Slots : j # monitor => slot'[j] = slot[j]
  BY <1>1, <1>2, Zenon DEF Wipe, Wiped, Blank, TypeOK, Entries
<1>4. \A j \in Slots : j # monitor => (InHand(j) => InHand(j)')
  BY <1>1, Zenon DEF InHand
<1>11. Held'
  <2> SUFFICES ASSUME NEW t \in Sessions PROVE HeldBy(t)'
    BY Zenon DEF Held
  <2>1. HeldBy(t) /\ (session[t].pc \in Owning => session[t].idx \in Slots /\ slot[session[t].idx].st # "empty")
    BY OwnedSlot, Zenon DEF Orderly, Held
  <2> QED BY <1>1, <1>2, <1>3, <2>1, HeldFrame, Zenon
<1>12. ClaimedOnce'
  BY <1>1, Zenon DEF Orderly, ClaimedOnce, At
<1>13. Coherent'
  <2> SUFFICES ASSUME NEW j \in Slots PROVE CoherentAt(j)'
    BY Zenon DEF Coherent
  <2>1. CoherentAt(j)
    BY Zenon DEF Orderly, Coherent
  <2>2. CASE j = monitor
    BY <1>3, <2>2, NodeTableAssumption, Zenon DEF CoherentAt
  <2>3. CASE j # monitor
    BY <1>1, <1>3, <1>4, <2>1, <2>3, CoherentFrame, Zenon DEF CoherentAt, MergerAt
  <2> QED BY <2>2, <2>3, Zenon
<1>14. Freed' /\ OneMerges'
  BY <1>1, Zenon DEF Orderly, Freed, OneMerges, MergerAt
<1>15. RemotesKept
  BY <1>3, Zenon DEF RemotesKept
<1>16. Placing'
  <2> SUFFICES ASSUME NEW k \in Mergers PROVE PlacedBy(k)'
    BY Zenon DEF Placing
  <2> QED BY <1>1, <1>2, <1>3, <1>15, PlacedFrame, TypedShaped, Zenon DEF Orderly, Placing, Shaped
<1> QED BY <1>11, <1>12, <1>13, <1>14, <1>15, <1>16, UniqueFrame, Zenon DEF Orderly

\* A step of a merge that has no slot in hand and takes none changes no entry.
LEMMA IdleOrderly ==
  ASSUME TypeOK, TypeOK', Orderly, NEW m \in Mergers, UNCHANGED <<slot, session, monitor>>,
         \A k \in Mergers : k # m => merger[k].pc = "rest" /\ merger'[k] = merger[k],
         merger[m].idx = NoSlot, merger'[m].idx = NoSlot
  PROVE  Orderly'
<1>1. merger'[m].pc \in {"rest", "clear", "place"} /\ merger[m].pc \in {"rest", "clear", "place"}
  BY Zenon DEF TypeOK
<1>2. \A j \in Slots : InHand(j) => InHand(j)'
  BY NodeTableAssumption, Zenon DEF InHand, NoSlot
<1>3. Held' /\ ClaimedOnce'
  BY Zenon DEF Orderly, Held, HeldBy, ClaimedOnce, At
<1>4. Coherent'
  <2> SUFFICES ASSUME NEW j \in Slots PROVE CoherentAt(j)'
    BY Zenon DEF Coherent
  <2>1. CoherentAt(j)
    BY Zenon DEF Orderly, Coherent
  <2> QED BY <1>1, <1>2, <2>1, CoherentFrame, Zenon DEF CoherentAt, MergerAt
<1>5. Freed'
  BY NodeTableAssumption, Zenon DEF Orderly, Freed
<1>6. OneMerges'
  BY Zenon DEF OneMerges, MergerAt
<1>7. Placing'
  BY <1>1, Zenon DEF Placing, PlacedBy, MergerAt
<1>8. Unique'
  BY Zenon DEF Orderly, Unique
<1> QED BY <1>3, <1>4, <1>5, <1>6, <1>7, <1>8, Zenon DEF Orderly

\* What a merge must do to the one slot it writes for the table to stay in order.
LEMMA MergerOrderly ==
  ASSUME TypeOK, TypeOK', Orderly, UNCHANGED <<session, monitor>>,
         NEW m \in Mergers, merger[m].pc # "rest",
         \A k \in Mergers : k # m => merger'[k] = merger[k],
         NEW x \in Slots, monitor # x,
         \A j \in Slots : j # x => slot'[j] = slot[j],
         slot'[x] = slot[x] \/ \A t \in Sessions : session[t].pc \in Owning => session[t].idx # x,
         merger[m].idx \in {NoSlot, x}, merger'[m].idx \in {NoSlot, x},
         CoherentAt(x)', PlacedBy(m)', Unique'
  PROVE  Orderly'
<1>1. \A k \in Mergers : k # m => merger[k].pc = "rest"
  BY Zenon DEF Orderly, OneMerges, MergerAt
<1>2. Held'
  <2> SUFFICES ASSUME NEW t \in Sessions PROVE HeldBy(t)'
    BY Zenon DEF Held
  <2>1. HeldBy(t) /\ (session[t].pc \in Owning => session[t].idx \in Slots)
    BY OwnedSlot, Zenon DEF Orderly, Held
  <2> QED BY <2>1, HeldFrame, Zenon
<1>3. ClaimedOnce'
  BY Zenon DEF Orderly, ClaimedOnce, At
<1>4. Coherent'
  <2> SUFFICES ASSUME NEW j \in Slots PROVE CoherentAt(j)'
    BY Zenon DEF Coherent
  <2>1. CASE j # x
    <3>1. CoherentAt(j) /\ slot'[j] = slot[j]
      BY <2>1, Zenon DEF Orderly, Coherent
    <3>2. merger[m].idx # j
      BY <2>1, NodeTableAssumption, Zenon DEF NoSlot
    <3>3. InHand(j) => InHand(j)'
      BY <3>2, Zenon DEF InHand
    <3> QED BY <3>1, <3>2, <3>3, CoherentFrame DEF CoherentAt, MergerAt
  <2> QED BY <2>1, Zenon
<1>5. Freed'
  BY TypedShaped, NodeTableAssumption, Zenon DEF Orderly, Freed, Shaped, NoSlot
<1>6. OneMerges'
  BY <1>1, Zenon DEF OneMerges, MergerAt
<1>7. Placing'
  BY <1>1, Zenon DEF Placing, PlacedBy, MergerAt
<1> QED BY <1>2, <1>3, <1>4, <1>5, <1>6, <1>7, Zenon DEF Orderly

\* merge_remote_nodes frees the entry of a remote node that the peer no longer lists.
LEMMA MergeReleaseOrderly ==
  ASSUME TypeOK, TypeOK', Orderly, ~raced', NEW m \in Mergers, NEW i \in Slots, MergeRelease(m, i)
  PROVE  Orderly'
<1>1. /\ merger[m].pc = "clear" /\ merger[m].idx = NoSlot /\ UNCHANGED <<session, monitor>>
      /\ slot[i].st # "empty" /\ slot[i].origin = "remote"
  BY Zenon DEF MergeRelease, MergerAt, Stale, TypeOK
<1>2. ~InHand(i)
  BY Zenon DEF MergeRelease, Take
<1>3. /\ slot'[i].st = "empty" /\ slot'[i].node = slot[i].node
      /\ slot'[i].pid = slot[i].pid /\ slot'[i].origin = slot[i].origin
      /\ \A j \in Slots : j # i => slot'[j] = slot[j]
  BY StoreChanges, Zenon DEF MergeRelease, States
<1>4. /\ merger'[m].pc = "wipe" /\ merger'[m].idx = i
      /\ \A k \in Mergers : k # m => merger'[k] = merger[k]
  BY HandChanges, Zenon DEF MergeRelease
<1>5. slot[i].node \in Remotes /\ CoherentAt(i)
  BY <1>1, Zenon DEF Orderly, Coherent, CoherentAt
<1>6. \A t \in Sessions : session[t].pc \in Owning => session[t].idx # i
  BY <1>5, OwnedSlot, NodeTableAssumption, Zenon
<1>7. CoherentAt(i)'
  <2>1. InHand(i)'
    BY <1>4, Zenon DEF InHand
  <2> QED BY <1>3, <1>5, <2>1, NodeTableAssumption, Zenon DEF CoherentAt
<1>8. PlacedBy(m)'
  BY <1>3, <1>4, Zenon DEF PlacedBy, MergerAt
<1>9. Unique'
  BY <1>3, Zenon DEF Orderly, Unique
<1> QED BY <1>1, <1>2, <1>3, <1>4, <1>6, <1>7, <1>8, <1>9, MergerOrderly, Zenon DEF InHand

\* The slot that a merge has in hand is no session's and not the monitor's.
LEMMA InHandOf ==
  ASSUME TypeOK, Orderly, NEW m \in Mergers, merger[m].pc \in {"wipe", "blank", "write", "state"}
  PROVE  /\ merger[m].idx \in Slots /\ monitor # merger[m].idx
         /\ \A t \in Sessions : session[t].pc \in Owning => session[t].idx # merger[m].idx
         /\ PlacedBy(m) /\ CoherentAt(merger[m].idx)
<1>1. merger[m].idx \in Slots
  BY TypedShaped, Zenon DEF Shaped
<1>2. InHand(merger[m].idx)
  BY Zenon DEF InHand
<1> QED BY <1>1, <1>2, OwnedSlot, NodeTableAssumption, Zenon DEF Orderly, Freed, Placing, Coherent, NoSlot

\* The merge clears the entry it has freed.
LEMMA MergeWipeOrderly ==
  ASSUME TypeOK, TypeOK', Orderly, NEW m \in Mergers, MergeWipe(m)
  PROVE  Orderly'
<1>1. merger[m].pc = "wipe" /\ UNCHANGED <<session, monitor>>
  BY Zenon DEF MergeWipe, MergerAt
<1> PICK x \in Slots : x = merger[m].idx
  BY <1>1, InHandOf, Zenon
<1>2. /\ monitor # x /\ PlacedBy(m)
      /\ \A t \in Sessions : session[t].pc \in Owning => session[t].idx # x
  BY <1>1, InHandOf, Zenon
<1>3. slot[x].st = "empty"
  BY <1>1, <1>2, Zenon DEF PlacedBy, MergerAt
<1>4. /\ slot'[x].st = "empty" /\ slot'[x].node = None
      /\ slot'[x].pid = None /\ slot'[x].origin = "local"
      /\ \A j \in Slots : j # x => slot'[j] = slot[j]
  BY <1>3, Zenon DEF MergeWipe, Wiped, Blank, TypeOK, Entries
<1>5. /\ merger'[m].pc = "clear" /\ merger'[m].idx = NoSlot
      /\ \A k \in Mergers : k # m => merger'[k] = merger[k]
  BY HandChanges, Zenon DEF MergeWipe
<1>6. CoherentAt(x)'
  BY <1>4, NodeTableAssumption, Zenon DEF CoherentAt
<1>7. PlacedBy(m)'
  BY <1>5, Zenon DEF PlacedBy, MergerAt
<1>8. Unique'
  BY <1>4 DEF Orderly, Unique
<1> QED BY <1>1, <1>2, <1>4, <1>5, <1>6, <1>7, <1>8, MergerOrderly, Zenon

\* The merge takes the slot of the node if there is one, and a free one otherwise; if
\* that was in hand, it is a race.
LEMMA MergePickOrderly ==
  ASSUME TypeOK, TypeOK', Orderly, ~raced', NEW m \in Mergers, MergePick(m)
  PROVE  Orderly'
<1> DEFINE Picks(n, i) ==
      /\ merger' = [merger EXCEPT ![m] =
                      [pc |-> CASE m = "sync" -> "state"
                                [] m = "acceptor" /\ Having(n) = {} -> "blank"
                                [] OTHER -> "write",
                       nodes |-> @.nodes \ {n}, node |-> n, idx |-> i]]
      /\ Take(i)
<1> PICK n \in merger[m].nodes : \E i \in Choices(n) : Picks(n, i)
  BY Zenon DEF MergePick
<1> PICK i \in Choices(n) : Picks(n, i)
  BY Zenon
<1>1. i \in Slots /\ n \in Remotes /\ n # None
  BY NodeTableAssumption DEF TypeOK, MergerStates, Choices, Having, Free
<1>2. /\ merger[m].pc = "place" /\ merger[m].idx = NoSlot /\ UNCHANGED <<slot, session, monitor>>
  BY Zenon DEF MergePick, MergerAt, TypeOK
<1>3. ~InHand(i)
  BY Zenon DEF Take
<1>4. /\ merger'[m].node = n /\ merger'[m].idx = i
      /\ m = "sync" => merger'[m].pc = "state"
      /\ m # "sync" => merger'[m].pc = IF Having(n) = {} THEN "blank" ELSE "write"
      /\ \A k \in Mergers : k # m => merger'[k] = merger[k]
  BY NodeTableAssumption, Zenon DEF TypeOK, MergerStates
<1>5. CoherentAt(i) /\ Unique
  BY <1>1, Zenon DEF Orderly, Coherent
<1>6. PlacedBy(m)'
  <2>1. CASE Having(n) = {}
    <3>1. slot[i].st = "empty" /\ \A j \in Slots : slot[j].st # "empty" => slot[j].node # n
      BY <1>1, <2>1, Zenon DEF Choices, Having, Free
    <3>2. slot[i].node = None
      BY <1>3, <1>5, <3>1, Zenon DEF CoherentAt
    <3> QED BY <1>1, <1>2, <1>4, <2>1, <3>1, <3>2 DEF PlacedBy, MergerAt
  <2>2. CASE Having(n) # {}
    <3>1. slot[i].st # "empty" /\ slot[i].node = n
      BY <1>1, <2>2, Zenon DEF Choices, Having
    <3>2. slot[i].st = "active"
      BY <1>1, <1>5, <3>1, Zenon DEF CoherentAt
    <3>3. \A j \in Slots : slot[j].st # "empty" /\ slot[j].node = n => j = i
      BY <1>1, <1>5, <3>1, Zenon DEF Unique
    <3> QED BY <1>1, <1>2, <1>4, <2>2, <3>1, <3>2, <3>3 DEF PlacedBy, MergerAt
  <2> QED BY <2>1, <2>2, Zenon
<1>7. CoherentAt(i)'
  <2>1. \A k \in Mergers : merger[k].idx # i
    BY <1>3, Zenon DEF InHand
  <2> QED BY <1>1, <1>2, <1>3, <1>5, <2>1, CoherentFrame, Zenon DEF CoherentAt
<1>8. Unique'
  BY <1>2, <1>5, Zenon DEF Unique
<1>9. monitor # i
  BY <1>3, Zenon DEF InHand
<1> QED BY <1>1, <1>2, <1>4, <1>6, <1>7, <1>8, <1>9, MergerOrderly, Zenon

\* The merge clears the free slot that it has picked, before it writes.
LEMMA MergeBlankOrderly ==
  ASSUME TypeOK, TypeOK', Orderly, NEW m \in Mergers, MergeBlank(m)
  PROVE  Orderly'
<1>1. merger[m].pc = "blank" /\ UNCHANGED <<session, monitor>>
  BY Zenon DEF MergeBlank, MergerAt
<1> PICK x \in Slots : x = merger[m].idx
  BY <1>1, InHandOf, Zenon
<1>2. /\ monitor # x /\ PlacedBy(m)
      /\ \A t \in Sessions : session[t].pc \in Owning => session[t].idx # x
  BY <1>1, InHandOf, Zenon
<1>3. /\ slot'[x].st = "empty" /\ slot'[x].node = None
      /\ slot'[x].pid = None /\ slot'[x].origin = "local"
      /\ \A j \in Slots : j # x => slot'[j] = slot[j]
  BY Zenon DEF MergeBlank, Blank, TypeOK, Entries
<1>4. /\ merger'[m].pc = "write" /\ merger'[m].idx = x /\ merger'[m].node = merger[m].node
      /\ \A k \in Mergers : k # m => merger'[k] = merger[k]
  BY MoveChanges, Zenon DEF MergeBlank
<1>5. CoherentAt(x)'
  BY <1>3, NodeTableAssumption, Zenon DEF CoherentAt
<1>6. PlacedBy(m)'
  BY <1>1, <1>2, <1>3, <1>4, Zenon DEF PlacedBy, MergerAt
<1>7. Unique'
  BY <1>3, Zenon DEF Orderly, Unique
<1> QED BY <1>1, <1>2, <1>3, <1>4, <1>5, <1>6, <1>7, MergerOrderly, Zenon

\* The merge writes the remote node into the slot it has picked.
LEMMA MergeWriteOrderly ==
  ASSUME TypeOK, TypeOK', Orderly, NEW m \in Mergers, MergeWrite(m)
  PROVE  Orderly'
<1>1. merger[m].pc = "write" /\ UNCHANGED <<session, monitor>>
  BY Zenon DEF MergeWrite, MergerAt
<1> PICK x \in Slots : x = merger[m].idx
  BY <1>1, InHandOf, Zenon
<1>2. /\ monitor # x /\ PlacedBy(m) /\ CoherentAt(x)
      /\ \A t \in Sessions : session[t].pc \in Owning => session[t].idx # x
  BY <1>1, InHandOf, Zenon
<1> PICK n \in Remotes : n = merger[m].node
  BY <1>1, <1>2, Zenon DEF PlacedBy
<1>3. /\ slot[x].st \in {"empty", "active"}
      /\ \A j \in Slots : slot[j].st # "empty" /\ slot[j].node = n => j = x
      /\ m = "sync" => slot[x].st = "active"
  BY <1>1, <1>2, Zenon DEF PlacedBy, MergerAt
<1>4. /\ slot'[x].st = slot[x].st /\ slot'[x].node = n
      /\ slot'[x].pid = None /\ slot'[x].origin = "remote"
      /\ \A j \in Slots : j # x => slot'[j] = slot[j]
  BY Zenon DEF MergeWrite, TypeOK, Entries
<1>5. /\ \A k \in Mergers : k # m => merger'[k] = merger[k]
      /\ IF m = "sync" THEN merger'[m].pc = "place" /\ merger'[m].idx = NoSlot
         ELSE merger'[m].pc = "state" /\ merger'[m].idx = x /\ merger'[m].node = n
  <2>1. CASE m = "sync"
    BY <2>1, PlacedChanges, Zenon DEF MergeWrite
  <2>2. CASE m # "sync"
    BY <2>2, MoveChanges, Zenon DEF MergeWrite
  <2> QED BY <2>1, <2>2, Zenon
<1>6. CoherentAt(x)'
  <2>1. m # "sync" => InHand(x)'
    BY <1>5, Zenon DEF InHand
  <2> QED BY <1>3, <1>4, <2>1, NodeTableAssumption, Zenon DEF CoherentAt
<1>7. PlacedBy(m)'
  BY <1>1, <1>3, <1>4, <1>5, Zenon DEF PlacedBy, MergerAt
<1>8. Unique'
  BY <1>3, <1>4 DEF Orderly, Unique
<1> QED BY <1>1, <1>2, <1>4, <1>5, <1>6, <1>7, <1>8, MergerOrderly, Zenon

\* The merge stores Active into the slot it has picked.
LEMMA MergeStateOrderly ==
  ASSUME TypeOK, TypeOK', Orderly, NEW m \in Mergers, MergeState(m)
  PROVE  Orderly'
<1>1. merger[m].pc = "state" /\ UNCHANGED <<session, monitor>>
  BY Zenon DEF MergeState, MergerAt
<1> PICK x \in Slots : x = merger[m].idx
  BY <1>1, InHandOf, Zenon
<1>2. /\ monitor # x /\ PlacedBy(m) /\ CoherentAt(x)
      /\ \A t \in Sessions : session[t].pc \in Owning => session[t].idx # x
  BY <1>1, InHandOf, Zenon
<1> PICK n \in Remotes : n = merger[m].node
  BY <1>1, <1>2, Zenon DEF PlacedBy
<1>3. /\ slot[x].node \in {None, n}
      /\ \A j \in Slots : slot[j].st # "empty" /\ slot[j].node = n => j = x
      /\ m # "sync" => slot[x].node = n
  BY <1>1, <1>2, Zenon DEF PlacedBy, MergerAt
<1>4. /\ slot'[x].st = "active" /\ slot'[x].node = slot[x].node
      /\ slot'[x].pid = slot[x].pid /\ slot'[x].origin = slot[x].origin
      /\ \A j \in Slots : j # x => slot'[j] = slot[j]
  BY StoreChanges, Zenon DEF MergeState, States
<1>5. /\ \A k \in Mergers : k # m => merger'[k] = merger[k]
      /\ IF m = "sync" THEN merger'[m].pc = "write" /\ merger'[m].idx = x /\ merger'[m].node = n
         ELSE merger'[m].pc = "place" /\ merger'[m].idx = NoSlot
  <2>1. CASE m = "sync"
    BY <2>1, MoveChanges, Zenon DEF MergeState
  <2>2. CASE m # "sync"
    BY <2>2, PlacedChanges, Zenon DEF MergeState
  <2> QED BY <2>1, <2>2, Zenon
<1>6. CoherentAt(x)'
  BY <1>2, <1>3, <1>4, <1>5, NodeTableAssumption, Zenon DEF CoherentAt, MergerAt
<1>7. PlacedBy(m)'
  BY <1>1, <1>3, <1>4, <1>5, Zenon DEF PlacedBy, MergerAt
<1>8. Unique'
  BY <1>3, <1>4 DEF Orderly, Unique
<1> QED BY <1>1, <1>2, <1>4, <1>5, <1>6, <1>7, <1>8, MergerOrderly, Zenon

\* As long as nobody has taken a slot that another one had in hand, every step keeps the
\* table in order.
LEMMA OrderlyStep ==
  ASSUME TypeOK, TypeOK', raced \/ Orderly, ~raced', [Next]_vars
  PROVE  Orderly'
<1>0. Orderly
  <2>1. raced => raced'
    BY Zenon DEF Next, Monitor, Age, MergeStep, Claim, Fill, Pending, Leave, Crash, Activate, Release, Expire,
           Lapse, Wipe, Merge, MergeRelease, MergeWipe, MergeCleared, MergePick, MergeBlank, MergeWrite,
           MergeState, MergeDone, Take, vars
  <2> QED BY <2>1, Zenon
<1>1. ASSUME NEW s \in Sessions, Claim(s) PROVE Orderly'
  BY <1>0, <1>1, ClaimOrderly, Zenon
<1>2. ASSUME NEW s \in Sessions, Fill(s) PROVE Orderly'
  BY <1>0, <1>2, FillOrderly, Zenon
<1>3. ASSUME NEW s \in Sessions, Pending(s) PROVE Orderly'
  BY <1>0, <1>3, PendingOrderly, Zenon
<1>4. ASSUME NEW s \in Sessions, Leave(s) PROVE Orderly'
  BY <1>0, <1>4, LeaveOrderly, Zenon
<1>5. ASSUME NEW s \in Sessions, Crash(s) PROVE Orderly'
  BY <1>0, <1>5, CrashOrderly, Zenon
<1>6. ASSUME NEW i \in Slots, Activate(i) PROVE Orderly'
  BY <1>0, <1>6, ActivateOrderly, Zenon
<1>7. ASSUME NEW i \in Slots, Release(i) PROVE Orderly'
  <2>1. ASSUME NEW t \in Sessions, session[t].pc \in Owning, session[t].idx = i PROVE FALSE
    <3>1. HeldBy(t) /\ CoherentAt(i) /\ Departed(slot[i])
      BY <1>0, <1>7, Zenon DEF Orderly, Held, Coherent, Release
    <3>2. session[t].pc = "up" /\ slot[i].st = "active" /\ slot[i].pid = t
      BY <2>1, <3>1, Zenon DEF HeldBy, CoherentAt, Departed, At, Owning
    <3> QED BY <3>1, <3>2, NodeTableAssumption, Zenon DEF Departed, Dead, Alive
  <2> QED BY <1>0, <1>7, <2>1, ReleaseOrderly, Zenon DEF Release
<1>8. ASSUME NEW i \in Slots, Expire(i) PROVE Orderly'
  <2>1. ASSUME NEW t \in Sessions, session[t].pc \in Owning, session[t].idx = i PROVE FALSE
    <3>1. HeldBy(t) /\ CoherentAt(i) /\ slot[i].st = "active" /\ slot[i].pid = None
      BY <1>0, <1>8, Zenon DEF Orderly, Held, Coherent, Expire
    <3> QED BY <2>1, <3>1, NodeTableAssumption, Zenon DEF HeldBy, CoherentAt, At, Owning
  <2> QED BY <1>0, <1>8, <2>1, ReleaseOrderly, Zenon DEF Expire
<1>9. ASSUME NEW i \in Slots, Lapse(i) PROVE FALSE
  BY <1>9, Zenon DEF Lapse
<1>10. ASSUME Wipe PROVE Orderly'
  BY <1>0, <1>10, WipeOrderly, Zenon
<1>11. ASSUME NEW m \in Mergers, NEW nodes \in SUBSET Remotes, Merge(m, nodes) PROVE Orderly'
  <2>1. \A k \in Mergers : merger[k].pc = "rest"
    BY <1>11, Zenon DEF Merge, MergerAt
  <2>2. merger'[m].pc = "clear" /\ \A k \in Mergers : k # m => merger'[k] = merger[k]
    BY <1>11 DEF Merge, TypeOK
  <2>3. merger[m].idx = NoSlot /\ merger'[m].idx = NoSlot
    BY <2>1, <2>2, Zenon DEF TypeOK
  <2> QED BY <1>0, <1>11, <2>1, <2>2, <2>3, IdleOrderly, Zenon DEF Merge
<1>12. ASSUME NEW m \in Mergers, NEW i \in Slots, MergeRelease(m, i) PROVE Orderly'
  BY <1>0, <1>12, MergeReleaseOrderly, Zenon
<1>13. ASSUME NEW m \in Mergers, MergeWipe(m) PROVE Orderly'
  BY <1>0, <1>13, MergeWipeOrderly, Zenon
<1>14. ASSUME NEW m \in Mergers, MergeCleared(m) \/ MergeDone(m) PROVE Orderly'
  <2>1. merger[m].pc \in {"clear", "place"} /\ \A k \in Mergers : k # m => merger[k].pc = "rest"
    BY <1>0, <1>14, Zenon DEF MergeCleared, MergeDone, MergerAt, Orderly, OneMerges
  <2>2. merger'[m].pc \in {"place", "rest"} /\ \A k \in Mergers : k # m => merger'[k] = merger[k]
    BY <1>14, MoveChanges DEF MergeCleared, MergeDone, Rest, TypeOK
  <2>3. merger[m].idx = NoSlot /\ merger'[m].idx = NoSlot
    BY <2>1, <2>2, Zenon DEF TypeOK
  <2> QED BY <1>0, <1>14, <2>1, <2>2, <2>3, IdleOrderly, Zenon DEF MergeCleared, MergeDone
<1>15. ASSUME NEW m \in Mergers, MergePick(m) PROVE Orderly'
  BY <1>0, <1>15, MergePickOrderly, Zenon
<1>16. ASSUME NEW m \in Mergers, MergeBlank(m) PROVE Orderly'
  BY <1>0, <1>16, MergeBlankOrderly, Zenon
<1>17. ASSUME NEW m \in Mergers, MergeWrite(m) PROVE Orderly'
  BY <1>0, <1>17, MergeWriteOrderly, Zenon
<1>18. ASSUME NEW m \in Mergers, MergeState(m) PROVE Orderly'
  BY <1>0, <1>18, MergeStateOrderly, Zenon
<1>19. CASE UNCHANGED vars
  <2>1. slot' = slot /\ session' = session /\ monitor' = monitor /\ merger' = merger
    BY <1>19, Zenon DEF vars
  <2>2. Held' /\ ClaimedOnce'
    BY <1>0, <2>1, Zenon DEF Orderly, Held, HeldBy, ClaimedOnce, At
  <2>3. Coherent'
    BY <1>0, <2>1 DEF Orderly, Coherent, CoherentAt, InHand, MergerAt
  <2>4. Freed' /\ OneMerges' /\ Unique'
    BY <1>0, <2>1, Zenon DEF Orderly, Freed, OneMerges, Unique, MergerAt
  <2>5. Placing'
    BY <1>0, <2>1, Zenon DEF Orderly, Placing, PlacedBy, MergerAt
  <2> QED BY <2>2, <2>3, <2>4, <2>5, Zenon DEF Orderly
<1>20. ASSUME NEW m \in Mergers, MergeStep(m) PROVE Orderly'
  BY <1>12, <1>13, <1>14, <1>15, <1>16, <1>17, <1>18, <1>20, Zenon DEF MergeStep
<1>21. CASE Monitor \/ Age
  BY <1>6, <1>7, <1>8, <1>9, <1>10, <1>21, Zenon DEF Monitor, Age
<1> QED
  BY <1>1, <1>2, <1>3, <1>4, <1>5, <1>11, <1>19, <1>20, <1>21, Zenon DEF Next

\* The daemon creates the table empty (ShmDiscovery::create).
LEMMA TableInit ==
  ASSUME Init
  PROVE  TableInv
<1>1. TypeOK
  <2>1. slot \in [Slots -> Entries]
    BY Zenon DEF Init, Entries, States, Blank
  <2>2. session \in [Sessions -> SessionStates] /\ \A s \in Sessions : session[s].pc = "off" /\ session[s].idx = NoSlot
    BY Zenon DEF Init, SessionStates, Off
  <2>3. merger \in [Mergers -> MergerStates] /\ \A m \in Mergers : merger[m].pc = "rest" /\ merger[m].idx = NoSlot
    BY Zenon DEF Init, MergerStates, Rest
  <2>4. monitor \in Slots \cup {NoSlot} /\ merges \in Nat /\ expiries \in Nat
    BY Zenon DEF Init
  <2>5. raced \in BOOLEAN
    BY Zenon DEF Init
  <2> QED BY <2>1, <2>2, <2>3, <2>4, <2>5, Zenon DEF TypeOK, At
<1>2. /\ \A i \in Slots : slot[i].st = "empty" /\ slot[i].node = None /\ slot[i].pid = None /\ slot[i].origin = "local"
      /\ \A s \in Sessions : session[s].pc = "off"
      /\ \A m \in Mergers : merger[m].pc = "rest"
      /\ monitor = NoSlot
  BY Zenon DEF Init, Blank, Off, Rest
<1>3. Orderly
  BY <1>2, NodeTableAssumption, Zenon DEF Orderly, Held, HeldBy, ClaimedOnce, Coherent, CoherentAt, Freed, OneMerges, Placing,
       PlacedBy, Unique, InHand, At, MergerAt
<1> QED BY <1>1, <1>3, Zenon DEF TableInv

\* The invariant of the node table is inductive.
LEMMA TableStep ==
  ASSUME TableInv, [Next]_vars
  PROVE  TableInv'
BY TableTyped, OrderlyStep, Zenon DEF TableInv

\* The invariant of the node table holds in every reachable state, for any number of
\* slots, sessions and remote nodes.
THEOREM TableInvariant == Spec => []TableInv
<1>1. Init => TableInv
  BY TableInit, Zenon
<1>2. TableInv /\ [Next]_vars => TableInv'
  BY TableStep, Zenon
<1> QED BY <1>1, <1>2, PTL DEF Spec

\* The invariant of the node table has the properties that readers of the table rely on.
LEMMA TableInvImplies == TableInv => IdentityUnlessRaced /\ PublishedOnceUnlessRaced
<1> SUFFICES ASSUME TypeOK, Orderly PROVE Identity /\ Unique /\ Published
  BY Zenon DEF TableInv, IdentityUnlessRaced, PublishedOnceUnlessRaced
<1>1. Identity
  BY TypedShaped, NodeTableAssumption DEF Shaped, Orderly, Held, HeldBy, Coherent, CoherentAt, Identity, At
<1>2. Published
  BY Zenon DEF Orderly, Coherent, CoherentAt, Published
<1> QED BY <1>1, <1>2, Zenon DEF Orderly

\* An entry that a session has published says who the session is as long as it is up,
\* unless a slot was taken while somebody had it in hand (claim_free_slot,
\* process_departed_nodes, merge_remote_nodes).
THEOREM IdentityUnlessRacedHolds == Spec => []IdentityUnlessRaced
BY TableInvariant, TableInvImplies, PTL

\* An Active entry is complete and no node has two of them, unless a slot was taken while
\* somebody had it in hand (with_quic, merge_remote_nodes).
THEOREM PublishedOnceUnlessRacedHolds == Spec => []PublishedOnceUnlessRaced
BY TableInvariant, TableInvImplies, PTL

-----------------------------------------------------------------------------
(* The inductive invariant of the start *)

\* The steps of a session that it takes with the lock, and those with a daemon spawned.
Locked == {"check", "wait", "orphans", "spawn", "watch", "settle", "await"}
Spawned == {"watch", "settle", "await"}

LockHeld == \A s \in Sessions : joiner[s].pc \in Locked <=> lock = s

\* Daemons get their numbers one after the other; daemon 0 was there before.
Numbered ==
  /\ \A d \in D!Daemons : daemon[d] = "none" <=> d > started
  /\ daemon[0] = "dead"
  /\ shm.by <= started /\ pidFile <= started
  /\ \A s \in Sessions : joiner[s].of <= started

\* How far a daemon has come shows in the pid file and in the segment.
Shown ==
  \A d \in D!Daemons :
    /\ daemon[d] \in {"pid", "cleared", "opened", "created", "serving"} => pidFile = d
    /\ daemon[d] = "cleared" => shm = D!NoShm
    /\ daemon[d] = "opened" => shm.by = d /\ ~ shm.sized /\ ~ shm.ready
    /\ daemon[d] = "created" => shm.by = d /\ shm.sized /\ ~ shm.ready
    /\ daemon[d] = "serving" => shm.by = d /\ shm.sized /\ shm.ready
    /\ daemon[d] \in {"new", "forked"} => pidFile # d
    /\ daemon[d] \in {"new", "forked", "pid", "cleared"} => shm.by # d

\* Two daemons live only while one that a user has started finds the other serving.
AtMostTwo ==
  \A d, e \in D!Daemons : D!Alive(d) /\ D!Alive(e) /\ d # e =>
    \/ daemon[d] = "new" /\ daemon[e] = "serving"
    \/ daemon[d] = "serving" /\ daemon[e] = "new"

\* The daemon that a session has spawned is the only one.
OnlyChild ==
  \A s \in Sessions :
    /\ joiner[s].pc = "spawn" => \A d \in D!Daemons : ~ D!Alive(d)
    /\ joiner[s].pc \in Spawned =>
         joiner[s].of \in D!Daemons /\ \A d \in D!Daemons : D!Alive(d) => d = joiner[s].of
    /\ joiner[s].pc # "settle"

JoinedServing ==
  \A s \in Sessions : joiner[s].pc = "up" =>
    joiner[s].of \in D!Daemons /\ daemon[joiner[s].of] \in {"serving", "dead"}

\* Without faults the daemon that a session has spawned lives, and a daemon that a session
\* has found goes on serving: no other session is past its look at the segment.
Faultless ==
  \A s \in Sessions :
    /\ joiner[s].pc \in Spawned => D!Alive(joiner[s].of)
    /\ joiner[s].pc = "join" =>
         /\ D!Live
         /\ \A t \in Sessions : joiner[t].pc \notin Locked \ {"check"}
    /\ joiner[s].pc # "failed"

Uncrossed == Shown /\ AtMostTwo /\ OnlyChild /\ JoinedServing /\ (faults > 0 \/ Faultless)
Aborted == \A d \in D!Daemons : daemon[d] = "aborted" => faults > 0
StartInv == D!TypeOK /\ LockHeld /\ Numbered /\ Aborted /\ (crossed \/ Uncrossed)

-----------------------------------------------------------------------------
(* Lemmas about the start *)

\* A step of a daemon is one of no other daemon.
LEMMA StepChanges ==
  ASSUME D!TypeOK, NEW d \in D!Daemons, NEW st \in D!DaemonStates, D!Step(d, st)
  PROVE  /\ daemon' \in [D!Daemons -> D!DaemonStates]
         /\ daemon'[d] = st /\ \A e \in D!Daemons : e # d => daemon'[e] = daemon[e]
BY Zenon DEF D!TypeOK, D!Step

\* A step of a session is one of no other session, and keeps the daemon it has spawned.
LEMMA JoinerChanges ==
  ASSUME D!TypeOK, NEW s \in Sessions, NEW pc \in D!SessionStates, D!Goto(s, pc)
  PROVE  /\ joiner' \in [Sessions -> [pc : D!SessionStates, of : D!Daemons \cup {D!Nobody}]]
         /\ joiner'[s].pc = pc /\ joiner'[s].of = joiner[s].of
         /\ \A t \in Sessions : t # s => joiner'[t] = joiner[t]
BY Zenon DEF D!TypeOK, D!Goto

\* The steps of daemons and sessions keep the types.
LEMMA StartTyped ==
  ASSUME D!TypeOK, [D!Next]_startVars
  PROVE  D!TypeOK'
<1> USE StartAssumption
<1>1. ASSUME NEW d \in D!Daemons, D!CheckPid(d) PROVE D!TypeOK'
  BY <1>1, StepChanges, Zenon DEF D!TypeOK, D!CheckPid, D!counters, D!DaemonStates
<1>2. ASSUME NEW d \in D!Daemons, D!WritePid(d) PROVE D!TypeOK'
  BY <1>2, StepChanges, Zenon DEF D!TypeOK, D!WritePid, D!counters, D!DaemonStates
<1>3. ASSUME NEW d \in D!Daemons, D!RemoveStale(d) PROVE D!TypeOK'
  BY <1>3, StepChanges, Zenon DEF D!TypeOK, D!RemoveStale, D!counters, D!DaemonStates, D!NoShm, D!Segments
<1>4. ASSUME NEW d \in D!Daemons, D!CreateShm(d) PROVE D!TypeOK'
  <2>1. daemon' \in [D!Daemons -> D!DaemonStates]
    BY <1>4, StepChanges, Zenon DEF D!CreateShm, D!DaemonStates
  <2>2. [by |-> d, sized |-> FALSE, ready |-> FALSE] \in D!Segments
    BY Zenon DEF D!Segments
  <2>3. shm' \in D!Segments
    BY <1>4, <2>2, Zenon DEF D!TypeOK, D!CreateShm
  <2> QED BY <1>4, <2>1, <2>3, Zenon DEF D!TypeOK, D!CreateShm, D!counters
<1>5. ASSUME NEW d \in D!Daemons, D!Ready(d) PROVE D!TypeOK'
  BY <1>5, StepChanges, Zenon DEF D!TypeOK, D!Ready, D!counters, D!DaemonStates, D!Segments
<1>5a. ASSUME NEW d \in D!Daemons, D!SizeShm(d) PROVE D!TypeOK'
  BY <1>5a, StepChanges, Zenon DEF D!TypeOK, D!SizeShm, D!counters, D!DaemonStates, D!Segments
<1>6. ASSUME NEW d \in D!Daemons, D!Crash(d) PROVE D!TypeOK'
  BY <1>6, StepChanges DEF D!TypeOK, D!Crash, D!DaemonStates
<1>7. ASSUME NEW d \in D!Daemons, D!Stop(d) PROVE D!TypeOK'
  BY <1>7, StepChanges DEF D!TypeOK, D!Stop, D!DaemonStates
<1>8. ASSUME D!StartByHand PROVE D!TypeOK'
  <2>1. started + 1 \in D!Daemons
    BY <1>8 DEF D!TypeOK, D!StartByHand, D!Daemons
  <2> QED BY <1>8, <2>1, StepChanges DEF D!TypeOK, D!StartByHand, D!DaemonStates
<1>9. ASSUME NEW s \in Sessions, D!Lock(s) PROVE D!TypeOK'
  BY <1>9, JoinerChanges, Zenon DEF D!TypeOK, D!Lock, D!Taken, D!counters, D!SessionStates
<1>10. ASSUME NEW s \in Sessions, D!Check(s) PROVE D!TypeOK'
  <2>1. /\ joiner' \in [Sessions -> [pc : D!SessionStates, of : D!Daemons \cup {D!Nobody}]]
        /\ lock' \in {lock, D!Nobody}
    BY <1>10, JoinerChanges, Zenon DEF D!Check, D!Done, D!SessionStates
  <2> QED BY <1>10, <2>1, Zenon DEF D!TypeOK, D!Check, D!counters
<1>11. ASSUME NEW s \in Sessions, D!WaitLive(s) PROVE D!TypeOK'
  BY <1>11, JoinerChanges, Zenon DEF D!TypeOK, D!WaitLive, D!Done, D!counters, D!SessionStates
<1>12. ASSUME NEW s \in Sessions, D!GiveUpWaiting(s) PROVE D!TypeOK'
  BY <1>12, JoinerChanges DEF D!TypeOK, D!GiveUpWaiting, D!TimesOut, D!NoShm, D!Segments, D!SessionStates, D!DaemonStates
<1>13. ASSUME NEW s \in Sessions, D!TerminateOrphans(s) PROVE D!TypeOK'
  BY <1>13, JoinerChanges, Zenon DEF D!TypeOK, D!TerminateOrphans, D!counters, D!SessionStates, D!DaemonStates
<1>14. ASSUME NEW s \in Sessions, D!Spawn(s) PROVE D!TypeOK'
  <2>1. started + 1 \in D!Daemons
    BY <1>14 DEF D!TypeOK, D!Spawn, D!Daemons
  <2> QED BY <1>14, <2>1, StepChanges, Zenon DEF D!TypeOK, D!Spawn, D!DaemonStates, D!SessionStates
<1>15. ASSUME NEW s \in Sessions, D!ChildExited(s) PROVE D!TypeOK'
  BY <1>15, JoinerChanges, Zenon DEF D!TypeOK, D!ChildExited, D!AfterExit, D!Done, D!counters, D!SessionStates
<1>16. ASSUME NEW s \in Sessions, D!SeesLive(s) PROVE D!TypeOK'
  BY <1>16, JoinerChanges, Zenon DEF D!TypeOK, D!SeesLive, D!counters, D!SessionStates
<1>17. ASSUME NEW s \in Sessions, D!Settle(s) PROVE D!TypeOK'
  <2>1. /\ joiner' \in [Sessions -> [pc : D!SessionStates, of : D!Daemons \cup {D!Nobody}]]
        /\ lock' \in {lock, D!Nobody}
    BY <1>17, JoinerChanges, Zenon DEF D!Settle, D!AfterExit, D!Done, D!SessionStates
  <2>2. D!NoShm \in D!Segments
    BY Zenon DEF D!NoShm, D!Segments
  <2>3. shm' \in D!Segments
    BY <1>17, <2>2, Zenon DEF D!Settle, D!TypeOK
  <2> QED BY <1>17, <2>1, <2>3, Zenon DEF D!TypeOK, D!Settle, D!counters
<1>18. ASSUME NEW s \in Sessions, D!AwaitLive(s) PROVE D!TypeOK'
  BY <1>18, JoinerChanges, Zenon DEF D!TypeOK, D!AwaitLive, D!Done, D!counters, D!SessionStates
<1>19. ASSUME NEW s \in Sessions, D!Fail(s) PROVE D!TypeOK'
  <2>1. daemon' \in [D!Daemons -> D!DaemonStates]
    BY <1>19, Zenon DEF D!TypeOK, D!Fail, D!DaemonStates
  <2> QED BY <1>19, <2>1, JoinerChanges DEF D!TypeOK, D!Fail, D!Done, D!TimesOut, D!SessionStates
<1>20. ASSUME NEW s \in Sessions, D!Join(s) PROVE D!TypeOK'
  BY <1>20, Zenon DEF D!TypeOK, D!Join, D!counters, D!SessionStates, D!Segments
<1>21. ASSUME NEW s \in Sessions, D!JoinFails(s) PROVE D!TypeOK'
  BY <1>21, JoinerChanges DEF D!TypeOK, D!JoinFails, D!TimesOut, D!SessionStates
<1>22. CASE UNCHANGED startVars
  BY <1>22, Zenon DEF D!TypeOK, startVars
<1>22a. ASSUME NEW s \in Sessions, D!Killed(s) PROVE D!TypeOK'
  <2>1. lock' \in {lock, D!Nobody}
    BY <1>22a, Zenon DEF D!Killed
  <2> QED BY <1>22a, <2>1, JoinerChanges, Zenon DEF D!TypeOK, D!Killed, D!counters, D!SessionStates
<1>23. ASSUME NEW s \in Sessions, D!SessionStep(s) PROVE D!TypeOK'
  BY <1>9, <1>10, <1>11, <1>12, <1>13, <1>14, <1>15, <1>16, <1>17, <1>18, <1>19, <1>20, <1>21, <1>22a, <1>23, Zenon
     DEF D!SessionStep
<1> QED
  BY <1>1, <1>2, <1>3, <1>4, <1>5, <1>5a, <1>6, <1>7, <1>8, <1>22, <1>23, Zenon DEF D!Next, D!DaemonStep

\* open_live_daemon_shm: there is a segment with a table that is ready, and the process
\* in its header is alive.
LEMMA LiveIs ==
  ASSUME D!TypeOK
  PROVE  D!Live <=> shm.sized /\ shm.ready /\ shm.by \in D!Daemons /\ D!Alive(shm.by)
<1>1. CASE shm = D!NoShm
  BY <1>1, StartAssumption, Zenon DEF D!Live, D!Opened, D!NoShm, D!Alive
<1>2. CASE shm # D!NoShm /\ shm.sized /\ shm.ready
  BY <1>2, StartAssumption, Zenon DEF D!Live, D!Opened, D!Alive, D!TypeOK, D!Segments
<1>3. CASE shm # D!NoShm /\ ~ (shm.sized /\ shm.ready)
  BY <1>3, Zenon DEF D!Live, D!Opened
<1> QED BY <1>1, <1>2, <1>3, Zenon

Booked == LockHeld /\ Numbered /\ Aborted

\* The lock is with the session that is in ensure_daemon_running, daemons are numbered as
\* they start, and one that exits with an error has had a fault, even when a user crosses
\* a start.
LEMMA BookedStep ==
  ASSUME D!TypeOK, Booked, [D!Next]_startVars
  PROVE  Booked'
<1> USE StartAssumption DEF Booked
<1>0. /\ started \in Nat /\ started <= MaxDaemons /\ faults \in Nat /\ lock \in Sessions \cup {D!Nobody}
      /\ D!Nobody = -1 /\ D!Daemons = 0..MaxDaemons /\ MaxDaemons \in Nat /\ D!Nobody \notin Sessions
  BY DEF D!TypeOK, D!Daemons, D!Nobody
<1>1. ASSUME NEW d \in D!Daemons, D!CheckPid(d) PROVE Booked'
  <2>1. daemon'[d] \in {"refused", "forked"} /\ \A e \in D!Daemons : e # d => daemon'[e] = daemon[e]
    BY <1>1, StepChanges, Zenon DEF D!CheckPid, D!DaemonStates
  <2> QED BY <1>0, <1>1, <2>1 DEF D!CheckPid, D!counters, LockHeld, Numbered, Aborted
<1>2. ASSUME NEW d \in D!Daemons, D!WritePid(d) PROVE Booked'
  <2>1. daemon'[d] = "pid" /\ \A e \in D!Daemons : e # d => daemon'[e] = daemon[e]
    BY <1>2, StepChanges, Zenon DEF D!WritePid, D!DaemonStates
  <2> QED BY <1>0, <1>2, <2>1 DEF D!WritePid, D!counters, LockHeld, Numbered, Aborted
<1>3. ASSUME NEW d \in D!Daemons, D!RemoveStale(d) PROVE Booked'
  <2>1. daemon'[d] = "cleared" /\ \A e \in D!Daemons : e # d => daemon'[e] = daemon[e]
    BY <1>3, StepChanges, Zenon DEF D!RemoveStale, D!DaemonStates
  <2> QED BY <1>0, <1>3, <2>1 DEF D!RemoveStale, D!counters, D!NoShm, LockHeld, Numbered, Aborted
<1>4. ASSUME NEW d \in D!Daemons, D!CreateShm(d) PROVE Booked'
  <2>1. daemon'[d] \in {"opened", "dead"} /\ \A e \in D!Daemons : e # d => daemon'[e] = daemon[e]
    BY <1>4, StepChanges, Zenon DEF D!CreateShm, D!DaemonStates
  <2>2. shm'.by \in {shm.by, d}
    BY <1>4 DEF D!CreateShm
  <2> QED BY <1>0, <1>4, <2>1, <2>2 DEF D!CreateShm, D!counters, LockHeld, Numbered, Aborted
<1>5a. ASSUME NEW d \in D!Daemons, D!SizeShm(d) PROVE Booked'
  <2>1. daemon'[d] = "created" /\ \A e \in D!Daemons : e # d => daemon'[e] = daemon[e]
    BY <1>5a, StepChanges, Zenon DEF D!SizeShm, D!DaemonStates
  <2>2. shm'.by = shm.by
    BY <1>5a, Zenon DEF D!SizeShm, D!TypeOK, D!Segments
  <2> QED BY <1>0, <1>5a, <2>1, <2>2 DEF D!SizeShm, D!counters, LockHeld, Numbered, Aborted
<1>5. ASSUME NEW d \in D!Daemons, D!Ready(d) PROVE Booked'
  <2>1. daemon'[d] \in {"serving", "dead"} /\ \A e \in D!Daemons : e # d => daemon'[e] = daemon[e]
    BY <1>5, StepChanges, Zenon DEF D!Ready, D!DaemonStates
  <2>2. shm'.by = shm.by
    BY <1>5, Zenon DEF D!Ready, D!TypeOK, D!Segments
  <2> QED BY <1>0, <1>5, <2>1, <2>2 DEF D!Ready, D!counters, LockHeld, Numbered, Aborted
<1>6. ASSUME NEW d \in D!Daemons, D!Crash(d) PROVE Booked'
  <2>1. daemon'[d] \in {"aborted", "dead"} /\ \A e \in D!Daemons : e # d => daemon'[e] = daemon[e]
    BY <1>6, StepChanges, Zenon DEF D!Crash, D!DaemonStates
  <2>2. daemon[d] \notin {"none", "dead"}
    BY <1>6, Zenon DEF D!Crash, D!Alive
  <2>3. faults' > 0
    BY <1>0, <1>6 DEF D!Crash
  <2> QED BY <1>0, <1>6, <2>1, <2>2, <2>3 DEF D!Crash, LockHeld, Numbered, Aborted
<1>7. ASSUME NEW d \in D!Daemons, D!Stop(d) PROVE Booked'
  <2>1. daemon'[d] = "dead" /\ \A e \in D!Daemons : e # d => daemon'[e] = daemon[e]
    BY <1>7, StepChanges, Zenon DEF D!Stop, D!DaemonStates
  <2> QED BY <1>0, <1>7, <2>1 DEF D!Stop, LockHeld, Numbered, Aborted
<1>8. ASSUME D!StartByHand PROVE Booked'
  <2>1. started + 1 \in D!Daemons
    BY <1>0, <1>8 DEF D!StartByHand
  <2>2. daemon'[started + 1] = "new" /\ \A e \in D!Daemons : e # started + 1 => daemon'[e] = daemon[e]
    BY <1>8, <2>1, StepChanges, Zenon DEF D!StartByHand, D!DaemonStates
  <2>3. shm.by \in Int /\ pidFile \in Int /\ \A s \in Sessions : joiner[s].of \in Int
    BY <1>0 DEF D!TypeOK, D!Segments
  <2> QED BY <1>0, <1>8, <2>1, <2>2, <2>3 DEF D!StartByHand, LockHeld, Numbered, Aborted
<1>9. ASSUME NEW s \in Sessions, D!Lock(s) PROVE Booked'
  <2>1. /\ joiner'[s].pc = "check" /\ joiner'[s].of = joiner[s].of
        /\ \A t \in Sessions : t # s => joiner'[t] = joiner[t]
    BY <1>9, JoinerChanges, Zenon DEF D!Lock, D!SessionStates
  <2> QED BY <1>0, <1>9, <2>1, Zenon DEF D!Lock, D!Taken, D!counters, LockHeld, Numbered, Aborted, Locked
<1>10. ASSUME NEW s \in Sessions, joiner[s].pc \in Locked,
              joiner'[s].pc \in Locked <=> lock' = s, lock' \in {s, D!Nobody},
              joiner'[s].of = joiner[s].of, \A t \in Sessions : t # s => joiner'[t] = joiner[t],
              \A d \in D!Daemons : daemon'[d] = daemon[d] \/ (daemon'[d] = "dead" /\ D!Alive(d)),
              shm'.by \in {shm.by, D!Nobody}, pidFile' \in {pidFile, D!Nobody}, started' = started,
              faults' >= faults, faults' \in Nat
       PROVE  Booked'
  BY <1>0, <1>10 DEF LockHeld, Numbered, Aborted, D!Alive
<1>11. ASSUME NEW s \in Sessions, D!Check(s) PROVE Booked'
  <2>1. joiner[s].pc \in Locked /\ lock = s
    BY <1>11, Zenon DEF D!Check, D!At, Locked, LockHeld
  <2>2. /\ joiner'[s].pc \in Locked <=> lock' = s
        /\ lock' \in {s, D!Nobody} /\ joiner'[s].of = joiner[s].of
        /\ \A t \in Sessions : t # s => joiner'[t] = joiner[t]
    BY <1>0, <1>11, <2>1, JoinerChanges, Zenon DEF D!Check, D!Done, D!SessionStates, Locked
  <2>3. /\ shm' = shm /\ pidFile' = pidFile /\ daemon' = daemon
        /\ started' = started /\ faults' = faults /\ faults >= faults
    BY <1>0, <1>11 DEF D!Check, D!counters
  <2> QED BY <1>0, <1>10, <2>1, <2>2, <2>3, Zenon
<1>12. ASSUME NEW s \in Sessions, D!WaitLive(s) PROVE Booked'
  <2>1. joiner[s].pc \in Locked /\ lock = s
    BY <1>12, Zenon DEF D!WaitLive, D!At, Locked, LockHeld
  <2>2. /\ joiner'[s].pc \in Locked <=> lock' = s
        /\ lock' \in {s, D!Nobody} /\ joiner'[s].of = joiner[s].of
        /\ \A t \in Sessions : t # s => joiner'[t] = joiner[t]
    BY <1>0, <1>12, <2>1, JoinerChanges, Zenon DEF D!WaitLive, D!Done, D!SessionStates, Locked
  <2>3. /\ shm' = shm /\ pidFile' = pidFile /\ daemon' = daemon
        /\ started' = started /\ faults' = faults /\ faults >= faults
    BY <1>0, <1>12 DEF D!WaitLive, D!counters
  <2> QED BY <1>0, <1>10, <2>1, <2>2, <2>3, Zenon
<1>13. ASSUME NEW s \in Sessions, D!GiveUpWaiting(s) PROVE Booked'
  <2>1. joiner[s].pc \in Locked /\ lock = s
    BY <1>13, Zenon DEF D!GiveUpWaiting, D!At, Locked, LockHeld
  <2>2. /\ joiner'[s].pc \in Locked <=> lock' = s
        /\ lock' \in {s, D!Nobody} /\ joiner'[s].of = joiner[s].of
        /\ \A t \in Sessions : t # s => joiner'[t] = joiner[t]
    BY <1>0, <1>13, <2>1, JoinerChanges, Zenon DEF D!GiveUpWaiting, D!TimesOut, D!SessionStates, Locked
  <2>3. \A d \in D!Daemons : daemon'[d] = daemon[d] \/ (daemon'[d] = "dead" /\ D!Alive(d))
    BY <1>13, Zenon DEF D!GiveUpWaiting
  <2>4. faults' >= faults /\ faults' \in Nat
    BY <1>0, <1>13 DEF D!GiveUpWaiting, D!TimesOut
  <2>5. shm'.by = D!Nobody /\ pidFile' = D!Nobody /\ started' = started
    BY <1>13, Zenon DEF D!GiveUpWaiting, D!NoShm
  <2> QED BY <1>0, <1>10, <2>1, <2>2, <2>3, <2>4, <2>5, Zenon
<1>14. ASSUME NEW s \in Sessions, D!TerminateOrphans(s) PROVE Booked'
  <2>1. joiner[s].pc \in Locked /\ lock = s
    BY <1>14, Zenon DEF D!TerminateOrphans, D!At, Locked, LockHeld
  <2>2. /\ joiner'[s].pc \in Locked <=> lock' = s
        /\ lock' \in {s, D!Nobody} /\ joiner'[s].of = joiner[s].of
        /\ \A t \in Sessions : t # s => joiner'[t] = joiner[t]
    BY <1>0, <1>14, <2>1, JoinerChanges, Zenon DEF D!TerminateOrphans, D!SessionStates, Locked
  <2>3. \A d \in D!Daemons : daemon'[d] = daemon[d] \/ (daemon'[d] = "dead" /\ D!Alive(d))
    BY <1>14, Zenon DEF D!TerminateOrphans, D!Terminated
  <2>4. pidFile' \in {pidFile, D!Nobody}
    BY <1>14, Zenon DEF D!TerminateOrphans
  <2>5. shm' = shm /\ started' = started /\ faults' = faults /\ faults >= faults
    BY <1>0, <1>14 DEF D!TerminateOrphans, D!counters
  <2> QED BY <1>0, <1>10, <2>1, <2>2, <2>3, <2>4, <2>5, Zenon
<1>15. ASSUME NEW s \in Sessions, D!ChildExited(s) PROVE Booked'
  <2>1. joiner[s].pc \in Locked /\ lock = s
    BY <1>15, Zenon DEF D!ChildExited, D!At, Locked, LockHeld
  <2>2. /\ joiner'[s].pc \in Locked <=> lock' = s
        /\ lock' \in {s, D!Nobody} /\ joiner'[s].of = joiner[s].of
        /\ \A t \in Sessions : t # s => joiner'[t] = joiner[t]
    BY <1>0, <1>15, <2>1, JoinerChanges, Zenon DEF D!ChildExited, D!AfterExit, D!Done, D!SessionStates, Locked
  <2>3. /\ shm' = shm /\ pidFile' = pidFile /\ daemon' = daemon
        /\ started' = started /\ faults' = faults /\ faults >= faults
    BY <1>0, <1>15 DEF D!ChildExited, D!counters
  <2> QED BY <1>0, <1>10, <2>1, <2>2, <2>3, Zenon
<1>16. ASSUME NEW s \in Sessions, D!SeesLive(s) PROVE Booked'
  <2>1. joiner[s].pc \in Locked /\ lock = s
    BY <1>16, Zenon DEF D!SeesLive, D!At, Locked, LockHeld
  <2>2. /\ joiner'[s].pc \in Locked <=> lock' = s
        /\ lock' \in {s, D!Nobody} /\ joiner'[s].of = joiner[s].of
        /\ \A t \in Sessions : t # s => joiner'[t] = joiner[t]
    BY <1>0, <1>16, <2>1, JoinerChanges, Zenon DEF D!SeesLive, D!SessionStates, Locked
  <2>3. /\ shm' = shm /\ pidFile' = pidFile /\ daemon' = daemon
        /\ started' = started /\ faults' = faults /\ faults >= faults
    BY <1>0, <1>16 DEF D!SeesLive, D!counters
  <2> QED BY <1>0, <1>10, <2>1, <2>2, <2>3, Zenon
<1>17. ASSUME NEW s \in Sessions, D!Settle(s) PROVE Booked'
  <2>1. joiner[s].pc \in Locked /\ lock = s
    BY <1>17, Zenon DEF D!Settle, D!At, Locked, LockHeld
  <2>2. /\ joiner'[s].pc \in Locked <=> lock' = s
        /\ lock' \in {s, D!Nobody} /\ joiner'[s].of = joiner[s].of
        /\ \A t \in Sessions : t # s => joiner'[t] = joiner[t]
    BY <1>0, <1>17, <2>1, JoinerChanges, Zenon DEF D!Settle, D!AfterExit, D!Done, D!SessionStates, Locked
  <2>3. shm'.by \in {shm.by, D!Nobody}
    BY <1>17 DEF D!Settle, D!NoShm
  <2>4. pidFile' = pidFile /\ daemon' = daemon /\ started' = started /\ faults' = faults /\ faults >= faults
    BY <1>0, <1>17 DEF D!Settle, D!counters
  <2> QED BY <1>0, <1>10, <2>1, <2>2, <2>3, <2>4, Zenon
<1>18. ASSUME NEW s \in Sessions, D!AwaitLive(s) PROVE Booked'
  <2>1. joiner[s].pc \in Locked /\ lock = s
    BY <1>18, Zenon DEF D!AwaitLive, D!At, Locked, LockHeld
  <2>2. /\ joiner'[s].pc \in Locked <=> lock' = s
        /\ lock' \in {s, D!Nobody} /\ joiner'[s].of = joiner[s].of
        /\ \A t \in Sessions : t # s => joiner'[t] = joiner[t]
    BY <1>0, <1>18, <2>1, JoinerChanges, Zenon DEF D!AwaitLive, D!Done, D!SessionStates, Locked
  <2>3. /\ shm' = shm /\ pidFile' = pidFile /\ daemon' = daemon
        /\ started' = started /\ faults' = faults /\ faults >= faults
    BY <1>0, <1>18 DEF D!AwaitLive, D!counters
  <2> QED BY <1>0, <1>10, <2>1, <2>2, <2>3, Zenon
<1>19. ASSUME NEW s \in Sessions, D!Fail(s) PROVE Booked'
  <2>1. joiner[s].pc \in Locked /\ lock = s
    BY <1>19, Zenon DEF D!Fail, D!At, Locked, LockHeld
  <2>2. /\ joiner'[s].pc \in Locked <=> lock' = s
        /\ lock' \in {s, D!Nobody} /\ joiner'[s].of = joiner[s].of
        /\ \A t \in Sessions : t # s => joiner'[t] = joiner[t]
    BY <1>0, <1>19, <2>1, JoinerChanges, Zenon DEF D!Fail, D!Done, D!SessionStates, Locked
  <2>3. \A d \in D!Daemons : daemon'[d] = daemon[d] \/ (daemon'[d] = "dead" /\ daemon[d] = "new")
    BY <1>19, Zenon DEF D!Fail, D!TypeOK
  <2>4. \A d \in D!Daemons : daemon[d] = "new" => D!Alive(d)
    BY <1>0 DEF D!Alive
  <2>5. faults' >= faults /\ faults' \in Nat
    BY <1>0, <1>19 DEF D!Fail, D!TimesOut
  <2>6. shm' = shm /\ pidFile' = pidFile /\ started' = started
    BY <1>19, Zenon DEF D!Fail
  <2> QED BY <1>0, <1>10, <2>1, <2>2, <2>3, <2>4, <2>5, <2>6, Zenon
<1>20. ASSUME NEW s \in Sessions, D!Spawn(s) PROVE Booked'
  <2>1. started + 1 \in D!Daemons
    BY <1>0, <1>20 DEF D!Spawn
  <2>2. daemon'[started + 1] = "new" /\ \A e \in D!Daemons : e # started + 1 => daemon'[e] = daemon[e]
    BY <1>20, <2>1, StepChanges, Zenon DEF D!Spawn, D!DaemonStates
  <2>3. shm.by \in Int /\ pidFile \in Int /\ \A t \in Sessions : joiner[t].of \in Int
    BY <1>0 DEF D!TypeOK, D!Segments
  <2>4. /\ joiner[s].pc = "spawn" /\ joiner'[s].pc = "watch" /\ joiner'[s].of = started + 1
        /\ \A t \in Sessions : t # s => joiner'[t] = joiner[t]
    BY <1>20, Zenon DEF D!Spawn, D!At, D!TypeOK
  <2> QED BY <1>0, <1>20, <2>1, <2>2, <2>3, <2>4 DEF D!Spawn, LockHeld, Numbered, Aborted, Locked
<1>21. ASSUME NEW s \in Sessions, D!Join(s) PROVE Booked'
  <2>1. /\ joiner[s].pc = "join" /\ joiner'[s].pc = "up" /\ joiner'[s].of = shm.by
        /\ \A t \in Sessions : t # s => joiner'[t] = joiner[t]
    BY <1>21, Zenon DEF D!Join, D!At, D!TypeOK
  <2> QED BY <1>0, <1>21, <2>1, Zenon DEF D!Join, D!counters, LockHeld, Numbered, Aborted, Locked
<1>22. ASSUME NEW s \in Sessions, D!JoinFails(s) PROVE Booked'
  <2>1. /\ joiner[s].pc = "join" /\ joiner'[s].pc = "failed" /\ joiner'[s].of = joiner[s].of
        /\ \A t \in Sessions : t # s => joiner'[t] = joiner[t]
    BY <1>22, JoinerChanges, Zenon DEF D!JoinFails, D!At, D!SessionStates
  <2>2. faults' >= faults /\ faults' \in Nat
    BY <1>0, <1>22 DEF D!JoinFails, D!TimesOut
  <2> QED BY <1>0, <1>22, <2>1, <2>2 DEF D!JoinFails, LockHeld, Numbered, Aborted, Locked
<1>22a. ASSUME NEW s \in Sessions, D!Killed(s) PROVE Booked'
  <2>1. /\ joiner'[s].pc = "killed" /\ joiner'[s].of = joiner[s].of
        /\ \A t \in Sessions : t # s => joiner'[t] = joiner[t]
    BY <1>22a, JoinerChanges, Zenon DEF D!Killed, D!SessionStates
  <2>2. lock' = IF lock = s THEN D!Nobody ELSE lock
    BY <1>22a, Zenon DEF D!Killed
  <2>3. LockHeld'
    BY <1>0, <2>1, <2>2, Zenon DEF LockHeld, Locked
  <2>4. UNCHANGED <<shm, pidFile, daemon, started, faults>>
    BY <1>22a, Zenon DEF D!Killed, D!counters
  <2> QED BY <2>1, <2>3, <2>4, Zenon DEF Numbered, Aborted
<1>23. CASE UNCHANGED startVars
  BY <1>23, Zenon DEF startVars, LockHeld, Numbered, Aborted
<1>24. ASSUME NEW s \in Sessions, D!SessionStep(s) PROVE Booked'
  BY <1>9, <1>11, <1>12, <1>13, <1>14, <1>15, <1>16, <1>17, <1>18, <1>19, <1>20, <1>21, <1>22, <1>22a, <1>24, Zenon
     DEF D!SessionStep
<1> QED
  BY <1>1, <1>2, <1>3, <1>4, <1>5, <1>5a, <1>6, <1>7, <1>8, <1>23, <1>24, Zenon DEF D!Next, D!DaemonStep

\* A segment stays live while nobody replaces it and its daemon stays as it is.
LEMMA LivePersists ==
  ASSUME D!Live, shm' = shm, daemon'[shm.by] = daemon[shm.by]
  PROVE  D!Live'
BY Zenon DEF D!Live, D!Opened, D!Alive

\* The daemon of a live segment serves: the magic value comes last
\* (ShmDiscovery::create).
LEMMA LiveServes ==
  ASSUME D!TypeOK, Shown, D!Live
  PROVE  shm.by \in D!Daemons /\ daemon[shm.by] = "serving"
<1>1. shm.sized /\ shm.ready /\ shm.by \in D!Daemons /\ D!Alive(shm.by)
  BY LiveIs, Zenon
<1>2. daemon[shm.by] \in {"new", "forked", "pid", "cleared", "opened", "created", "serving"}
  BY <1>1, Zenon DEF D!TypeOK, D!DaemonStates, D!Alive
<1> QED BY <1>1, <1>2, Zenon DEF Shown

\* What a step of a daemon must keep, for the sessions to keep what they rely on.
LEMMA DaemonUncrossed ==
  ASSUME Booked, Uncrossed, Shown', AtMostTwo', D!TypeOK, D!TypeOK',
         joiner' = joiner, faults' >= faults,
         \A d \in D!Daemons : D!Alive(d)' => D!Alive(d),
         \A d \in D!Daemons : daemon[d] \in {"serving", "dead"} => daemon'[d] \in {"serving", "dead"},
         faults' > 0 \/ /\ \A s \in Sessions : joiner[s].pc \in Spawned => D!Alive(joiner[s].of)'
                        /\ (\E s \in Sessions : joiner[s].pc = "join") => D!Live'
  PROVE  Uncrossed'
<1>1. OnlyChild'
  BY Zenon DEF Uncrossed, OnlyChild
<1>2. JoinedServing'
  BY Zenon DEF Uncrossed, JoinedServing
<1>3. faults' > 0 \/ Faultless'
  <2> SUFFICES ASSUME ~ (faults' > 0) PROVE Faultless'
    BY Zenon
  <2>1. faults \in Nat /\ faults' \in Nat
    BY Zenon DEF D!TypeOK
  <2>2. ~ (faults > 0)
    BY <2>1
  <2> QED BY <2>2, Zenon DEF Uncrossed, Faultless
<1> QED BY <1>1, <1>2, <1>3, Zenon DEF Uncrossed

\* A daemon that starts, serves, crashes or stops keeps what the sessions rely on
\* (daemonize, write_pid, ShmDiscovery::create).
LEMMA DaemonSteps ==
  ASSUME Booked, Uncrossed, D!TypeOK, D!TypeOK', NEW d \in D!Daemons,
         D!DaemonStep(d) \/ D!Crash(d) \/ D!Stop(d)
  PROVE  Uncrossed'
<1> USE StartAssumption
<1>0. /\ D!Nobody = -1 /\ D!Daemons = 0..MaxDaemons /\ MaxDaemons \in Nat /\ faults \in Nat
      /\ shm.by \in D!Daemons \cup {D!Nobody} /\ pidFile \in D!Daemons \cup {D!Nobody}
  BY Zenon DEF D!TypeOK, D!Segments, D!Daemons, D!Nobody
<1>a. \A e \in D!Daemons : D!Alive(e) <=> daemon[e] \in {"new", "forked", "pid", "cleared", "opened", "created", "serving"}
  BY <1>0 DEF D!TypeOK, D!DaemonStates, D!Alive
<1>b. \A e \in D!Daemons : D!Alive(e)' <=> daemon'[e] \in {"new", "forked", "pid", "cleared", "opened", "created", "serving"}
  BY <1>0 DEF D!TypeOK, D!DaemonStates, D!Alive
<1>c. Shown /\ AtMostTwo /\ OnlyChild /\ JoinedServing
  BY Zenon DEF Uncrossed
<1>d. D!Live => shm.by \in D!Daemons /\ daemon[shm.by] = "serving"
  BY <1>c, LiveServes, Zenon
<1>e. ~ (faults > 0) => /\ \A s \in Sessions : joiner[s].pc \in Spawned => D!Alive(joiner[s].of)
                        /\ (\E s \in Sessions : joiner[s].pc = "join") => D!Live
  BY Zenon DEF Uncrossed, Faultless
<1>f. \A s \in Sessions : joiner[s].pc \in Spawned => joiner[s].of \in D!Daemons
  BY <1>c, Zenon DEF OnlyChild
<1>1. CASE D!CheckPid(d) /\ D!Alive(pidFile)
  <2>1. daemon[d] = "new" /\ daemon'[d] = "refused" /\ \A e \in D!Daemons : e # d => daemon'[e] = daemon[e]
    BY <1>1, StepChanges, Zenon DEF D!CheckPid, D!DaemonStates
  <2>2. pidFile' = pidFile /\ shm' = shm /\ joiner' = joiner /\ faults' = faults
    BY <1>1, Zenon DEF D!CheckPid, D!counters
  <2>3. Shown'
    BY <1>c, <2>1, <2>2, Zenon DEF Shown
  <2>4. AtMostTwo'
    BY <1>a, <1>b, <1>c, <2>1, Zenon DEF AtMostTwo
  <2>5. pidFile \in D!Daemons /\ pidFile # d
    BY <1>0, <1>1, <1>c, <2>1, Zenon DEF Shown, D!Alive
  <2>6. \A s \in Sessions : joiner[s].pc \notin Spawned
    BY <1>1, <1>a, <1>c, <2>1, <2>5, Zenon DEF OnlyChild
  <2>7. ~ (faults > 0) /\ (\E s \in Sessions : joiner[s].pc = "join") => D!Live'
    BY <1>d, <1>e, <2>1, <2>2, LivePersists, Zenon
  <2> QED BY <1>0, <1>a, <1>b, <2>1, <2>2, <2>3, <2>4, <2>6, <2>7, DaemonUncrossed
<1>2. CASE D!CheckPid(d) /\ ~ D!Alive(pidFile)
  <2>1. daemon[d] = "new" /\ daemon'[d] = "forked" /\ \A e \in D!Daemons : e # d => daemon'[e] = daemon[e]
    BY <1>2, StepChanges, Zenon DEF D!CheckPid, D!DaemonStates
  <2>2. pidFile' = D!Nobody /\ shm' = shm /\ joiner' = joiner /\ faults' = faults
    BY <1>2, Zenon DEF D!CheckPid, D!counters
  <2>3. \A e \in D!Daemons : daemon[e] \notin {"pid", "cleared", "opened", "created", "serving"}
    BY <1>2, <1>a, <1>c, Zenon DEF Shown
  <2>4. Shown'
    BY <1>0, <1>c, <2>1, <2>2, <2>3 DEF Shown
  <2>5. AtMostTwo'
    BY <1>a, <1>b, <1>c, <2>1, <2>3, Zenon DEF AtMostTwo
  <2>6. ~ (faults > 0) => \A s \in Sessions : joiner[s].pc \in Spawned => D!Alive(joiner[s].of)'
    BY <1>a, <1>b, <1>e, <1>f, <2>1, <2>2, Zenon
  <2>7. ~ D!Live
    BY <1>d, <2>3, Zenon
  <2> QED BY <1>0, <1>a, <1>b, <1>e, <2>1, <2>2, <2>4, <2>5, <2>6, <2>7, DaemonUncrossed
<1>3. CASE D!WritePid(d)
  <2>1. daemon[d] = "forked" /\ daemon'[d] = "pid" /\ \A e \in D!Daemons : e # d => daemon'[e] = daemon[e]
    BY <1>3, StepChanges, Zenon DEF D!WritePid, D!DaemonStates
  <2>2. pidFile' = d /\ shm' = shm /\ joiner' = joiner /\ faults' = faults
    BY <1>3, Zenon DEF D!WritePid, D!counters
  <2>3. \A e \in D!Daemons : D!Alive(e) => e = d
    BY <1>a, <1>c, <2>1, Zenon DEF AtMostTwo
  <2>4. Shown'
    BY <1>a, <1>c, <2>1, <2>2, <2>3, Zenon DEF Shown
  <2>5. AtMostTwo'
    BY <1>a, <1>b, <2>1, <2>3, Zenon DEF AtMostTwo
  <2>6. ~ (faults > 0) => \A s \in Sessions : joiner[s].pc \in Spawned => D!Alive(joiner[s].of)'
    BY <1>a, <1>b, <1>e, <1>f, <2>1, <2>2, Zenon
  <2>7. ~ D!Live
    BY <1>a, <1>d, <2>1, <2>3, Zenon
  <2> QED BY <1>0, <1>a, <1>b, <1>e, <2>1, <2>2, <2>4, <2>5, <2>6, <2>7, DaemonUncrossed
<1>4. CASE D!RemoveStale(d)
  <2>1. daemon[d] = "pid" /\ daemon'[d] = "cleared" /\ \A e \in D!Daemons : e # d => daemon'[e] = daemon[e]
    BY <1>4, StepChanges, Zenon DEF D!RemoveStale, D!DaemonStates
  <2>2. pidFile' = pidFile /\ shm' = D!NoShm /\ shm'.by = D!Nobody /\ joiner' = joiner /\ faults' = faults
    BY <1>4, Zenon DEF D!RemoveStale, D!NoShm, D!counters
  <2>3. \A e \in D!Daemons : D!Alive(e) => e = d
    BY <1>a, <1>c, <2>1, Zenon DEF AtMostTwo
  <2>4. Shown'
    BY <1>0, <1>a, <1>c, <2>1, <2>2, <2>3 DEF Shown
  <2>5. AtMostTwo'
    BY <1>a, <1>b, <2>1, <2>3, Zenon DEF AtMostTwo
  <2>6. ~ (faults > 0) => \A s \in Sessions : joiner[s].pc \in Spawned => D!Alive(joiner[s].of)'
    BY <1>a, <1>b, <1>e, <1>f, <2>1, <2>2, Zenon
  <2>7. ~ D!Live
    BY <1>a, <1>d, <2>1, <2>3, Zenon
  <2> QED BY <1>0, <1>a, <1>b, <1>e, <2>1, <2>2, <2>4, <2>5, <2>6, <2>7, DaemonUncrossed
<1>5. CASE D!CreateShm(d)
  <2>1. daemon[d] = "cleared" /\ shm = D!NoShm
    BY <1>5, <1>c, Zenon DEF D!CreateShm, Shown
  <2>2. daemon'[d] = "opened" /\ \A e \in D!Daemons : e # d => daemon'[e] = daemon[e]
    BY <1>5, <2>1, StepChanges, Zenon DEF D!CreateShm, D!DaemonStates
  <2>3. pidFile' = pidFile /\ shm'.by = d /\ ~ shm'.sized /\ ~ shm'.ready /\ joiner' = joiner /\ faults' = faults
    BY <1>5, <2>1 DEF D!CreateShm, D!counters
  <2>4. \A e \in D!Daemons : D!Alive(e) => e = d
    BY <1>a, <1>c, <2>1, Zenon DEF AtMostTwo
  <2>5. Shown'
    BY <1>a, <1>c, <2>1, <2>2, <2>3, <2>4, Zenon DEF Shown
  <2>6. AtMostTwo'
    BY <1>a, <1>b, <2>1, <2>2, <2>4, Zenon DEF AtMostTwo
  <2>7. ~ (faults > 0) => \A s \in Sessions : joiner[s].pc \in Spawned => D!Alive(joiner[s].of)'
    BY <1>a, <1>b, <1>e, <1>f, <2>1, <2>2, <2>3, Zenon
  <2>8. ~ D!Live
    BY <1>a, <1>d, <2>1, <2>4, Zenon
  <2> QED BY <1>0, <1>a, <1>b, <1>e, <2>1, <2>2, <2>3, <2>5, <2>6, <2>7, <2>8, DaemonUncrossed
<1>6a. CASE D!SizeShm(d)
  <2>1. daemon[d] = "opened" /\ shm.by = d /\ ~ shm.sized /\ ~ shm.ready
    BY <1>6a, <1>c, Zenon DEF D!SizeShm, Shown
  <2>0. daemon'[d] = "created" /\ \A e \in D!Daemons : e # d => daemon'[e] = daemon[e]
    BY <1>6a, <2>1, StepChanges, Zenon DEF D!SizeShm, D!DaemonStates
  <2>2. pidFile' = pidFile /\ joiner' = joiner /\ faults' = faults
    BY <1>6a, Zenon DEF D!SizeShm, D!counters
  <2>3. shm'.by = d /\ shm'.sized /\ ~ shm'.ready
    BY <1>6a, <2>1, Zenon DEF D!SizeShm, D!TypeOK, D!Segments
  <2>4. \A e \in D!Daemons : D!Alive(e) => e = d
    BY <1>a, <1>c, <2>1, Zenon DEF AtMostTwo
  <2>5. Shown'
    BY <1>a, <1>c, <2>0, <2>1, <2>2, <2>3, <2>4 DEF Shown
  <2>6. AtMostTwo'
    BY <1>a, <1>b, <2>0, <2>1, <2>4, Zenon DEF AtMostTwo
  <2>7. ~ (faults > 0) => \A s \in Sessions : joiner[s].pc \in Spawned => D!Alive(joiner[s].of)'
    BY <1>a, <1>b, <1>e, <1>f, <2>0, <2>1, <2>2, Zenon
  <2>8. ~ D!Live
    BY <1>a, <1>d, <2>1, <2>4, Zenon
  <2> QED BY <1>0, <1>a, <1>b, <1>e, <2>0, <2>1, <2>2, <2>5, <2>6, <2>7, <2>8, DaemonUncrossed
<1>6. CASE D!Ready(d)
  <2>1. daemon[d] = "created" /\ shm.by = d /\ shm.sized
    BY <1>6, <1>c, Zenon DEF D!Ready, Shown
  <2>0. daemon'[d] = "serving" /\ \A e \in D!Daemons : e # d => daemon'[e] = daemon[e]
    BY <1>6, <2>1, StepChanges, Zenon DEF D!Ready, D!DaemonStates
  <2>2. pidFile' = pidFile /\ joiner' = joiner /\ faults' = faults
    BY <1>6, Zenon DEF D!Ready, D!counters
  <2>3. shm'.by = d /\ shm'.sized /\ shm'.ready
    BY <1>6, <2>1, Zenon DEF D!Ready, D!TypeOK, D!Segments
  <2>4. \A e \in D!Daemons : D!Alive(e) => e = d
    BY <1>a, <1>c, <2>1, Zenon DEF AtMostTwo
  <2>5. Shown'
    BY <1>a, <1>c, <2>0, <2>1, <2>2, <2>3, <2>4 DEF Shown
  <2>6. AtMostTwo'
    BY <1>a, <1>b, <2>0, <2>1, <2>4, Zenon DEF AtMostTwo
  <2>7. ~ (faults > 0) => \A s \in Sessions : joiner[s].pc \in Spawned => D!Alive(joiner[s].of)'
    BY <1>a, <1>b, <1>e, <1>f, <2>0, <2>1, <2>2, Zenon
  <2>8. ~ D!Live
    BY <1>a, <1>d, <2>1, <2>4, Zenon
  <2> QED BY <1>0, <1>a, <1>b, <1>e, <2>0, <2>1, <2>2, <2>5, <2>6, <2>7, <2>8, DaemonUncrossed
<1>7. CASE D!Crash(d)
  <2>1. daemon'[d] \in {"aborted", "dead"} /\ \A e \in D!Daemons : e # d => daemon'[e] = daemon[e]
    BY <1>7, StepChanges, Zenon DEF D!Crash, D!DaemonStates
  <2>2. daemon[d] # "new" => daemon'[d] = "dead"
    BY <1>7, StepChanges, Zenon DEF D!Crash, D!DaemonStates
  <2>3. pidFile' = pidFile /\ shm' = shm /\ joiner' = joiner /\ faults' > 0 /\ faults' >= faults
    BY <1>0, <1>7 DEF D!Crash
  <2>4. Shown'
    BY <1>c, <2>1, <2>3, Zenon DEF Shown
  <2>5. AtMostTwo'
    BY <1>a, <1>b, <1>c, <2>1, Zenon DEF AtMostTwo
  <2> QED BY <1>a, <1>b, <2>1, <2>2, <2>3, <2>4, <2>5, DaemonUncrossed, Zenon
<1>8. CASE D!Stop(d)
  <2>1. daemon[d] = "serving" /\ daemon'[d] = "dead" /\ \A e \in D!Daemons : e # d => daemon'[e] = daemon[e]
    BY <1>8, StepChanges, Zenon DEF D!Stop, D!DaemonStates
  <2>2. pidFile' = D!Nobody /\ shm' = shm /\ joiner' = joiner /\ faults' > 0 /\ faults' >= faults
    BY <1>0, <1>8 DEF D!Stop
  <2>3. \A e \in D!Daemons : D!Alive(e) /\ e # d => daemon[e] = "new"
    BY <1>a, <1>c, <2>1, Zenon DEF AtMostTwo
  <2>4. Shown'
    BY <1>0, <1>a, <1>c, <2>1, <2>2, <2>3 DEF Shown
  <2>5. AtMostTwo'
    BY <1>a, <1>b, <1>c, <2>1, Zenon DEF AtMostTwo
  <2> QED BY <1>a, <1>b, <2>1, <2>2, <2>4, <2>5, DaemonUncrossed, Zenon
<1> QED BY <1>1, <1>2, <1>3, <1>4, <1>5, <1>6, <1>6a, <1>7, <1>8, Zenon DEF D!DaemonStep

\* What a step of a session that starts and ends no daemon must keep.
LEMMA SessionUncrossed ==
  ASSUME Booked, Uncrossed, D!TypeOK, D!TypeOK', UNCHANGED <<shm, pidFile, daemon>>, faults' >= faults,
         NEW s \in Sessions, \A t \in Sessions : t # s => joiner'[t] = joiner[t],
         joiner'[s].pc \notin {"spawn", "settle"},
         joiner'[s].pc \in Spawned => joiner[s].pc \in Spawned /\ joiner'[s].of = joiner[s].of,
         joiner'[s].pc = "up" => joiner'[s].of \in D!Daemons /\ daemon[joiner'[s].of] \in {"serving", "dead"},
         joiner'[s].pc = "failed" => faults' > 0,
         joiner'[s].pc = "join" => D!Live /\ \A t \in Sessions : t # s => joiner[t].pc \notin Locked,
         joiner'[s].pc \in Locked \ {"check"} => \/ joiner[s].pc \in Locked \ {"check"}
                                                 \/ ~ D!Live
  PROVE  Uncrossed'
<1>1. \A d \in D!Daemons : D!Alive(d)' <=> D!Alive(d)
  BY Zenon DEF D!Alive
<1>2. D!Live' <=> D!Live
  BY Zenon DEF D!Live, D!Opened, D!Alive
<1>3. Shown' /\ AtMostTwo'
  BY <1>1, Zenon DEF Uncrossed, Shown, AtMostTwo
<1>4. OnlyChild' /\ JoinedServing'
  BY <1>1, Zenon DEF Uncrossed, OnlyChild, JoinedServing
<1>5. faults' > 0 \/ Faultless'
  <2> SUFFICES ASSUME ~ (faults' > 0) PROVE Faultless'
    BY Zenon
  <2>1. faults \in Nat /\ faults' \in Nat
    BY Zenon DEF D!TypeOK
  <2>2. Faultless /\ OnlyChild
    BY <2>1 DEF Uncrossed
  <2>3. ASSUME NEW t \in Sessions, joiner'[t].pc \in Spawned PROVE D!Alive(joiner[t].of)'
    BY <1>1, <2>2, <2>3, Zenon DEF Faultless, OnlyChild
  <2>4. ASSUME NEW t \in Sessions, joiner'[t].pc = "join" PROVE D!Live /\ \A u \in Sessions : joiner'[u].pc \notin Locked \ {"check"}
    <3>1. CASE t = s
      BY <2>4, <3>1, Zenon DEF Locked
    <3>2. CASE t # s
      BY <2>2, <2>4, <3>2, Zenon DEF Faultless
    <3> QED BY <3>1, <3>2, Zenon
  <2> QED BY <1>2, <2>2, <2>3, <2>4, Zenon DEF Faultless
<1> QED BY <1>3, <1>4, <1>5, Zenon DEF Uncrossed

\* ensure_daemon_running and with_quic keep what the other sessions rely on, one case for
\* each step.
LEMMA SessionSteps ==
  ASSUME Booked, Uncrossed, D!TypeOK, D!TypeOK', NEW s \in Sessions, D!SessionStep(s)
  PROVE  Uncrossed'
<1> USE StartAssumption
<1>0. /\ D!Nobody = -1 /\ D!Daemons = 0..MaxDaemons /\ MaxDaemons \in Nat /\ faults \in Nat /\ faults >= faults
      /\ D!Nobody \notin Sessions
  BY DEF D!TypeOK, D!Daemons, D!Nobody
<1>a. \A e \in D!Daemons : D!Alive(e) <=> daemon[e] \in {"new", "forked", "pid", "cleared", "opened", "created", "serving"}
  BY <1>0 DEF D!TypeOK, D!DaemonStates, D!Alive
<1>b. \A e \in D!Daemons : D!Alive(e)' <=> daemon'[e] \in {"new", "forked", "pid", "cleared", "opened", "created", "serving"}
  BY <1>0 DEF D!TypeOK, D!DaemonStates, D!Alive
<1>c. Shown /\ AtMostTwo /\ OnlyChild /\ JoinedServing /\ LockHeld
  BY Zenon DEF Uncrossed, Booked
<1>d. joiner[s].pc \in Locked => \A t \in Sessions : t # s => joiner[t].pc \notin Locked
  BY <1>c, Zenon DEF LockHeld
<1>1. CASE D!Lock(s)
  <2>1. /\ joiner'[s].pc = "check" /\ joiner'[s].of = joiner[s].of
        /\ \A t \in Sessions : t # s => joiner'[t] = joiner[t]
    BY <1>1, JoinerChanges, Zenon DEF D!Lock, D!SessionStates
  <2>2. UNCHANGED <<shm, pidFile, daemon>> /\ faults' >= faults
    BY <1>0, <1>1, Zenon DEF D!Lock, D!counters
  <2> QED BY <2>1, <2>2, SessionUncrossed, Zenon DEF Spawned
<1>2. CASE D!Check(s)
  <2>1. joiner[s].pc = "check" /\ joiner[s].pc \in Locked
    BY <1>2, Zenon DEF D!Check, D!At, Locked
  <2>2. /\ joiner'[s].pc = "join" => D!Live
        /\ joiner'[s].pc \in {"join", "wait", "orphans"}
        /\ joiner'[s].pc # "join" => ~ D!Live
        /\ \A t \in Sessions : t # s => joiner'[t] = joiner[t]
    BY <1>2, JoinerChanges, Zenon DEF D!Check, D!Done, D!SessionStates
  <2>3. UNCHANGED <<shm, pidFile, daemon>> /\ faults' >= faults
    BY <1>0, <1>2, Zenon DEF D!Check, D!counters
  <2> QED BY <1>d, <2>1, <2>2, <2>3, SessionUncrossed, Zenon DEF Spawned, Locked
<1>3. CASE D!WaitLive(s) \/ D!AwaitLive(s)
  <2>1. joiner[s].pc \in Locked /\ D!Live
    BY <1>3, Zenon DEF D!WaitLive, D!AwaitLive, D!At, Locked
  <2>2. joiner'[s].pc = "join" /\ \A t \in Sessions : t # s => joiner'[t] = joiner[t]
    BY <1>3, JoinerChanges, Zenon DEF D!WaitLive, D!AwaitLive, D!Done, D!SessionStates
  <2>3. UNCHANGED <<shm, pidFile, daemon>> /\ faults' >= faults
    BY <1>0, <1>3, Zenon DEF D!WaitLive, D!AwaitLive, D!counters
  <2> QED BY <1>d, <2>1, <2>2, <2>3, SessionUncrossed, Zenon DEF Spawned, Locked
<1>4. CASE D!GiveUpWaiting(s)
  <2>1. /\ joiner[s].pc = "wait" /\ joiner[s].pc \in Locked
        /\ \A e \in D!Daemons : daemon'[e] = IF e = pidFile /\ D!Alive(e) THEN "dead" ELSE daemon[e]
        /\ pidFile' = D!Nobody /\ shm'.by = D!Nobody /\ faults' >= faults
    BY <1>0, <1>4 DEF D!GiveUpWaiting, D!At, D!TimesOut, D!NoShm, Locked
  <2>2. joiner'[s].pc = "orphans" /\ \A t \in Sessions : t # s => joiner'[t] = joiner[t]
    BY <1>4, JoinerChanges, Zenon DEF D!GiveUpWaiting, D!SessionStates
  <2>3. \A e \in D!Daemons : D!Alive(e)' => D!Alive(e) /\ daemon'[e] = daemon[e] /\ daemon[e] \in {"new", "forked"}
    BY <1>a, <1>b, <1>c, <2>1, Zenon DEF Shown
  <2>4. Shown'
    BY <1>0, <1>b, <1>c, <2>1, <2>3 DEF Shown
  <2>5. AtMostTwo'
    BY <1>c, <2>3, Zenon DEF AtMostTwo
  <2>6. OnlyChild'
    BY <1>d, <2>1, <2>2, Zenon DEF OnlyChild, Spawned, Locked
  <2>7. JoinedServing'
    BY <1>c, <2>1, <2>2 DEF JoinedServing
  <2>8. faults' > 0 \/ Faultless'
    <3>1. faults > 0 => faults' > 0
      BY <1>0, <2>1 DEF D!TypeOK
    <3>2. Faultless => Faultless'
      BY <1>d, <2>1, <2>2 DEF Faultless, Spawned, Locked
    <3> QED BY <3>1, <3>2, Zenon DEF Uncrossed
  <2> QED BY <2>4, <2>5, <2>6, <2>7, <2>8, Zenon DEF Uncrossed
<1>5. CASE D!TerminateOrphans(s)
  <2>1. /\ joiner[s].pc = "orphans" /\ joiner[s].pc \in Locked
        /\ \A e \in D!Daemons : daemon'[e] = IF D!Alive(e) THEN "dead" ELSE daemon[e]
        /\ faults' = faults
    BY <1>0, <1>5, Zenon DEF D!TerminateOrphans, D!Terminated, D!At, D!counters, Locked
  <2>2. joiner'[s].pc = "spawn" /\ \A t \in Sessions : t # s => joiner'[t] = joiner[t]
    BY <1>5, JoinerChanges, Zenon DEF D!TerminateOrphans, D!SessionStates
  <2>3. \A e \in D!Daemons : ~ D!Alive(e)'
    BY <1>a, <1>b, <2>1, Zenon
  <2>4. Shown' /\ AtMostTwo'
    BY <1>b, <2>3, Zenon DEF Shown, AtMostTwo
  <2>5. OnlyChild'
    BY <1>d, <2>1, <2>2, <2>3, Zenon DEF OnlyChild, Spawned, Locked
  <2>6. JoinedServing'
    BY <1>c, <2>1, <2>2 DEF JoinedServing
  <2>7. Faultless => Faultless'
    BY <1>d, <2>1, <2>2 DEF Faultless, Spawned, Locked
  <2> QED BY <2>1, <2>4, <2>5, <2>6, <2>7, Zenon DEF Uncrossed
<1>6. CASE D!Spawn(s)
  <2> DEFINE c == started + 1
  <2>1. /\ joiner[s].pc = "spawn" /\ joiner[s].pc \in Locked /\ c \in D!Daemons
        /\ shm' = shm /\ pidFile' = pidFile /\ faults' = faults
    BY <1>0, <1>6, Zenon DEF D!Spawn, D!At, Locked, D!TypeOK
  <2>2. daemon'[c] = "new" /\ \A e \in D!Daemons : e # c => daemon'[e] = daemon[e]
    BY <1>6, <2>1, StepChanges, Zenon DEF D!Spawn, D!DaemonStates
  <2>3. /\ joiner'[s].pc = "watch" /\ joiner'[s].of = c
        /\ \A t \in Sessions : t # s => joiner'[t] = joiner[t]
    BY <1>6, Zenon DEF D!Spawn, D!TypeOK
  <2>4. shm.by # c /\ pidFile # c /\ \A t \in Sessions : joiner[t].of # c
    BY <1>0 DEF Booked, Numbered, D!TypeOK
  <2> HIDE DEF c
  <2>5. \A e \in D!Daemons : ~ D!Alive(e)
    BY <1>c, <2>1, Zenon DEF OnlyChild
  <2>6. \A e \in D!Daemons : D!Alive(e)' <=> e = c
    BY <1>a, <1>b, <2>2, <2>5, Zenon
  <2>7. Shown' /\ AtMostTwo'
    BY <1>b, <2>1, <2>2, <2>4, <2>6 DEF Shown, AtMostTwo
  <2>8. OnlyChild'
    BY <1>d, <2>1, <2>3, <2>6, Zenon DEF OnlyChild, Spawned, Locked
  <2>9. JoinedServing'
    BY <1>c, <2>2, <2>3, <2>4 DEF JoinedServing
  <2>10. Faultless => Faultless'
    BY <1>d, <2>1, <2>3, <2>6, Zenon DEF Faultless, Spawned, Locked
  <2> QED BY <2>1, <2>7, <2>8, <2>9, <2>10, Zenon DEF Uncrossed
<1>7. CASE D!ChildExited(s)
  <2>1. joiner[s].pc = "watch" /\ joiner[s].pc \in Locked /\ joiner[s].of \in D!Daemons
    BY <1>7, <1>c, Zenon DEF D!ChildExited, D!At, Locked, OnlyChild, Spawned
  <2>2. /\ joiner'[s].pc = IF daemon[joiner[s].of] = "aborted" THEN "failed" ELSE "await"
        /\ joiner'[s].of = joiner[s].of
        /\ \A t \in Sessions : t # s => joiner'[t] = joiner[t]
    BY <1>7, JoinerChanges, Zenon DEF D!ChildExited, D!AfterExit, D!Done, D!SessionStates
  <2>3. UNCHANGED <<shm, pidFile, daemon>> /\ faults' = faults
    BY <1>7, Zenon DEF D!ChildExited, D!counters
  <2>4. joiner'[s].pc = "failed" => faults' > 0
    BY <2>1, <2>2, <2>3, Zenon DEF Booked, Aborted
  <2> QED BY <1>0, <2>1, <2>2, <2>3, <2>4, SessionUncrossed, Zenon DEF Spawned, Locked
<1>8. CASE D!SeesLive(s)
  <2>1. joiner[s].pc \in Spawned /\ daemon[joiner[s].of] = "new" /\ D!Live
    BY <1>8, Zenon DEF D!SeesLive, D!At, Spawned
  <2>2. shm.by \in D!Daemons /\ daemon[shm.by] = "serving"
    BY <1>c, <2>1, LiveServes, Zenon
  <2> QED BY <1>a, <1>c, <2>1, <2>2, Zenon DEF OnlyChild
<1>9. CASE D!Settle(s)
  BY <1>9, <1>c, Zenon DEF D!Settle, D!At, OnlyChild
<1>10. CASE D!Fail(s)
  <2>1. joiner[s].pc \in Spawned /\ joiner[s].pc \in Locked /\ joiner[s].of \in D!Daemons
    BY <1>10, <1>c, Zenon DEF D!Fail, D!At, Spawned, Locked, OnlyChild
  <2>2. \A e \in D!Daemons : daemon'[e] = daemon[e] \/ (daemon'[e] = "dead" /\ daemon[e] = "new")
    BY <1>10, <2>1, Zenon DEF D!Fail, D!TypeOK
  <2>3. /\ joiner'[s].pc = "failed" /\ \A t \in Sessions : t # s => joiner'[t] = joiner[t]
    BY <1>10, JoinerChanges, Zenon DEF D!Fail, D!Done, D!SessionStates
  <2>4. shm' = shm /\ pidFile' = pidFile
    BY <1>10, Zenon DEF D!Fail
  <2>5. faults' > 0
    <3>1. CASE D!UnderWay
      BY <1>0, <1>10, <3>1 DEF D!Fail, D!TimesOut
    <3>2. CASE ~ D!UnderWay /\ D!Alive(joiner[s].of)
      <4>1. daemon[joiner[s].of] = "serving"
        BY <2>1, <3>2, Zenon DEF D!UnderWay
      <4>2. D!Live
        BY <1>c, <2>1, <3>2, <4>1, LiveIs, Zenon DEF Shown
      <4> QED BY <1>10, <4>2, Zenon DEF D!Fail, D!TimesOut
    <3>3. CASE ~ D!UnderWay /\ ~ D!Alive(joiner[s].of)
      <4>1. faults > 0
        BY <2>1, <3>3, Zenon DEF Uncrossed, Faultless
      <4> QED BY <1>10, <3>3, <4>1, Zenon DEF D!Fail, D!TimesOut
    <3> QED BY <3>1, <3>2, <3>3, Zenon
  <2>6. \A e \in D!Daemons : D!Alive(e)' => D!Alive(e) /\ daemon'[e] = daemon[e]
    BY <1>a, <1>b, <2>2, Zenon
  <2>7. Shown' /\ AtMostTwo'
    BY <1>c, <2>2, <2>4, <2>6 DEF Shown, AtMostTwo
  <2>8. OnlyChild'
    BY <1>d, <2>1, <2>3, Zenon DEF OnlyChild, Spawned, Locked
  <2>9. JoinedServing'
    BY <1>c, <2>2, <2>3, Zenon DEF JoinedServing
  <2> QED BY <2>5, <2>7, <2>8, <2>9, Zenon DEF Uncrossed
<1>11. CASE D!Join(s)
  <2>1. /\ joiner[s].pc = "join" /\ joiner'[s].pc = "up" /\ joiner'[s].of = shm.by
        /\ \A t \in Sessions : t # s => joiner'[t] = joiner[t]
    BY <1>11, Zenon DEF D!Join, D!At, D!TypeOK
  <2>2. UNCHANGED <<shm, pidFile, daemon>> /\ faults' >= faults
    BY <1>0, <1>11, Zenon DEF D!Join, D!counters
  <2>3. shm.by \in D!Daemons /\ daemon[shm.by] = "serving"
    BY <1>11, <1>c, LiveServes, Zenon DEF D!Join
  <2> QED BY <2>1, <2>2, <2>3, SessionUncrossed, Zenon DEF Spawned, Locked
<1>12. CASE D!JoinFails(s)
  <2>1. /\ joiner[s].pc = "join" /\ joiner'[s].pc = "failed"
        /\ \A t \in Sessions : t # s => joiner'[t] = joiner[t]
    BY <1>12, JoinerChanges, Zenon DEF D!JoinFails, D!At, D!SessionStates
  <2>2. UNCHANGED <<shm, pidFile, daemon>> /\ faults' >= faults
    BY <1>0, <1>12 DEF D!JoinFails, D!TimesOut
  <2>3. faults > 0
    BY <1>12, <2>1, Zenon DEF D!JoinFails, D!TimesOut, Uncrossed, Faultless
  <2>4. faults' > 0
    BY <1>0, <2>2, <2>3 DEF D!TypeOK
  <2> QED BY <2>1, <2>2, <2>4, SessionUncrossed, Zenon DEF Spawned, Locked
<1>13. CASE D!Killed(s)
  <2>1. joiner'[s].pc = "killed" /\ \A t \in Sessions : t # s => joiner'[t] = joiner[t]
    BY <1>13, JoinerChanges, Zenon DEF D!Killed, D!SessionStates
  <2>2. UNCHANGED <<shm, pidFile, daemon>> /\ faults' >= faults
    BY <1>0, <1>13, Zenon DEF D!Killed, D!counters
  <2> QED BY <2>1, <2>2, SessionUncrossed, Zenon DEF Spawned, Locked
<1> QED
  BY <1>1, <1>2, <1>3, <1>4, <1>5, <1>6, <1>7, <1>8, <1>9, <1>10, <1>11, <1>12, <1>13, Zenon DEF D!SessionStep

\* A daemon that a user starts when no other start is under way finds the one that
\* serves, if there is one (check_pid).
LEMMA ByHandUncrossed ==
  ASSUME Booked, Uncrossed, D!TypeOK, D!TypeOK', D!StartByHand, lock = D!Nobody, ~ D!UnderWay
  PROVE  Uncrossed'
<1> USE StartAssumption
<1>0. /\ D!Nobody = -1 /\ D!Daemons = 0..MaxDaemons /\ MaxDaemons \in Nat /\ D!Nobody \notin Sessions
  BY Zenon DEF D!Daemons, D!Nobody
<1> DEFINE c == started + 1
<1>1. c \in D!Daemons /\ c # D!Nobody
  BY <1>0 DEF D!StartByHand, D!TypeOK
<1>2. daemon'[c] = "new" /\ \A e \in D!Daemons : e # c => daemon'[e] = daemon[e]
  BY <1>1, StepChanges, Zenon DEF D!StartByHand, D!DaemonStates
<1>3. shm.by # c /\ pidFile # c /\ \A t \in Sessions : joiner[t].of # c
  BY <1>0 DEF Booked, Numbered, D!TypeOK
<1>4. UNCHANGED <<shm, pidFile, joiner, faults>>
  BY Zenon DEF D!StartByHand
<1> HIDE DEF c
<1>5. \A e \in D!Daemons : e # c => (D!Alive(e)' <=> D!Alive(e))
  BY <1>2, Zenon DEF D!Alive
<1>6. \A e \in D!Daemons : D!Alive(e) => daemon[e] = "serving"
  BY Zenon DEF D!UnderWay
<1>7. Shown /\ AtMostTwo /\ OnlyChild /\ JoinedServing
  BY Zenon DEF Uncrossed
<1>8. \A t \in Sessions : joiner[t].pc \notin Locked
  BY <1>0, Zenon DEF Booked, LockHeld
<1>9. Shown'
  BY <1>2, <1>3, <1>4, <1>5, <1>7, Zenon DEF Shown
<1>10. AtMostTwo'
  <2>1. \A e \in D!Daemons : D!Alive(e)' => e = c \/ daemon'[e] = "serving"
    BY <1>2, <1>5, <1>6, Zenon
  <2>2. \A e \in D!Daemons : D!Alive(e) /\ daemon[e] = "serving" => shm.by = e
    BY <1>7, Zenon DEF Shown
  <2> QED BY <1>2, <1>5, <1>6, <1>7, <2>1, <2>2, Zenon DEF AtMostTwo
<1>11. OnlyChild'
  BY <1>4, <1>8, Zenon DEF OnlyChild, Spawned, Locked
<1>12. JoinedServing'
  BY <1>2, <1>3, <1>4, <1>7, Zenon DEF JoinedServing
<1>13. Faultless => Faultless'
  <2>1. D!Live => D!Live'
    <3>1. D!Live => shm.by # D!Nobody /\ shm.by \in D!Daemons
      BY Zenon DEF D!Live, D!Alive, D!TypeOK, D!Segments
    <3> QED BY <1>3, <1>4, <1>5, <3>1, Zenon DEF D!Live, D!Opened, D!NoShm
  <2> QED BY <1>4, <1>8, <2>1, Zenon DEF Faultless, Spawned, Locked
<1> QED BY <1>4, <1>9, <1>10, <1>11, <1>12, <1>13, Zenon DEF Uncrossed

\* The invariant of the start is inductive.
LEMMA StartStep ==
  ASSUME StartInv, [D!Next]_startVars
  PROVE  StartInv'
<1>1. D!TypeOK /\ Booked /\ (crossed \/ Uncrossed)
  BY Zenon DEF StartInv, Booked
<1>2. D!TypeOK' /\ Booked'
  BY <1>1, StartTyped, BookedStep, Zenon
<1>3. crossed' \/ Uncrossed'
  <2>1. CASE D!StartByHand
    <3>1. crossed' = (crossed \/ lock # D!Nobody \/ D!UnderWay)
      BY <2>1, Zenon DEF D!StartByHand
    <3>2. CASE crossed \/ lock # D!Nobody \/ D!UnderWay
      BY <3>1, <3>2, Zenon
    <3>3. CASE ~ (crossed \/ lock # D!Nobody \/ D!UnderWay)
      BY <1>1, <1>2, <2>1, <3>3, ByHandUncrossed, Zenon
    <3> QED BY <3>2, <3>3, Zenon
  <2>2. ASSUME NEW d \in D!Daemons, D!DaemonStep(d) \/ D!Crash(d) \/ D!Stop(d)
        PROVE  crossed' \/ Uncrossed'
    <3>1. crossed' = crossed
      BY <2>2, Zenon DEF D!DaemonStep, D!CheckPid, D!WritePid, D!RemoveStale, D!CreateShm, D!SizeShm, D!Ready, D!Crash, D!Stop
    <3>2. Uncrossed => Uncrossed'
      BY <1>1, <1>2, <2>2, DaemonSteps, Zenon
    <3> QED BY <1>1, <3>1, <3>2, Zenon
  <2>3. ASSUME NEW s \in Sessions, D!SessionStep(s) PROVE crossed' \/ Uncrossed'
    <3>1. crossed' = crossed
      BY <2>3, Zenon DEF D!SessionStep, D!Lock, D!Check, D!WaitLive, D!GiveUpWaiting, D!TerminateOrphans, D!Spawn,
                  D!ChildExited, D!SeesLive, D!Settle, D!AwaitLive, D!Fail, D!Join, D!JoinFails, D!Killed
    <3>2. Uncrossed => Uncrossed'
      BY <1>1, <1>2, <2>3, SessionSteps, Zenon
    <3> QED BY <1>1, <3>1, <3>2, Zenon
  <2>4. CASE UNCHANGED startVars
    <3>1. crossed' = crossed
      BY <2>4, Zenon DEF startVars
    <3>2. Uncrossed => Uncrossed'
      BY <2>4, Zenon DEF startVars, Uncrossed, Shown, AtMostTwo, OnlyChild, JoinedServing, Faultless, D!Alive, D!Live, D!Opened
    <3> QED BY <1>1, <3>1, <3>2, Zenon
  <2> QED BY <2>1, <2>2, <2>3, <2>4, Zenon DEF D!Next
<1> QED BY <1>2, <1>3, Zenon DEF StartInv, Booked

\* The invariant of the start holds whatever the last daemon has left behind.
LEMMA StartInit ==
  ASSUME D!Init
  PROVE  StartInv
<1> USE StartAssumption
<1>0. D!Nobody = -1 /\ D!Daemons = 0..MaxDaemons /\ MaxDaemons \in Nat /\ 0 \in D!Daemons /\ D!Nobody \notin Sessions
  BY DEF D!Daemons, D!Nobody
<1>1. D!TypeOK
  <2>1. shm \in D!Segments
    <3>1. D!NoShm \in D!Segments
      BY Zenon DEF D!NoShm, D!Segments
    <3>2. [by : {0}, sized : BOOLEAN, ready : BOOLEAN] \subseteq D!Segments
      BY <1>0, Zenon DEF D!Segments
    <3> QED BY <3>1, <3>2, Zenon DEF D!Init
  <2>2. daemon \in [D!Daemons -> D!DaemonStates]
    BY Zenon DEF D!Init, D!DaemonStates
  <2>3. joiner \in [Sessions -> [pc : D!SessionStates, of : D!Daemons \cup {D!Nobody}]]
    BY Zenon DEF D!Init, D!SessionStates
  <2>4. crossed \in BOOLEAN
    BY Zenon DEF D!Init
  <2>5. /\ pidFile \in D!Daemons \cup {D!Nobody} /\ lock \in Sessions \cup {D!Nobody}
        /\ started \in D!Daemons /\ {byHand, faults} \subseteq Nat
    BY <1>0 DEF D!Init
  <2> QED BY <2>1, <2>2, <2>3, <2>4, <2>5, Zenon DEF D!TypeOK
<1>2. \A d \in D!Daemons : ~ D!Alive(d)
  BY Zenon DEF D!Init, D!Alive
<1>3. \A s \in Sessions : joiner[s].pc = "lock" /\ joiner[s].of = D!Nobody
  BY Zenon DEF D!Init
<1>4. LockHeld /\ Aborted
  BY <1>0, <1>3, Zenon DEF D!Init, LockHeld, Aborted, Locked
<1>5. Numbered
  BY <1>0, <1>3 DEF D!Init, Numbered, D!NoShm
<1>6. Shown /\ AtMostTwo /\ OnlyChild /\ JoinedServing /\ Faultless
  BY <1>2, <1>3, Zenon DEF D!Init, Shown, AtMostTwo, OnlyChild, JoinedServing, Faultless, Spawned, Locked
<1> QED BY <1>1, <1>4, <1>5, <1>6, Zenon DEF StartInv, Uncrossed

\* The invariant of the start holds in every reachable state, for any number of sessions,
\* daemons and faults.
THEOREM StartInvariant == D!Spec => []StartInv
<1>1. D!Init => StartInv
  BY StartInit, Zenon
<1>2. StartInv /\ [D!Next]_(D!vars) => StartInv'
  BY StartStep, Zenon DEF D!vars, startVars
<1> QED BY <1>1, <1>2, PTL DEF D!Spec

\* The invariant of the start has the properties that sessions rely on.
LEMMA StartInvImplies ==
  ASSUME StartInv
  PROVE  D!TogetherUnlessCrossed /\ D!FailsOnlyAfterFault
<1>1. ASSUME Uncrossed PROVE D!Together /\ ((\E s \in Sessions : joiner[s].pc = "failed") => faults > 0)
  <2>1. ASSUME NEW s \in Sessions, joiner[s].pc = "up", D!Alive(joiner[s].of)
        PROVE  shm.by = joiner[s].of /\ D!Live
    <3>1. joiner[s].of \in D!Daemons /\ daemon[joiner[s].of] = "serving"
      BY <1>1, <2>1, Zenon DEF Uncrossed, JoinedServing, D!Alive
    <3> QED BY <1>1, <2>1, <3>1, LiveIs, Zenon DEF Uncrossed, Shown, StartInv
  <2>2. faults > 0 \/ \A s \in Sessions : joiner[s].pc # "failed"
    BY <1>1, Zenon DEF Uncrossed, Faultless
  <2> QED BY <2>1, <2>2, Zenon DEF D!Together, D!At
<1> QED BY <1>1, Zenon DEF StartInv, D!TogetherUnlessCrossed, D!FailsOnlyAfterFault, D!At

\* Both invariants hold in every reachable state of the host, whichever part of it runs.
THEOREM HostInvariant == MCSpec => [](TableInv /\ StartInv)
<1>1. MCInit => TableInv /\ StartInv
  BY TableInit, StartInit, Zenon DEF MCInit
<1>2. TableInv /\ StartInv /\ [MCNext]_MCVars => (TableInv /\ StartInv)'
  <2> SUFFICES ASSUME TableInv, StartInv, [MCNext]_MCVars PROVE TableInv' /\ StartInv'
    BY Zenon
  <2>1. [Next]_vars /\ [D!Next]_startVars
    BY Zenon DEF MCNext, MCVars
  <2> QED BY <2>1, TableStep, StartStep, Zenon
<1> QED BY <1>1, <1>2, PTL DEF MCSpec

\* The sessions that are up and whose daemon is alive are in the segment that new
\* sessions find, unless a user started a daemon while another start was under way
\* (terminate_orphan_daemon_processes, ShmDiscovery::destroy).
THEOREM TogetherUnlessCrossedHolds == MCSpec => []TogetherUnlessCrossed
<1>1. TableInv /\ StartInv => TogetherUnlessCrossed
  BY StartInvImplies, Zenon DEF TogetherUnlessCrossed, Types, TableInv, StartInv
<1> QED BY <1>1, HostInvariant, PTL

\* A session that is not killed by a segment without a size returns without a daemon only
\* after a daemon has crashed, was stopped or was slow, or in a cross with a user
\* (ensure_daemon_running).
THEOREM FailsOnlyAfterFaultHolds == MCSpec => []FailsOnlyAfterFault
<1>1. TableInv /\ StartInv => FailsOnlyAfterFault
  BY StartInvImplies, Zenon DEF FailsOnlyAfterFault
<1> QED BY <1>1, HostInvariant, PTL

=============================================================================
