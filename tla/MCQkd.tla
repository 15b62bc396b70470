------------------------------- MODULE MCQkd -------------------------------
(***************************************************************************)
(* The use of QKD keys for model checking: the keys that seal what is sent *)
(* to the processes of a remote host (SealedSends), the table of keys that *)
(* the processes which open messages share (QkdMessageKeys), and the       *)
(* sessions that daemons agree on (QkdSessions).  They share no state, and *)
(* a behaviour is one of one of them, chosen by part.                      *)
(***************************************************************************)
EXTENDS SealedSends, TLC

CONSTANTS
  MsgKeys, TableSize, MsgHash, MaxOpens, MaxLapses,   \* of QkdMessageKeys
  MaxIds, MaxKeys, MaxLosses                          \* of QkdSessions

ASSUME SessionsAssumption == {MaxIds, MaxKeys, MaxLosses} \subseteq Nat

VARIABLES
  part,
  slot, gen, task, asked, opens, lapses, freed,                           \* of QkdMessageKeys
  id, used, session, known, synced, net, made, retrieved, losses, split   \* of QkdSessions

openVars == <<slot, gen, task, asked, opens, lapses, freed>>
sessionVars == <<id, used, session, known, synced, net, made, retrieved, losses, split>>

\* All peers are processes of one remote host.
MCDaemonOf == [p \in Peers |-> "d"]

\* Three keys start at the same slot, and one at the next.
MCMsgHash == "k1" :> 0 @@ "k2" :> 0 @@ "k3" :> 1 @@ "k4" :> 0

M == INSTANCE QkdMessageKeys WITH
  Processes <- Peers, Keys <- MsgKeys, Size <- TableSize, Hash <- MsgHash,
  MaxFaults <- MaxLapses, faults <- lapses

N == INSTANCE QkdSessions WITH
  MaxFaults <- MaxLosses, taken <- retrieved, faults <- losses

\* Keys that start at one slot and have left no trace are alike: one of them stands for all
\* when a process opens a message.
Traced(k) ==
  asked[k] > 0 \/ k \in freed \/ (\E i \in M!Slots : slot[i].id = k) \/ \E p \in Peers : task[p].key = k
Untraced == {k \in MsgKeys : ~ Traced(k)}
Alike(k) == {j \in Untraced : MsgHash[j] = MsgHash[k]}
Standing == (MsgKeys \ Untraced) \cup {CHOOSE j \in Alike(k) : TRUE : k \in Untraced}
OneOfAlike == \A p \in Peers : task'[p].key \in Standing \cup {M!NoKey}

\* Only the part that runs has more than one initial state.
MCInit ==
  /\ part \in {"seal", "open", "agree"}
  /\ Init /\ M!Init /\ N!Init
  /\ part # "agree" => id = <<1, 2>>

MCNext ==
  /\ UNCHANGED part
  /\ \/ part = "seal" /\ Next /\ UNCHANGED <<openVars, sessionVars>>
     \/ part = "open" /\ M!Next /\ OneOfAlike /\ UNCHANGED <<vars, sessionVars>>
     \/ part = "agree" /\ N!Next /\ UNCHANGED <<vars, openVars>>

MCVars == <<part, vars, openVars, sessionVars>>

MCSpec == MCInit /\ [][MCNext]_MCVars

\* The fairness of each part: workers and processes run, heartbeats go on, and a datagram
\* that is not lost is handled.
MCFairSpec ==
  /\ MCSpec
  /\ \A p \in Peers : WF_vars(part = "seal" /\ Worker(p))
  /\ \A p \in Peers : WF_openVars(part = "open" /\ M!Run(p))
  /\ \A h \in 1..2 :
       /\ WF_sessionVars(part = "agree" /\ N!Hello(h))
       /\ WF_sessionVars(part = "agree" /\ \E m \in net : N!OnHello(h, m))
       /\ \A k \in 1..MaxKeys :
            /\ WF_sessionVars(/\ part = "agree"
                              /\ \E m \in net : m.type = "announce" /\ m.key = k /\ N!OnAnnounce(h, m))
            /\ WF_sessionVars(/\ part = "agree"
                              /\ \E m \in net : m.type = "ack" /\ m.key = k /\ N!OnAck(h, m))

-----------------------------------------------------------------------------
\* The variables of the part that runs have their types.
Types ==
  /\ part = "seal" => TypeOK
  /\ part = "open" => M!TypeOK
  /\ part = "agree" => N!TypeOK

\* The processes of a host ask the KME for a key once, unless an entry on the way to the
\* key's was emptied or evicted (claim_message_key; see QkdMessageKeys).
AskedOnceUnlessFreed == Types /\ M!AskedOnceUnlessFreed

\* A session that is active on the side that announced it is there on the other side, with
\* the same key (activate_outbound_by_key_id, accept_inbound; see QkdSessions).
ActiveIsShared == N!ActiveIsShared

Waiting(i) ==
  \/ part = "seal" /\ Unsent(i)
  \/ part = "open" /\ M!Unopened(i)
  \/ part = "agree" /\ ~ split /\ ~ N!Together

\* No one waits for a key or a session for ever.  Every publication of a reliable
\* publisher is written to every peer that can be reached, unless a worker that cannot reach
\* its own peer keeps the lock of the keys (send_message_reuse).  A process that opens a
\* message gets its key or fails, also if the one that had claimed the key died, unless an
\* entry on the way was freed, or its claimant died before it stored its pid and the entry
\* still names a live process (claim_message_key).  After restarts, lost, repeated and late datagrams, failures of the
\* KME and lapses, two daemons have the same active session again and have synchronised
\* over it, unless they came apart (the retry by the next HELLO).  The peers and the
\* processes are alike, so it is checked for one of them.
Served == []<> ~ Waiting("a")
=============================================================================
