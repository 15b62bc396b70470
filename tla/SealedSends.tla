----------------------------- MODULE SealedSends -----------------------------
(***************************************************************************)
(* How publications are sealed with QKD keys and sent to remote peers      *)
(* (send_message_reuse in quic_transport.rs, QkdMessageCrypto in           *)
(* security.rs).                                                           *)
(*                                                                         *)
(* Every peer has a worker.  It keeps a few publications in preparation,   *)
(* and writes the first of them when it is sealed.  What is in preparation *)
(* are futures that run only while the worker waits for them: a worker     *)
(* that is writing, or trying to connect to its peer, runs none of them.   *)
(* A publication is sealed once for all the peers of a daemon, in a cell   *)
(* of a bounded cache, and the keys are behind one lock.  Cell and lock    *)
(* hand over in the order of arrival, also to a future that is not run.    *)
(*                                                                         *)
(* The publisher is a reliable one, whose queues are not bounded: that a   *)
(* best-effort one drops its oldest pending samples is in RemoteRoutes.    *)
(***************************************************************************)
EXTENDS Naturals, Sequences, FiniteSets

CONSTANTS
  Peers,
  DaemonOf,      \* DaemonOf[p]: the daemon of the host of p
  MaxPubs,       \* bound on the publications
  PrepareDepth,  \* TOPIC_PREPARE_DEPTH, 4 in the code
  KeyLife,       \* QKD_MESSAGES_PER_KEY, 10 in the code
  CacheSize,     \* QKD_TOPIC_SEAL_CACHE_SIZE, 256 in the code
  MaxFaults,     \* bound on the failures of the KME or of the session
  MaxDown        \* bound on the peers that go away

ASSUME SealedSendsAssumption ==
  /\ {MaxPubs, PrepareDepth, KeyLife, CacheSize} \subseteq Nat \ {0}
  /\ {MaxFaults, MaxDown} \subseteq Nat
  /\ IsFiniteSet(Peers)

Pubs == 1..MaxPubs
Daemons == {DaemonOf[p] : p \in Peers}
Slots == Daemons \X Pubs

VARIABLES
  published,  \* publications so far; the queue of p has those after taken[p]
  taken,      \* taken[p]: publications that the worker of p has begun to prepare
  written,    \* written[p]: publications that it has written
  writing,    \* the workers that write, or try to
  down,       \* the peers that cannot be reached
  fut,        \* fut[p][n]: pc, cell and envelope of the future of publication n
  cell,       \* cell[c]: who waits to initialise it, in order, and its envelope
  entries,    \* entries[d, n]: the cell in the cache, 0 if there is none
  order,      \* the entries of the cache, oldest first
  lock,       \* who has asked for the lock of outbound_keys, in order
  key,        \* key[d]: number and uses of the key for d
  keys,       \* the keys that the KME has given: for whom, and history: how often used
  faults,
  again       \* history: entries that were evicted, or removed after a failure

vars == <<published, taken, written, writing, down, fut, cell, entries, order,
          lock, key, keys, faults, again>>
pipeline == <<published, taken, written, writing, down>>
cache == <<entries, order, again>>

NoWire == <<0, 0>>
Idle == [pc |-> "none", cell |-> 0, wire |-> NoWire]

Init ==
  /\ published = 0
  /\ taken = [p \in Peers |-> 0] /\ written = [p \in Peers |-> 0]
  /\ writing = {} /\ down = {}
  /\ fut = [p \in Peers |-> [n \in Pubs |-> Idle]]
  /\ cell = <<>>
  /\ entries = [s \in Slots |-> 0] /\ order = <<>>
  /\ lock = <<>>
  /\ key = [d \in Daemons |-> [id |-> 0, uses |-> 0]]
  /\ keys = <<>> /\ faults = 0 /\ again = {}

-----------------------------------------------------------------------------
(* The worker                                                              *)

\* push_back onto the queue of every peer (send_depth is usize::MAX).
Publish ==
  /\ published < MaxPubs
  /\ published' = published + 1
  /\ UNCHANGED <<taken, written, writing, down, fut, cell, lock, key, keys, faults, cache>>

\* The worker waits for its futures, and for the queue: only then do they run.
Polled(p) == p \notin writing
Go(p, n, pc) == fut' = [fut EXCEPT ![p][n].pc = pc]

\* pop_front, while fewer than TOPIC_PREPARE_DEPTH are in preparation.
Prepare(p) ==
  /\ Polled(p)
  /\ taken[p] < published /\ taken[p] - written[p] < PrepareDepth
  /\ taken' = [taken EXCEPT ![p] = @ + 1]
  /\ Go(p, taken[p] + 1, "seal")
  /\ UNCHANGED <<published, written, writing, down, cell, lock, key, keys, faults, cache>>

\* preparing.next(): the oldest, when it is done.
Take(p) ==
  /\ Polled(p) /\ taken[p] > written[p]
  /\ fut[p][written[p] + 1].pc = "done"
  /\ writing' = writing \cup {p}
  /\ UNCHANGED <<published, taken, written, down, fut, cell, lock, key, keys, faults, cache>>

\* Connect, open a stream, write; all of it is tried again until it succeeds.
Write(p) ==
  /\ p \in writing \ down
  /\ writing' = writing \ {p}
  /\ written' = [written EXCEPT ![p] = @ + 1]
  /\ UNCHANGED <<published, taken, down, fut, cell, lock, key, keys, faults, cache>>

\* A peer goes away; it makes no difference before the worker has to do with it.
GoDown(p) ==
  /\ p \in writing \ down /\ Cardinality(down) < MaxDown
  /\ down' = down \cup {p}
  /\ UNCHANGED <<published, taken, written, writing, fut, cell, lock, key, keys, faults, cache>>

-----------------------------------------------------------------------------
(* seal_topic_for_daemon                                                   *)

At(p, n, pc) == fut[p][n].pc = pc /\ Polled(p)
Put(p, n, f) == fut' = [fut EXCEPT ![p][n] = f]
Wait(p, n, c) == Put(p, n, [pc |-> "cell", cell |-> c, wire |-> NoWire])
Done(p, n, wire) == Put(p, n, [pc |-> "done", cell |-> 0, wire |-> wire])
Ask(q, p, n) == Append(q, <<p, n>>)
First(q, p, n) == q # <<>> /\ Head(q) = <<p, n>>
Leave(q, p, n) == IF First(q, p, n) THEN Tail(q) ELSE q

Queue(c, q) == cell' = [cell EXCEPT ![c].asked = q]

\* retain, for an entry that is there once
Without(q, s) ==
  LET k == CHOOSE i \in DOMAIN q : q[i] = s IN
  [i \in 1 .. Len(q) - 1 |-> q[IF i < k THEN i ELSE i + 1]]

\* The cell in the cache, or a new one in the place of the oldest.  Who finds no envelope in
\* it waits for its turn.
Lookup(p, n) ==
  /\ At(p, n, "seal")
  /\ LET s == <<DaemonOf[p], n>>
         full == Len(order) >= CacheSize
         c == IF entries[s] # 0 THEN entries[s] ELSE Len(cell) + 1
     IN
       /\ IF entries[s] # 0
            THEN /\ Queue(c, IF cell[c].wire = NoWire THEN Ask(cell[c].asked, p, n) ELSE cell[c].asked)
                 /\ UNCHANGED <<entries, order, again>>
            ELSE /\ cell' = Append(cell, [asked |-> <<<<p, n>>>>, wire |-> NoWire])
                 /\ order' = Append(IF full THEN Tail(order) ELSE order, s)
                 /\ entries' = [t \in Slots |-> IF t = s THEN c ELSE
                                  IF full /\ t = Head(order) THEN 0 ELSE entries[t]]
                 /\ again' = IF full THEN again \cup {Head(order)} ELSE again
       /\ Wait(p, n, c)
  /\ UNCHANGED <<lock, key, keys, faults, pipeline>>

\* get_or_try_init: the envelope, if the cell has one ...
Reuse(p, n) ==
  /\ At(p, n, "cell")
  /\ LET c == fut[p][n].cell IN
       /\ cell[c].wire # NoWire
       /\ Done(p, n, cell[c].wire)
  /\ UNCHANGED <<cell, lock, key, keys, faults, pipeline, cache>>

\* ... and if not, the first to ask for it seals, and asks for the lock of the keys.
Initialises_Any(p, n) ==
  At(p, n, "cell") /\ cell[fut[p][n].cell].wire = NoWire

Initialises(p, n) ==
  /\ At(p, n, "cell")
  /\ cell[fut[p][n].cell].wire = NoWire /\ First(cell[fut[p][n].cell].asked, p, n)

Initialise(p, n) ==
  /\ Initialises(p, n)
  /\ Go(p, n, "lock")
  /\ lock' = Ask(lock, p, n)
  /\ UNCHANGED <<cell, key, keys, faults, pipeline, cache>>

-----------------------------------------------------------------------------
(* encryption_key and seal_with_material                                   *)

\* The envelope of use u of key k: it fills the cell, which all who wait for it find, and
\* the lock is free again.
Sealed(p, n, k, u) ==
  /\ Done(p, n, <<k, u>>)
  /\ cell' = [cell EXCEPT ![fut[p][n].cell] = [asked |-> <<>>, wire |-> <<k, u>>]]
  /\ lock' = Leave(lock, p, n)

\* The key in use, which has envelopes left ...
UseKey(p, n) ==
  /\ At(p, n, "lock") /\ First(lock, p, n)
  /\ LET d == DaemonOf[p] IN
       /\ key[d].uses \in 1 .. KeyLife - 1
       /\ key' = [key EXCEPT ![d].uses = @ + 1]
       /\ keys' = [keys EXCEPT ![key[d].id].seals = @ + 1]
       /\ Sealed(p, n, key[d].id, key[d].uses + 1)
  /\ UNCHANGED <<faults, pipeline, cache>>

\* ... or a new one from the KME, for which the future waits with the lock held.
AskKme_Unlocked(p, n) ==
  /\ At(p, n, "lock") /\ First(lock, p, n)
  /\ key[DaemonOf[p]].uses \in {0, KeyLife}
  /\ Go(p, n, "kme")
  /\ lock' = Leave(lock, p, n)
  /\ UNCHANGED <<cell, key, keys, faults, pipeline, cache>>

AskKme(p, n) ==
  /\ At(p, n, "lock") /\ First(lock, p, n)
  /\ key[DaemonOf[p]].uses \in {0, KeyLife}
  /\ Go(p, n, "kme")
  /\ UNCHANGED <<cell, lock, key, keys, faults, pipeline, cache>>

NewKey(p, n) ==
  /\ At(p, n, "kme")
  /\ LET d == DaemonOf[p]
         k == Len(keys) + 1
     IN
       /\ keys' = Append(keys, [of |-> d, seals |-> 1])
       /\ key' = [key EXCEPT ![d] = [id |-> k, uses |-> 1]]
       /\ Sealed(p, n, k, 1)
  /\ UNCHANGED <<faults, pipeline, cache>>

\* No session with the daemon, or no answer of the KME: the next to have asked for the
\* cell tries, the entry is removed if it still is this cell, and
\* prepare_topic_send tries again.
Released(p, n) ==
  /\ Put(p, n, [pc |-> "seal", cell |-> 0, wire |-> NoWire])
  /\ lock' = Leave(lock, p, n)
  /\ LET c == fut[p][n].cell IN Queue(c, Leave(cell[c].asked, p, n))

Fail(p, n) ==
  /\ faults < MaxFaults /\ faults' = faults + 1
  /\ \/ At(p, n, "kme")
     \/ Initialises(p, n)
  /\ Released(p, n)
  /\ LET s == <<DaemonOf[p], n>> IN
       IF entries[s] = fut[p][n].cell
         THEN /\ entries' = [entries EXCEPT ![s] = 0]
              /\ order' = Without(order, s)
              /\ again' = again \cup {s}
         ELSE UNCHANGED <<entries, order, again>>
  /\ UNCHANGED <<key, keys, pipeline>>

Seal(p, n) ==
  \/ Lookup(p, n) \/ Reuse(p, n) \/ Initialise(p, n)
  \/ UseKey(p, n) \/ AskKme(p, n) \/ NewKey(p, n)

Worker(p) == Prepare(p) \/ Take(p) \/ Write(p) \/ \E n \in Pubs : Seal(p, n)

Next ==
  \/ Publish
  \/ \E p \in Peers : Worker(p) \/ GoDown(p) \/ \E n \in Pubs : Fail(p, n)

Spec == Init /\ [][Next]_vars

\* The runtime runs every worker that can go on, and with it its futures; the KME
\* answers; a peer that can be reached lets the worker write.
FairSpec == Spec /\ \A p \in Peers : WF_vars(Worker(p))

-----------------------------------------------------------------------------
Futures == Peers \X Pubs
Wires == Nat \X Nat
Cells == [asked : Seq(Futures), wire : Wires]

\* The cache has at most QKD_TOPIC_SEAL_CACHE_SIZE entries, and each of them once.
TypeOK ==
  /\ published \in 0..MaxPubs
  /\ taken \in [Peers -> 0..MaxPubs] /\ written \in [Peers -> 0..MaxPubs]
  /\ \A p \in Peers : written[p] <= taken[p] /\ taken[p] <= published
  /\ writing \cup down \subseteq Peers
  /\ fut \in [Peers -> [Pubs -> [pc : {"none", "seal", "cell", "lock", "kme", "done"},
                               cell : 0..Len(cell), wire : Wires]]]
  /\ cell \in Seq(Cells)
  /\ entries \in [Slots -> 0..Len(cell)]
  /\ order \in Seq(Slots) /\ Len(order) <= CacheSize
  /\ \A i, j \in DOMAIN order : order[i] = order[j] => i = j
  /\ lock \in Seq(Futures)
  /\ key \in [Daemons -> [id : Nat, uses : Nat]]
  /\ keys \in Seq([of : Daemons, seals : Nat])
  /\ faults \in Nat /\ again \subseteq Slots

\* seal_topic_for_daemon "reus[es] its already-sealed envelope": the peers of a
\* daemon get the same envelope of a publication, whichever of them sealed it and
\* however their preparations interleave.  The exceptions are an entry that was
\* evicted from the cache, and one that was removed because sealing had failed.
SealedOnceUnlessRemoved ==
  \A p, q \in Peers : \A n \in Pubs :
    \/ DaemonOf[p] # DaemonOf[q]
    \/ <<DaemonOf[p], n>> \in again
    \/ NoWire \in {fut[p][n].wire, fut[q][n].wire}
    \/ fut[p][n].wire = fut[q][n].wire

\* A key seals at most QKD_MESSAGES_PER_KEY publications, and a new key is asked for
\* only when the one before has sealed as many: no concurrent preparation wastes a
\* key of the KME or wears one out.
KeysUsedUp ==
  \A k \in DOMAIN keys :
    /\ keys[k].seals <= KeyLife
    /\ (\E j \in DOMAIN keys : j > k /\ keys[j].of = keys[k].of) => keys[k].seals = KeyLife

\* A worker that cannot reach its peer while one of its futures, which it does not
\* run, has or waits for a cell or the lock of the keys.
Frozen ==
  \E p \in writing \cap down : \E n \in Pubs : fut[p][n].pc \in {"cell", "lock", "kme"}

\* There is a publication that has not been written to p, although p can be reached and
\* no worker has stopped running its futures for a peer it cannot reach: the lock or
\* the cell that one of them holds is then never released, and the workers of all
\* other peers wait for it.
Unsent(p) == written[p] < published /\ p \notin down /\ ~ Frozen
=============================================================================
