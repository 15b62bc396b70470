--------------------------- MODULE QkdMessageKeys ---------------------------
(***************************************************************************)
(* The keys of received messages, which the processes of a host share.     *)
(*                                                                         *)
(* A sender uses a key for several messages, and every process of the      *)
(* receiving host that gets one of them needs the key.  The key manager    *)
(* (KME) hands it out once, so the processes coordinate in a table in      *)
(* shared memory: an open-addressing hash table without locks, in which    *)
(* the first process to claim a key retrieves it and publishes it for the  *)
(* others.  Claims of processes that died are recovered, and the oldest    *)
(* published key makes room when the table is full.                        *)
(*                                                                         *)
(* A key stands for the sender, the id and the value.  A load followed by  *)
(* a compare-and-swap is one step: a swap that fails starts the scan again *)
(* like a load that comes later.  What is lost is a swap that succeeds on  *)
(* another entry than the one loaded: in FindPending that takes two more   *)
(* processes, one that recovers the entry and one that claims it anew      *)
(* between the load and the swap of the third.                             *)
(***************************************************************************)
EXTENDS Integers, FiniteSets

CONSTANTS
  Processes,  \* the receiving processes
  Keys,
  Size,       \* MAX_QKD_MESSAGE_KEYS
  Hash,       \* Hash[k]: message_key_hash, modulo Size
  MaxOpens,   \* bound on the messages that each process opens
  MaxFaults   \* bound on crashes, KME failures, resets, and writers slower than 10 ms

Slots == 0..(Size - 1)
Nobody == "nobody"
NoKey == "no key"
NoSlot == Size

Free == [state |-> "empty", writer |-> Nobody, id |-> NoKey, gen |-> 0, key |-> NoKey]

VARIABLES
  slot,   \* slot[i]: an entry of the table
  gen,    \* header.generation
  task,   \* task[p]: what p does: where it is, for which key, at which offset and slot,
          \* and the oldest published key it has passed
  asked,  \* asked[k]: how often the KME was asked for k
  opens, faults,
  freed   \* history: the keys for which a slot on their path was emptied or evicted

vars == <<slot, gen, task, asked, opens, faults, freed>>

Idle == [pc |-> "idle", key |-> NoKey, at |-> 0, i |-> NoSlot, oldest |-> NoSlot, age |-> 0]

Init ==
  /\ slot = [i \in Slots |-> Free]
  /\ gen = 0
  /\ task = [p \in Processes |-> Idle]
  /\ asked = [k \in Keys |-> 0]
  /\ opens = [p \in Processes |-> 0]
  /\ faults = 0 /\ freed = {}

----------------------------------------------------------------------------
Alive(p) == p # Nobody /\ task[p].pc # "dead"
Fault == faults < MaxFaults /\ faults' = faults + 1
Offset(k, i) == (i - Hash[k]) % Size

\* The processes that are in the middle of writing slot i.
Holders(i) == {p \in Processes : task[p].pc \in {"claim", "fill", "clear"} /\ task[p].i = i}

\* The processes whose scan is past slot i.
Past(i) == {p \in Processes : task[p].pc = "scan" /\ Offset(task[p].key, i) < task[p].at}

\* The keys that have, or are about to get, an entry behind slot i, and those that are
\* looked for there.
Behind(i) ==
  {k \in Keys :
     \/ \E j \in Slots : /\ Offset(k, i) <= Offset(k, j)
                        /\ \/ slot[j].state \in {"pending", "ready"} /\ slot[j].id = k
                           \/ \E p \in Holders(j) : task[p].key = k
     \/ \E p \in Past(i) : task[p].key = k}

Scan(k) == [Idle EXCEPT !.pc = "scan", !.key = k]
Goto(p, t) == task' = [task EXCEPT ![p] = t]
Step(p, pc) == task' = [task EXCEPT ![p].pc = pc]
Set(i, state) == slot' = [slot EXCEPT ![i].state = state]

\* open_wire asks for the key of a message.
Open(p, k) ==
  /\ task[p].pc = "idle" /\ opens[p] < MaxOpens
  /\ opens' = [opens EXCEPT ![p] = @ + 1]
  /\ Goto(p, Scan(k))
  /\ UNCHANGED <<slot, gen, asked, faults, freed>>

----------------------------------------------------------------------------
(* claim_message_key: the scan, slot by slot *)

At(p) == (Hash[task[p].key] + task[p].at) % Size
Scanning(p, state) == task[p].pc = "scan" /\ task[p].at < Size /\ slot[At(p)].state = state
Matches(p) == slot[At(p)].id = task[p].key

\* Another process writes the entry: p waits for up to 10 ms and starts again, and before
\* that it empties the entry if its writer is not there, or not yet; a writer slower than
\* that goes on to write an entry which is no longer its own.
WaitForWriter(p) ==
  /\ Scanning(p, "writing")
  /\ Goto(p, Scan(task[p].key))
  /\ \/ /\ Alive(slot[At(p)].writer)
        /\ UNCHANGED <<slot, faults, freed>>
     \/ /\ ~Alive(slot[At(p)].writer)
        /\ Set(At(p), "empty")
        /\ IF Holders(At(p)) = {} THEN freed' = freed \cup Behind(At(p)) /\ UNCHANGED faults
                                 ELSE freed' = Keys /\ Fault
  /\ UNCHANGED <<gen, asked, opens>>

ClaimEmpty(p) ==
  /\ Scanning(p, "empty")
  /\ Set(At(p), "writing")
  /\ Goto(p, [task[p] EXCEPT !.pc = "claim", !.i = At(p)])
  /\ UNCHANGED <<gen, asked, opens, faults, freed>>

FindPending_Claim(p) ==
  /\ Scanning(p, "pending") /\ Matches(p)
  /\ Goto(p, [task[p] EXCEPT !.pc = "fetch"])
  /\ UNCHANGED <<slot, gen, asked, opens, faults, freed>>

FindPending_Wait(p) ==
  /\ Scanning(p, "pending") /\ Matches(p)
  /\ Goto(p, Scan(task[p].key))
  /\ UNCHANGED <<slot, gen, asked, opens, faults, freed>>

\* The key is claimed: p asks again after 5 ms, unless the claimant has died.
FindPending(p) ==
  /\ Scanning(p, "pending") /\ Matches(p)
  /\ IF Alive(slot[At(p)].writer)
     THEN Goto(p, Scan(task[p].key)) /\ UNCHANGED slot
     ELSE Set(At(p), "writing") /\ Goto(p, [task[p] EXCEPT !.pc = "clear", !.i = At(p), !.at = Size])
  /\ UNCHANGED <<gen, asked, opens, faults, freed>>

FindReady(p) ==
  /\ Scanning(p, "ready") /\ Matches(p)
  /\ Goto(p, [task[p] EXCEPT !.pc = "copy", !.i = At(p)])
  /\ UNCHANGED <<slot, gen, asked, opens, faults, freed>>

Pass(p) ==
  /\ Scanning(p, "pending") \/ Scanning(p, "ready")
  /\ ~Matches(p)
  /\ LET older == /\ slot[At(p)].state = "ready"
                  /\ task[p].oldest = NoSlot \/ slot[At(p)].gen < task[p].age
     IN  Goto(p, [task[p] EXCEPT !.at = @ + 1,
                                 !.oldest = IF older THEN At(p) ELSE @,
                                 !.age = IF older THEN slot[At(p)].gen ELSE @])
  /\ UNCHANGED <<slot, gen, asked, opens, faults, freed>>

\* The table is full: the oldest published key makes room, if there is one.  It can be
\* asked for again, and so can a key that another process is looking for behind it.
Evict(p) ==
  /\ task[p].pc = "scan" /\ task[p].at = Size
  /\ LET i == task[p].oldest IN
     \/ i = NoSlot /\ Goto(p, Idle) /\ UNCHANGED <<slot, freed>>
     \/ /\ i # NoSlot /\ slot[i].state = "ready"
        /\ Set(i, "writing")
        /\ freed' = freed \cup {slot[i].id} \cup {task[q].key : q \in {r \in Past(i) : r # p}}
        /\ Goto(p, [task[p] EXCEPT !.pc = "claim", !.i = i])
     \/ i # NoSlot /\ slot[i].state # "ready" /\ Goto(p, Scan(task[p].key)) /\ UNCHANGED <<slot, freed>>
  /\ UNCHANGED <<gen, asked, opens, faults>>

----------------------------------------------------------------------------
(* initialize_message_entry, clear_message_entry and copy_message_key *)

Claim(p) ==
  /\ task[p].pc = "claim"
  /\ slot' = [slot EXCEPT ![task[p].i].writer = p]
  /\ Step(p, "fill")
  /\ UNCHANGED <<gen, asked, opens, faults, freed>>

Fill(p) ==
  /\ task[p].pc = "fill"
  /\ gen' = gen + 1
  /\ slot' = [slot EXCEPT ![task[p].i] =
       [@ EXCEPT !.state = "pending", !.id = task[p].key, !.key = NoKey, !.gen = gen + 1]]
  /\ Step(p, "fetch")
  /\ UNCHANGED <<asked, opens, faults, freed>>

\* After a recovery the scan goes on, and after a failure the message is rejected.
Clear(p) ==
  /\ task[p].pc = "clear"
  /\ slot' = [slot EXCEPT ![task[p].i] = Free]
  /\ freed' = freed \cup Behind(task[p].i)
  /\ Goto(p, IF task[p].at = Size THEN Scan(task[p].key) ELSE Idle)
  /\ UNCHANGED <<gen, asked, opens, faults>>

\* The state is read again after the key: the message is rejected if it has changed.
Copy(p) ==
  /\ task[p].pc = "copy"
  /\ Goto(p, Idle)
  /\ UNCHANGED <<slot, gen, asked, opens, faults, freed>>

----------------------------------------------------------------------------
(* The rest of open_wire: the retrieval, publish_message_key, abandon_message_key *)

\* find_message_entry
Claimed(k) == {i \in Slots : slot[i].state = "pending" /\ slot[i].id = k}
First(S) == CHOOSE i \in S : \A j \in S : i <= j

\* get_decryption_key: the KME gives a key once.
Given(k) == asked[k] = 0

\* abandon_message_key: the claim, if p still has one, is cleared.
Abandon(p) ==
  LET mine == Claimed(task[p].key) IN
  \/ mine = {} /\ Goto(p, Idle) /\ UNCHANGED slot
  \/ /\ mine # {} /\ Set(First(mine), "writing")
     /\ Goto(p, [task[p] EXCEPT !.pc = "clear", !.i = First(mine), !.at = 0])

Fetch(p) ==
  /\ task[p].pc = "fetch"
  /\ asked' = [asked EXCEPT ![task[p].key] = @ + 1]
  /\ \/ Given(task[p].key) /\ Step(p, "publish") /\ UNCHANGED <<slot, faults>>
     \/ /\ IF Given(task[p].key) THEN Fault ELSE UNCHANGED faults
        /\ Abandon(p)
  /\ UNCHANGED <<gen, opens, freed>>

\* Without its claim the message is rejected ...
Publish(p) ==
  /\ task[p].pc = "publish"
  /\ LET mine == Claimed(task[p].key) IN
     Goto(p, IF mine = {} THEN Idle ELSE [task[p] EXCEPT !.pc = "store", !.i = First(mine)])
  /\ UNCHANGED <<slot, gen, asked, opens, faults, freed>>

\* ... and the entry that was found gets the key, whatever has become of it.
Store(p) ==
  /\ task[p].pc = "store"
  /\ slot' = [slot EXCEPT ![task[p].i] = [@ EXCEPT !.key = task[p].key, !.state = "ready"]]
  /\ Goto(p, Idle)
  /\ UNCHANGED <<gen, asked, opens, faults, freed>>

----------------------------------------------------------------------------
Crash(p) ==
  /\ Alive(p) /\ Fault
  /\ Goto(p, [Idle EXCEPT !.pc = "dead"])
  /\ UNCHANGED <<slot, gen, asked, opens, freed>>

\* A new daemon: QkdKeyStore::reset empties the table under the processes.
Reset ==
  /\ Fault
  /\ slot' = [i \in Slots |-> Free]
  /\ gen' = gen + 1
  /\ freed' = Keys
  /\ UNCHANGED <<task, asked, opens>>

Run(p) ==
  \/ WaitForWriter(p) \/ ClaimEmpty(p) \/ FindPending(p) \/ FindReady(p) \/ Pass(p) \/ Evict(p)
  \/ Claim(p) \/ Fill(p) \/ Clear(p) \/ Copy(p) \/ Fetch(p) \/ Publish(p)
  \/ Store(p)

Next ==
  \/ \E p \in Processes : Run(p) \/ Crash(p) \/ \E k \in Keys : Open(p, k)
  \/ Reset

Spec == Init /\ [][Next]_vars

\* Processes run; the KME answers or fails.
FairSpec == Spec /\ \A p \in Processes : WF_vars(Run(p))

----------------------------------------------------------------------------
(* Properties *)

TypeOK ==
  /\ \A i \in Slots : slot[i].state \in {"empty", "writing", "pending", "ready"}
  /\ \A p \in Processes : task[p].at \in 0..Size /\ task[p].i \in 0..Size

\* The processes of a host ask for a key once, however their scans, claims and recoveries
\* interleave, unless an entry on the way to the key's was emptied or evicted: later scans
\* stop there, and earlier ones are past it (claim_message_key).
AskedOnceUnlessFreed == \A k \in Keys : asked[k] > 1 => k \in freed

\* Whoever took slot i died before it stored its pid, and the process that the slot still
\* names is alive: nobody empties the slot, and a scan that comes to it waits for ever.
Orphaned(i) == slot[i].state = "writing" /\ Holders(i) = {} /\ Alive(slot[i].writer)

\* p waits for a key, and has not come to an orphaned entry, and no entry on the way to the
\* key was emptied or evicted: then a key can have two claims, publish_message_key and
\* abandon_message_key take the first one they find, and the other one stays pending.
Unopened(p) ==
  /\ task[p].pc \notin {"idle", "dead"}
  /\ ~ (task[p].pc = "scan" /\ task[p].at < Size /\ Orphaned(At(p)))
  /\ task[p].key \notin freed

=============================================================================
