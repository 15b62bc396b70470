------------------------- MODULE SubscriptionProofs -------------------------
(***************************************************************************)
(* Proofs about the subscriptions of a topic, for every number of          *)
(* subscriptions, depth of the ring and of the queue, size and bound.      *)
(*                                                                         *)
(* What a subscription takes is decided by its one cursor, which numbers   *)
(* the messages of two sources.  The invariant relates the cursor to both: *)
(* what was taken lies before it (Behind) and in order (Ordered), what a   *)
(* take has found lies at or after it (Ahead), because the numbers of the  *)
(* queue stay at a fixed distance from the arrivals (Numbered, OfQueue).   *)
(* A take that began while the message at the cursor was there has that    *)
(* message, or the ring has overwritten it (Skipping).                     *)
(*                                                                         *)
(* That a message is announced needs to know why the cursor is where it    *)
(* is: at its start, at a message that is there, or behind one that was    *)
(* taken (ToldByRing, ToldByQueue).  For a cursor that the ring has        *)
(* overtaken data_available_from looks at read_index, which the only       *)
(* reader of the ring raises to the end only if it goes on to the newest   *)
(* message (Reread).                                                       *)
(***************************************************************************)
EXTENDS Subscription, TLAPS

\* The steps of a take, a take, a subscription, a slot of the ring and a message of the queue.
Pcs == {"idle", "peek", "read", "load", "oldest", "ring", "overwritten", "unwritten", "lifespan",
        "fail", "filtered"}
Takes == [pc : Pcs, cap : Nat, widx : Nat, actual : Nat, retries : 0..MaxRetries, had : BOOLEAN,
          found : Messages \cup {NoMessage}]
Records == [alive : BOOLEAN, cursor : Nat, local0 : Nat, remote0 : Nat, epoch0 : Nat, take : Takes,
            got : Seq(Messages)]
Slots == [size : Sizes, state : {"writing", "written", "dead"}]
Queued == [seq : Nat, id : Nat, size : Sizes, packed : BOOLEAN]

\* The types of the state: the watermark and the generation are within the ring.
RingTyped ==
  /\ ring \in Seq(Slots)
  /\ read_index \in 0..Len(ring) /\ epoch \in 0..Len(ring)

QueueTyped ==
  /\ messages \in Seq(Queued) /\ Len(messages) <= QueueDepth
  /\ next_seq \in Nat \cup {NoQueue} /\ arrived \in Nat /\ keep_all \in BOOLEAN

RestTyped ==
  /\ expired \subseteq ({"ring", "queue"} \X Nat)
  /\ refused \in BOOLEAN

SubsTyped == sub \in [Subs -> Records]

\* The queue holds consecutive numbers; the number of a message is as far from next_seq as
\* its arrival is from the arrivals so far; only a full KeepAll queue lacks the newest.
Numbered ==
  /\ next_seq = NoQueue => arrived = 0 /\ messages = <<>>
  /\ \A i \in DOMAIN messages :
       /\ messages[i].seq = messages[1].seq + (i - 1)
       /\ messages[i].id - arrived = messages[i].seq - next_seq
       /\ messages[i].seq < next_seq
  /\ messages # <<>> => \/ messages[Len(messages)].seq = next_seq - 1
                        \/ keep_all /\ Len(messages) >= QueueDepth

\* seq is the number that the queue gave to the arrival id.
OfQueue(id, seq) == next_seq # NoQueue /\ id < arrived /\ id - arrived = seq - next_seq

\* A take u of a subscription whose cursor is c tries a message that is not before c; what
\* it has found is the message of that number.
Aims(c, u) ==
  /\ u.widx <= Len(ring)
  /\ u.pc \in {"ring", "overwritten", "unwritten", "lifespan"} => c <= u.actual
  /\ u.pc \in {"overwritten", "unwritten"} => u.retries < MaxRetries
  /\ u.pc = "lifespan" =>
       \/ u.found.src = "ring" /\ u.found.id = u.actual /\ u.actual < Len(ring)
       \/ u.found.src = "queue" /\ OfQueue(u.found.id, u.actual)

\* The cursor of a subscription r has not moved back, and its take is ahead of it.
Ahead(r) ==
  /\ Latched => r.epoch0 <= r.local0
  /\ r.local0 <= r.cursor
  /\ Aims(r.cursor, r.take)

\* What r has taken is behind its cursor.
Behind(r) ==
  \A i \in DOMAIN r.got :
    \/ r.got[i].src = "ring" /\ r.got[i].id \in r.local0..(r.cursor - 1)
    \/ r.got[i].src = "queue" /\ \E q \in 0..(r.cursor - 1) : OfQueue(r.got[i].id, q)

\* r has taken the messages of a source in order and none twice.
Ordered(r) ==
  \A i, j \in DOMAIN r.got :
    i < j /\ r.got[i].src = r.got[j].src => r.got[i].id < r.got[j].id

\* The ring has overtaken the position q.
Lost(q) == Len(ring) - q > RingDepth

\* A take that began while the message at the cursor c was written has not passed it by,
\* unless the ring has overtaken c.
Skipping(c, u) ==
  /\ u.had
  /\ u.pc \in {"oldest", "ring", "overwritten", "unwritten"} \/ (u.pc = "lifespan" /\ u.found.src = "ring")
  => \/ Lost(c)
     \/ /\ Written(c) /\ u.pc \in {"oldest", "ring", "lifespan"}
        /\ u.pc # "oldest" => u.actual = c

\* r has taken the message before its cursor.
TakenLast(r, src) == \E i \in DOMAIN r.got : r.got[i].src = src /\ r.got[i].id = r.cursor - 1

\* Why the cursor is where it is, if all messages come over the ring.
ToldByRing(r) == r.cursor = r.local0 \/ r.cursor < Len(ring) \/ TakenLast(r, "ring")

\* No other subscription reads the ring.
Alone(s) == \A t \in Subs : sub[t].alive => t = s

\* If the ring has overtaken the cursor c, there is something that nobody has read, or the
\* take u has just read the newest message.
Reread(c, u) ==
  Lost(c) =>
    \/ read_index < Len(ring)
    \/ /\ u.pc \in {"lifespan", "fail"} /\ Written(Len(ring) - 1)
       /\ u.pc = "lifespan" => u.actual = Len(ring) - 1

\* Why the cursor is where it is, if all messages come over QUIC.
ToldByQueue(r) ==
  r.cursor = 0 \/ (messages # <<>> /\ r.cursor <= messages[Len(messages)].seq) \/ TakenLast(r, "queue")

Takings == \A s \in Subs : sub[s].alive =>
  Ahead(sub[s]) /\ Behind(sub[s]) /\ Ordered(sub[s]) /\ Skipping(sub[s].cursor, sub[s].take)

\* A subscription that does not exist yet has taken nothing.
Unborn == \A s \in Subs : ~ sub[s].alive => sub[s].take.pc = "idle" /\ sub[s].got = <<>>

\* As long as nothing came over QUIC, and as long as nothing was written to the ring.
FromRing == arrived = 0 => \A s \in Subs : sub[s].alive =>
  ToldByRing(sub[s]) /\ (Alone(s) => Reread(sub[s].cursor, sub[s].take))

FromQueue == ring = <<>> =>
  next_seq \in {NoQueue, arrived} /\ \A s \in Subs : sub[s].alive => ToldByQueue(sub[s])

\* The inductive invariant.
SubInv ==
  /\ RingTyped /\ QueueTyped /\ RestTyped /\ SubsTyped /\ Numbered
  /\ Takings /\ Unborn /\ FromRing /\ FromQueue

\* u is a take with these fields.
IsTake(u, pc, widx, had, actual, retries, found) ==
  /\ u \in Takes /\ u.pc = pc /\ u.widx = widx /\ u.had = had /\ u.actual = actual
  /\ u.retries = retries /\ u.found = found

\* The cursor of s moves to q, and its take becomes u; r is s after that.
Moves(s, q, u) == sub' = [sub EXCEPT ![s].cursor = q, ![s].take = u]

MovedTo(s, r, q, u) ==
  /\ sub' = [sub EXCEPT ![s] = r]
  /\ r.take = u /\ r.cursor = q /\ r.alive = sub[s].alive /\ r.got = sub[s].got
  /\ r.local0 = sub[s].local0 /\ r.remote0 = sub[s].remote0 /\ r.epoch0 = sub[s].epoch0

\* The same when s takes the message f.
Delivers(s, q, u, f) ==
  sub' = [sub EXCEPT ![s].cursor = q, ![s].got = Append(@, f), ![s].take = u]

TookTo(s, r, q, u, f) ==
  /\ sub' = [sub EXCEPT ![s] = r]
  /\ r.take = u /\ r.cursor = q /\ r.alive = sub[s].alive /\ r.got = Append(sub[s].got, f)
  /\ r.local0 = sub[s].local0 /\ r.remote0 = sub[s].remote0 /\ r.epoch0 = sub[s].epoch0

\* h is g and f after it, as what was taken; where f was; and the same of the queue.
Longer(h, g, f) ==
  /\ Len(h) \in DOMAIN h /\ h[Len(h)] = f
  /\ \A i \in DOMAIN h : i = Len(h) \/ (i \in DOMAIN g /\ h[i] = g[i])
  /\ \A i, j \in DOMAIN h : i < j => i \in DOMAIN g /\ h[i] = g[i]

Located(f, a) == (f.src = "ring" /\ f.id = a) \/ (f.src = "queue" /\ OfQueue(f.id, a))

Joins(h, g, m) ==
  /\ h \in Seq(Queued) /\ Len(h) = Len(g) + 1 /\ h[Len(h)] = m
  /\ \A i \in 1..Len(g) : h[i] = g[i]

\* The queue loses its k oldest messages and gets m.
Shift(k, m) ==
  /\ messages' \in Seq(Queued) /\ k <= Len(messages) /\ Len(messages') = (Len(messages) - k) + 1
  /\ Len(messages) >= QueueDepth => k = 1
  /\ messages'[Len(messages')] = m
  /\ \A i \in 1..Len(messages) - k : messages'[i] = messages[i + k]

\* r is a subscription that has just been created.
Fresh(r) ==
  /\ r \in Records /\ r.alive /\ r.take = Idle /\ r.got = <<>>
  /\ r.cursor = InitialSeq /\ r.local0 = InitialSeq /\ r.epoch0 = epoch

\* The ring loses no written message but those it overtakes.
Grown ==
  /\ Len(ring) <= Len(ring')
  /\ \A q \in Nat : Written(q) => Written(q)' \/ Lost(q)'
  /\ read_index' < Len(ring') \/ (Len(ring') = Len(ring) /\ read_index' = read_index)

\* A cursor c may move on to q without a message being taken.
MayMove(c, q) ==
  /\ c <= q
  /\ arrived = 0 => q < Len(ring) /\ ~ Lost(q)
  /\ ring = <<>> => messages # <<>> /\ q <= messages[Len(messages)].seq

\* r is the subscription r0 with another take.
Put(r, r0, u) ==
  /\ r = [r0 EXCEPT !.take = u] /\ r.take = u
  /\ r.alive = r0.alive /\ r.cursor = r0.cursor /\ r.got = r0.got
  /\ r.local0 = r0.local0 /\ r.remote0 = r0.remote0 /\ r.epoch0 = r0.epoch0

\* Replacing the take of a subscription leaves its other fields and gives a subscription.
LEMMA PutTake ==
  ASSUME NEW r0 \in Records, NEW u \in Takes
  PROVE  \E r \in Records : Put(r, r0, u)
<1> DEFINE r == [r0 EXCEPT !.take = u]
<1>1. /\ r \in Records /\ r.take = u
      /\ r.alive = r0.alive /\ r.cursor = r0.cursor /\ r.got = r0.got
      /\ r.local0 = r0.local0 /\ r.remote0 = r0.remote0 /\ r.epoch0 = r0.epoch0
  BY Zenon DEF Records
<1> HIDE DEF r
<1>2. r = [r0 EXCEPT !.take = u]
  BY DEF r
<1> QED BY <1>1, <1>2, Zenon DEF Put

\* A take that goes on to another step keeps its other fields (the jumps of rmw_take).
LEMMA PutPc ==
  ASSUME NEW t \in Takes, NEW pc \in Pcs
  PROVE  IsTake([t EXCEPT !.pc = pc],
                pc, t.widx, t.had, t.actual, t.retries, t.found)
  BY Zenon DEF Takes, IsTake

\* The take after current_seq() was loaded.
LEMMA PutLoad ==
  ASSUME NEW t \in Takes, NEW n \in Nat, NEW b \in BOOLEAN
  PROVE  IsTake([t EXCEPT !.pc = "oldest", !.widx = n, !.had = b],
                "oldest", n, b, t.actual, t.retries, t.found)
  BY Zenon DEF Takes, Pcs, IsTake

\* The take after oldest_available_seq() was loaded.
LEMMA PutActual ==
  ASSUME NEW t \in Takes, NEW n \in Nat
  PROVE  IsTake([t EXCEPT !.pc = "ring", !.actual = n],
                "ring", t.widx, t.had, n, t.retries, t.found)
  BY Zenon DEF Takes, Pcs, IsTake

\* The take after a retry of RingBuffer::read.
LEMMA PutRetry ==
  ASSUME NEW t \in Takes, NEW n \in Nat, NEW k \in 0..MaxRetries
  PROVE  IsTake([t EXCEPT !.pc = "ring", !.actual = n, !.retries = k],
                "ring", t.widx, t.had, n, k, t.found)
  BY Zenon DEF Takes, Pcs, IsTake

\* The take after read_at has found a message of the queue.
LEMMA PutFound ==
  ASSUME NEW t \in Takes, NEW n \in Nat, NEW f \in Messages
  PROVE  IsTake([t EXCEPT !.pc = "lifespan", !.actual = n, !.found = f],
                "lifespan", t.widx, t.had, n, t.retries, f)
  BY Zenon DEF Takes, Pcs, IsTake

\* The take after RingBuffer::read has found a message of the ring.
LEMMA PutRead ==
  ASSUME NEW t \in Takes, NEW f \in Messages
  PROVE  IsTake([t EXCEPT !.pc = "lifespan", !.found = f],
                "lifespan", t.widx, t.had, t.actual, t.retries, f)
  BY Zenon DEF Takes, Pcs, IsTake

\* A step that replaces one subscription leaves the others.
LEMMA SubPut ==
  ASSUME SubsTyped, NEW s \in Subs, NEW r \in Records, sub' = [sub EXCEPT ![s] = r]
  PROVE  SubsTyped' /\ sub'[s] = r /\ \A t \in Subs : t # s => sub'[t] = sub[t]
  BY Zenon DEF SubsTyped

\* What the invariant says of one subscription depends on the ring, the queue and the
\* arrivals only.
LEMMA SameEnv ==
  ASSUME UNCHANGED <<ring, messages, next_seq, arrived>>, NEW q
  PROVE  /\ Ahead(q)' <=> Ahead(q)
         /\ Behind(q)' <=> Behind(q)
         /\ Ordered(q)' <=> Ordered(q)
         /\ Skipping(q.cursor, q.take)' <=> Skipping(q.cursor, q.take)
         /\ ToldByRing(q)' <=> ToldByRing(q)
         /\ ToldByQueue(q)' <=> ToldByQueue(q)
<1>1. Ahead(q)' <=> Ahead(q)
  BY Zenon DEF Ahead, Aims, OfQueue
<1>2. Behind(q)' <=> Behind(q)
  BY Zenon DEF Behind, OfQueue
<1>3. Ordered(q)' <=> Ordered(q)
  BY Zenon DEF Ordered
<1>4. Skipping(q.cursor, q.take)' <=> Skipping(q.cursor, q.take)
  BY Zenon DEF Skipping, Lost, Written, InWindow, write_index
<1>5. ToldByRing(q)' <=> ToldByRing(q)
  BY Zenon DEF ToldByRing, TakenLast
<1>6. ToldByQueue(q)' <=> ToldByQueue(q)
  BY Zenon DEF ToldByQueue, TakenLast
<1> QED BY <1>1, <1>2, <1>3, <1>4, <1>5, <1>6, Zenon

\* Takings holds after a step if its parts do for every subscription there is then.
LEMMA TakingsThen ==
  ASSUME \A t \in Subs : \A q : q = sub'[t] /\ q.alive =>
           Ahead(q)' /\ Behind(q)' /\ Ordered(q)' /\ Skipping(q.cursor, q.take)'
  PROVE  Takings'
  BY Zenon DEF Takings, Ahead, Aims, Behind, Ordered, Skipping, OfQueue, Lost, Written, InWindow,
     write_index

\* A step of one subscription keeps the invariant if the subscription it leads to
\* satisfies what the invariant says of one: rmw_take changes nothing else but
\* read_index.
LEMMA StepKeeps ==
  ASSUME SubInv, NEW s \in Subs, sub[s].alive, NEW r \in Records, sub' = [sub EXCEPT ![s] = r],
         r.alive,
         UNCHANGED Environment, read_index' \in 0..Len(ring),
         Ahead(r), Behind(r), Ordered(r), Skipping(r.cursor, r.take),
         arrived = 0 => ToldByRing(r) /\ (Alone(s) => Reread(r.cursor, r.take)'),
         ring = <<>> => ToldByQueue(r)
  PROVE  SubInv'
<1>1. SubsTyped' /\ sub'[s] = r /\ \A t \in Subs : t # s => sub'[t] = sub[t]
  BY SubPut, Zenon DEF SubInv
<1>2. UNCHANGED <<ring, epoch, messages, keep_all, next_seq, arrived, expired, refused>>
  BY Zenon DEF Environment
<1>3. RingTyped' /\ QueueTyped' /\ RestTyped' /\ Numbered'
  BY <1>2, Zenon DEF SubInv, RingTyped, QueueTyped, RestTyped, Numbered
<1>4. Takings'
  <2>1. ASSUME NEW t \in Subs, NEW q, q = sub'[t], q.alive
        PROVE  Ahead(q) /\ Behind(q) /\ Ordered(q) /\ Skipping(q.cursor, q.take)
    BY <1>1, <2>1, Zenon DEF SubInv, Takings
  <2> QED BY <1>2, <2>1, SameEnv, TakingsThen, Zenon
<1>5. Unborn'
  BY <1>1, Zenon DEF SubInv, Unborn
<1>6. FromRing'
  <2> SUFFICES ASSUME arrived = 0, NEW t \in Subs, NEW q, q = sub'[t], q.alive
               PROVE  ToldByRing(q)' /\ (Alone(t)' => Reread(q.cursor, q.take)')
    BY <1>2, Zenon
       DEF FromRing, ToldByRing, TakenLast, Reread, Lost, Written, InWindow, write_index
  <2>1. ToldByRing(q)
    BY <1>1, Zenon DEF SubInv, FromRing
  <2>2. CASE t = s
    <3>1. Alone(s)' => Alone(s)
      BY <1>1, Zenon DEF Alone
    <3> QED BY <1>1, <1>2, <2>1, <2>2, <3>1, SameEnv, Zenon
  <2>3. CASE t # s
    <3>1. ~ Alone(t)'
      BY <1>1, <2>3, Zenon DEF Alone
    <3> QED BY <1>2, <2>1, <3>1, SameEnv, Zenon
  <2> QED BY <2>2, <2>3, Zenon
<1>7. FromQueue'
  <2> SUFFICES ASSUME ring = <<>>
               PROVE  /\ next_seq \in {NoQueue, arrived}
                      /\ \A t \in Subs : \A q : q = sub'[t] /\ q.alive => ToldByQueue(q)'
    BY <1>2, Zenon DEF FromQueue, ToldByQueue, TakenLast, NoQueue
  <2>1. ASSUME NEW t \in Subs, NEW q, q = sub'[t], q.alive
        PROVE  ToldByQueue(q)
    BY <1>1, <2>1, Zenon DEF SubInv, FromQueue
  <2> QED BY <1>2, <2>1, SameEnv, Zenon DEF SubInv, FromQueue
<1> QED BY <1>1, <1>3, <1>4, <1>5, <1>6, <1>7, Zenon DEF SubInv

\* The same for a step that changes nothing but the take: no message is taken and the
\* cursor stays.
LEMMA WalkKeeps ==
  ASSUME SubInv, NEW s \in Subs, sub[s].alive, NEW u \in Takes, Set(s, u),
         UNCHANGED Environment, read_index' \in 0..Len(ring),
         Aims(sub[s].cursor, u), Skipping(sub[s].cursor, u),
         arrived = 0 /\ Alone(s) => \A c : c = sub[s].cursor => Reread(c, u)'
  PROVE  SubInv'
<1>1. sub[s] \in Records
  BY Zenon DEF SubInv, SubsTyped
<1>2. PICK r \in Records : Put(r, sub[s], u)
  BY <1>1, PutTake, Zenon
<1>3. /\ r \in Records /\ r.take = u
      /\ r.alive = sub[s].alive /\ r.cursor = sub[s].cursor /\ r.got = sub[s].got
      /\ r.local0 = sub[s].local0 /\ r.remote0 = sub[s].remote0 /\ r.epoch0 = sub[s].epoch0
  BY <1>2, Zenon DEF Put
<1>4. sub' = [sub EXCEPT ![s] = r]
  BY <1>2, Zenon DEF Set, Put
<1>5. Ahead(r) /\ Behind(r) /\ Ordered(r) /\ Skipping(r.cursor, r.take)
  <2>1. Ahead(sub[s]) /\ Behind(sub[s]) /\ Ordered(sub[s])
    BY Zenon DEF SubInv, Takings
  <2> QED BY <1>3, <2>1, Zenon DEF Ahead, Behind, Ordered
<1>6. arrived = 0 => ToldByRing(r) /\ (Alone(s) => Reread(r.cursor, r.take)')
  BY <1>3, Zenon DEF SubInv, FromRing, ToldByRing, TakenLast
<1>7. ring = <<>> => ToldByQueue(r)
  BY <1>3, Zenon DEF SubInv, FromQueue, ToldByQueue, TakenLast
<1> QED BY <1>3, <1>4, <1>5, <1>6, <1>7, StepKeeps, Zenon

\* A jump to a step outside the ring part of receive_next keeps the invariant.
LEMMA GotoKeeps ==
  ASSUME SubInv, NEW s \in Subs, sub[s].alive,
         NEW pc \in Pcs \ {"lifespan", "oldest", "ring", "overwritten", "unwritten"},
         Goto(s, pc), UNCHANGED <<Environment, read_index>>,
         pc = "fail" \/ sub[s].take.pc \notin {"lifespan", "fail"}
  PROVE  SubInv'
<1>1. sub[s].take \in Takes /\ sub[s] \in Records
  BY Zenon DEF SubInv, SubsTyped, Records
<1>2. PICK u : u = [sub[s].take EXCEPT !.pc = pc]
  BY Zenon
<1>3. /\ u \in Takes /\ u.pc = pc /\ u.widx = sub[s].take.widx
  BY <1>1, <1>2, PutPc, Zenon DEF IsTake
<1>4. Set(s, u)
  BY <1>2, Zenon DEF Goto, Set
<1>5. Aims(sub[s].cursor, u)
  BY <1>3, Zenon DEF SubInv, Takings, Ahead, Aims
<1>6. Skipping(sub[s].cursor, u)
  BY <1>3, Zenon DEF Skipping
<1>7. arrived = 0 /\ Alone(s) => \A c : c = sub[s].cursor => Reread(c, u)'
  <2>1. arrived = 0 /\ Alone(s) => Reread(sub[s].cursor, sub[s].take)
    BY Zenon DEF SubInv, FromRing
  <2>2. UNCHANGED <<ring, read_index>>
    BY Zenon DEF Environment
  <2> QED BY <1>3, <2>1, <2>2, Zenon DEF Reread, Lost, Written, InWindow, write_index
<1>8. read_index' \in 0..Len(ring) /\ UNCHANGED Environment
  BY Zenon DEF SubInv, RingTyped
<1> QED BY <1>3, <1>4, <1>5, <1>6, <1>7, <1>8, WalkKeeps, Zenon

\* The takes that rmw_take begins with: a first one, one with a larger buffer, one after
\* a filtered message.
LEMMA IdleTyped ==
  /\ Idle \in Takes /\ Idle.pc = "idle" /\ Idle.widx = 0
  /\ \A n \in Nat : LET u == [Idle EXCEPT !.pc = "peek", !.cap = n] IN u \in Takes /\ u.pc = "peek" /\ u.widx = 0
  /\ \A n \in Nat : LET u == [Idle EXCEPT !.pc = "filtered", !.cap = n] IN u \in Takes /\ u.pc = "filtered" /\ u.widx = 0
<1>1. FirstCap \in Nat /\ 0 \in 0..MaxRetries
  BY SubscriptionAssumption DEF MaxRetries
<1>2. Idle \in Takes /\ Idle.pc = "idle" /\ Idle.widx = 0
  BY <1>1, Zenon DEF Idle, Takes, Pcs
<1>3. ASSUME NEW n \in Nat, NEW pc \in {"peek", "filtered"}
      PROVE  LET u == [Idle EXCEPT !.pc = pc, !.cap = n] IN u \in Takes /\ u.pc = pc /\ u.widx = 0
  BY <1>2, Zenon DEF Takes, Pcs
<1> QED BY <1>2, <1>3, Zenon

\* Moving the cursor of a subscription gives a subscription.
LEMMA MovedRecord ==
  ASSUME SubsTyped, NEW s \in Subs, NEW u \in Takes, NEW q \in Nat, Moves(s, q, u)
  PROVE  \E r \in Records : MovedTo(s, r, q, u)
<1> DEFINE r == [sub[s] EXCEPT !.cursor = q, !.take = u]
<1>1. sub[s] \in Records
  BY Zenon DEF SubsTyped
<1>2. /\ r \in Records /\ r.take = u /\ r.cursor = q
      /\ r.alive = sub[s].alive /\ r.got = sub[s].got
      /\ r.local0 = sub[s].local0 /\ r.remote0 = sub[s].remote0 /\ r.epoch0 = sub[s].epoch0
  BY <1>1, Zenon DEF Records
<1>3. sub' = [sub EXCEPT ![s] = r]
  BY Zenon DEF Moves
<1>4. MovedTo(s, r, q, u)
  BY <1>2, <1>3, Zenon DEF MovedTo
<1> QED BY <1>2, <1>4, Zenon

\* A cursor that moves forward stays ahead of what was taken.
LEMMA BehindStill ==
  ASSUME NEW r0 \in Records, NEW r \in Records, r.got = r0.got, r.local0 = r0.local0,
         r0.cursor <= r.cursor,
         Behind(r0), Ordered(r0)
  PROVE  Behind(r) /\ Ordered(r)
<1>1. r0.cursor \in Nat /\ r.cursor \in Nat /\ r0.local0 \in Nat
  BY Zenon DEF Records
<1>2. \A x : (x \in r0.local0..(r0.cursor - 1) => x \in r0.local0..(r.cursor - 1))
             /\ (x \in 0..(r0.cursor - 1) => x \in 0..(r.cursor - 1))
  BY <1>1
<1>3. Behind(r)
  BY <1>2, Zenon DEF Behind
<1>4. Ordered(r)
  BY Zenon DEF Ordered
<1> QED BY <1>3, <1>4, Zenon

\* take_next that returned -2 keeps the invariant if it moves the cursor forward to a
\* message that is there.
LEMMA MoveKeeps ==
  ASSUME SubInv, NEW s \in Subs, sub[s].alive, NEW size \in Nat, NEW q \in Nat,
         TooSmall(s, size, q),
         UNCHANGED <<Environment, read_index>>, MayMove(sub[s].cursor, q)
  PROVE  SubInv'
<1>1. sub[s] \in Records /\ sub[s].cursor \in Nat /\ sub[s].local0 \in Nat /\ SubsTyped
  BY Zenon DEF SubInv, SubsTyped, Records
<1>2. PICK u \in Takes :
        /\ u.pc \in {"idle", "peek"} /\ u.widx = 0
        /\ Moves(s, q, u)
  <2>1. CASE size > sub[s].take.cap
    BY <2>1, IdleTyped, Zenon DEF TooSmall, Moves
  <2>2. CASE ~ (size > sub[s].take.cap)
    BY <2>2, IdleTyped, Zenon DEF TooSmall, Moves
  <2> QED BY <2>1, <2>2, Zenon
<1>b. PICK r \in Records : MovedTo(s, r, q, u)
  BY <1>1, <1>2, MovedRecord, Zenon
<1>3. /\ sub' = [sub EXCEPT ![s] = r]
         /\ r.take = u /\ r.cursor = q /\ r.alive = sub[s].alive /\ r.got = sub[s].got
         /\ r.local0 = sub[s].local0 /\ r.remote0 = sub[s].remote0 /\ r.epoch0 = sub[s].epoch0
  BY <1>b, Zenon DEF MovedTo
<1>4. sub' = [sub EXCEPT ![s] = r] /\ r.alive /\ r.take = u /\ r.cursor = q
  BY <1>2, <1>3, Zenon
<1>5. Ahead(r)
  <2>1. Aims(q, u)
    BY <1>2 DEF Aims, SubInv, RingTyped
  <2>2. sub[s].local0 <= q
    BY <1>1 DEF SubInv, Takings, Ahead, MayMove
  <2> QED BY <1>3, <2>1, <2>2, Zenon DEF SubInv, Takings, Ahead
<1>6. Behind(r) /\ Ordered(r)
  BY <1>1, <1>3, BehindStill, Zenon DEF SubInv, Takings, MayMove
<1>7. Skipping(q, u)
  BY <1>2, Zenon DEF Skipping
<1>8. arrived = 0 => ToldByRing(r) /\ Reread(r.cursor, r.take)'
  <2>1. Lost(q)' <=> Lost(q)
    BY Zenon DEF Lost, Environment
  <2> QED BY <1>3, <2>1, Zenon DEF ToldByRing, Reread, MayMove
<1>9. ring = <<>> => ToldByQueue(r)
  BY <1>3, Zenon DEF ToldByQueue, MayMove
<1>10. read_index' \in 0..Len(ring) /\ UNCHANGED Environment
  BY Zenon DEF SubInv, RingTyped
<1> QED BY <1>4, <1>5, <1>6, <1>7, <1>8, <1>9, <1>10, StepKeeps, Zenon

\* What read_at and peek_prefix resolve a cursor to is a message of the queue, with its
\* number, and not before the cursor.
LEMMA Resolved ==
  ASSUME QueueTyped, Numbered, NEW c \in Nat, NEW f \in Resolve(c)
  PROVE  /\ messages # <<>> /\ f.seq \in Nat /\ c <= f.seq /\ f.seq <= messages[Len(messages)].seq
         /\ f.msg \in Queued /\ OfQueue(f.msg.id, f.seq) /\ arrived # 0
<1>1. messages # <<>> /\ ~ (c > Newest)
  BY Zenon DEF Resolve
<1>2. /\ Len(messages) \in Nat \ {0} /\ DOMAIN messages = 1..Len(messages)
      /\ Oldest = messages[1].seq /\ messages[1] \in Queued
  BY <1>1 DEF QueueTyped, Oldest
<1>3. /\ 1 \in DOMAIN messages /\ Len(messages) \in DOMAIN messages
      /\ Oldest \in Nat /\ Newest = Oldest + (Len(messages) - 1) /\ Newest \in Nat
  BY <1>2 DEF Numbered, Newest, Queued
<1>4. PICK a : /\ a = (IF c < Oldest THEN Newest ELSE c)
               /\ a - Oldest < Len(messages)
               /\ f = [seq |-> a, msg |-> messages[(a - Oldest) + 1]]
  BY <1>1, Zenon DEF Resolve
<1>5. a \in Nat /\ c <= a /\ a <= Newest /\ Oldest <= a
  <2>1. a = IF c < Oldest THEN Newest ELSE c
    BY <1>4, Zenon
  <2>2. Oldest <= Newest
    BY <1>2, <1>3
  <2>3. \A low, high \in Nat :
          low <= high /\ ~ (c > high) =>
            /\ c <= high
            /\ ~ (c < low) => low <= c
    OBVIOUS
  <2>4. Newest <= Newest /\ c <= c
    BY <1>3
  <2> QED BY <1>1, <1>3, <2>1, <2>2, <2>3, <2>4, Zenon
<1>6. PICK i \in DOMAIN messages : i = (a - Oldest) + 1
  BY <1>2, <1>3, <1>5
<1>7. messages[i] \in Queued /\ messages[i].seq = a
  <2>1. messages[i] \in Queued
    BY <1>2 DEF QueueTyped
  <2>2. messages[i].seq = Oldest + (i - 1)
    BY <1>2, Zenon DEF Numbered
  <2> QED BY <1>2, <1>3, <1>5, <1>6, <2>1, <2>2
<1>8. messages[i].id - arrived = messages[i].seq - next_seq /\ messages[i].seq < next_seq
  BY Zenon DEF Numbered
<1>9. next_seq # NoQueue /\ arrived # 0 /\ messages[i].id < arrived
  BY <1>7, <1>8 DEF QueueTyped, NoQueue, Queued
<1>10. f.seq = a /\ f.msg = messages[i]
  BY <1>4, <1>6
<1> QED BY <1>1, <1>3, <1>5, <1>7, <1>8, <1>9, <1>10, Zenon DEF OfQueue, Newest

\* What the invariant says of one subscription, with the types of its fields.
LEMMA SubKnown ==
  ASSUME SubInv, NEW s \in Subs
  PROVE  /\ sub[s] \in Records /\ sub[s].take \in Takes /\ sub[s].cursor \in Nat
         /\ sub[s].local0 \in Nat
         /\ sub[s].take.cap \in Nat /\ sub[s].take.widx \in Nat /\ sub[s].take.actual \in Nat
         /\ sub[s].take.retries \in 0..MaxRetries /\ sub[s].take.had \in BOOLEAN
         /\ sub[s].take.found \in Messages \cup {NoMessage} /\ sub[s].got \in Seq(Messages)
         /\ SubsTyped /\ RingTyped /\ QueueTyped /\ Numbered
         /\ sub[s].alive => /\ Aims(sub[s].cursor, sub[s].take) /\ Skipping(sub[s].cursor, sub[s].take)
                            /\ Ahead(sub[s]) /\ Behind(sub[s]) /\ Ordered(sub[s])
         /\ sub[s].alive /\ arrived = 0 => ToldByRing(sub[s])
         /\ sub[s].alive /\ arrived = 0 /\ Alone(s) => Reread(sub[s].cursor, sub[s].take)
<1>1. sub[s] \in Records /\ SubsTyped
  BY Zenon DEF SubInv, SubsTyped
<1>2. sub[s].take \in Takes
  BY <1>1, Zenon DEF Records
<1>3. sub[s].cursor \in Nat /\ sub[s].local0 \in Nat /\ sub[s].got \in Seq(Messages)
  BY <1>1, Zenon DEF Records
<1>4. /\ sub[s].take.cap \in Nat /\ sub[s].take.widx \in Nat /\ sub[s].take.actual \in Nat
      /\ sub[s].take.retries \in 0..MaxRetries /\ sub[s].take.had \in BOOLEAN
      /\ sub[s].take.found \in Messages \cup {NoMessage}
  BY <1>2, Zenon DEF Takes
<1> QED BY <1>1, <1>2, <1>3, <1>4, Zenon DEF SubInv, Takings, Ahead, FromRing

\* rmw_take that returns without a message keeps the invariant, if the newest message
\* could not have been read by a cursor that was overtaken.
LEMMA SetIdleKeeps ==
  ASSUME SubInv, NEW s \in Subs, sub[s].alive, Set(s, Idle),
         UNCHANGED <<Environment, read_index>>,
         \/ sub[s].take.pc = "filtered"
         \/ arrived = 0 => (Lost(sub[s].cursor) => ~ Written(Len(ring) - 1))
  PROVE  SubInv'
<1>1. Idle \in Takes /\ Idle.pc = "idle" /\ Idle.widx = 0
  BY IdleTyped, Zenon
<1>2. PICK u \in Takes : u = Idle /\ u.pc = "idle" /\ u.widx = 0 /\ Set(s, u)
  BY <1>1, Zenon
<1>3. Aims(sub[s].cursor, u)
  BY <1>2 DEF Aims, SubInv, RingTyped
<1>4. Skipping(sub[s].cursor, u)
  BY <1>2, Zenon DEF Skipping
<1>5. arrived = 0 /\ Alone(s) => \A c : c = sub[s].cursor => Reread(c, u)'
  <2>1. arrived = 0 /\ Alone(s) => Reread(sub[s].cursor, sub[s].take)
    BY SubKnown, Zenon
  <2>2. UNCHANGED <<ring, read_index>>
    BY Zenon DEF Environment
  <2>3. sub[s].take.pc = "filtered" => sub[s].take.pc \notin {"lifespan", "fail"}
    BY Zenon
  <2>4. arrived = 0 /\ Alone(s) /\ Lost(sub[s].cursor) => read_index < Len(ring)
    BY <2>1, <2>3, Zenon DEF Reread
  <2> QED BY <2>2, <2>4, Zenon DEF Reread, Lost
<1>6. read_index' \in 0..Len(ring) /\ UNCHANGED Environment
  BY Zenon DEF SubInv, RingTyped
<1> QED BY <1>2, <1>3, <1>4, <1>5, <1>6, WalkKeeps, Zenon

\* axon_session_data_available keeps the invariant.
LEMMA CheckAvailableKeeps ==
  ASSUME SubInv, NEW s \in Subs, CheckAvailable(s)
  PROVE  SubInv'
<1>1. /\ sub[s].alive /\ sub[s].take.pc \in {"idle", "filtered"}
      /\ UNCHANGED <<Environment, read_index>>
      /\ Goto(s, "peek") \/ (sub[s].take.pc = "filtered" /\ Set(s, Idle))
  BY Zenon DEF CheckAvailable, At
<1>2. "peek" \in Pcs \ {"lifespan", "oldest", "ring", "overwritten", "unwritten"}
  BY DEF Pcs
<1>3. sub[s].take.pc \notin {"lifespan", "fail"}
  BY <1>1, Zenon
<1>4. CASE Goto(s, "peek")
  BY <1>1, <1>2, <1>3, <1>4, GotoKeeps, Zenon
<1>5. CASE sub[s].take.pc = "filtered" /\ Set(s, Idle)
  BY <1>1, <1>5, SetIdleKeeps, Zenon
<1> QED BY <1>1, <1>4, <1>5, Zenon

\* The cursor may move to the message that peek_prefix resolves it to.
LEMMA MayMoveResolved ==
  ASSUME SubInv, NEW s \in Subs, NEW f \in Resolve(sub[s].cursor)
  PROVE  f.seq \in Nat /\ f.msg \in Queued /\ f.msg.size \in Nat /\ MayMove(sub[s].cursor, f.seq)
<1>1. sub[s].cursor \in Nat /\ QueueTyped /\ Numbered
  BY SubKnown, Zenon
<1>2. /\ messages # <<>> /\ f.seq \in Nat /\ sub[s].cursor <= f.seq
      /\ f.seq <= messages[Len(messages)].seq
      /\ f.msg \in Queued /\ arrived # 0
  BY <1>1, Resolved, Zenon
<1>3. f.msg.size \in Nat
  BY <1>2, SubscriptionAssumption, Zenon DEF Queued
<1> QED BY <1>2, <1>3, Zenon DEF MayMove

\* peek_prefix, and the resizing of the buffer, keep the invariant.
LEMMA PeekQueueKeeps ==
  ASSUME SubInv, NEW s \in Subs, PeekQueue(s)
  PROVE  SubInv'
<1>1. /\ sub[s].alive /\ sub[s].take.pc = "peek" /\ UNCHANGED <<Environment, read_index>>
      /\ \/ Goto(s, "read")
         \/ \E f \in Resolve(sub[s].cursor) : TooSmall(s, f.msg.size, f.seq)
  BY Zenon DEF PeekQueue, At
<1>2. "read" \in Pcs \ {"lifespan", "oldest", "ring", "overwritten", "unwritten"}
  BY DEF Pcs
<1>3. sub[s].take.pc \notin {"lifespan", "fail"}
  BY <1>1, Zenon
<1>4. CASE Goto(s, "read")
  BY <1>1, <1>2, <1>3, <1>4, GotoKeeps, Zenon
<1>5. ASSUME NEW f \in Resolve(sub[s].cursor), TooSmall(s, f.msg.size, f.seq)
      PROVE  SubInv'
  BY <1>1, <1>5, MayMoveResolved, MoveKeeps, Zenon
<1> QED BY <1>1, <1>4, <1>5, Zenon

\* read_at keeps the invariant: what it finds is the message of the number it reports.
LEMMA ReadQueueKeeps ==
  ASSUME SubInv, NEW s \in Subs, ReadQueue(s)
  PROVE  SubInv'
<1> DEFINE Read(f, n) == [sub[s].take EXCEPT !.pc = "lifespan", !.actual = f.seq,
                            !.found = [src |-> "queue", id |-> f.msg.id, size |-> f.msg.size, len |-> n]]
<1>0. sub[s].take.cap \in Nat /\ sub[s].take \in Takes
  BY SubKnown, Zenon
<1>1. /\ sub[s].alive /\ sub[s].take.pc = "read" /\ UNCHANGED <<Environment, read_index>>
      /\ \/ Goto(s, "load")
         \/ \E f \in Resolve(sub[s].cursor) : TooSmall(s, StoredSize(f.msg), f.seq)
         \/ \E f \in Resolve(sub[s].cursor) : \E n \in {sub[s].take.cap, f.msg.size} : Set(s, Read(f, n))
  BY Zenon DEF ReadQueue, At
<1>2. "load" \in Pcs \ {"lifespan", "oldest", "ring", "overwritten", "unwritten"}
  BY DEF Pcs
<1>3. sub[s].take.pc \notin {"lifespan", "fail"}
  BY <1>1, Zenon
<1>4. CASE Goto(s, "load")
  BY <1>1, <1>2, <1>3, <1>4, GotoKeeps, Zenon
<1>5. ASSUME NEW f \in Resolve(sub[s].cursor), TooSmall(s, StoredSize(f.msg), f.seq)
      PROVE  SubInv'
  <2>1. StoredSize(f.msg) \in Nat
    BY MayMoveResolved DEF StoredSize
  <2> QED BY <1>1, <1>5, <2>1, MayMoveResolved, MoveKeeps, Zenon
<1>6. ASSUME NEW f \in Resolve(sub[s].cursor), NEW n \in {sub[s].take.cap, f.msg.size},
             Set(s, Read(f, n))
      PROVE  SubInv'
  <2>1. f.seq \in Nat /\ f.msg \in Queued /\ n \in Nat /\ sub[s].cursor <= f.seq
    BY <1>0, MayMoveResolved, Zenon DEF MayMove
  <2>2. PICK m : m = [src |-> "queue", id |-> f.msg.id, size |-> f.msg.size, len |-> n]
    BY Zenon
  <2>3. m \in Messages /\ m.src = "queue" /\ m.id = f.msg.id
    BY <2>1, <2>2, Zenon DEF Messages, Queued
  <2>a. IsTake([sub[s].take EXCEPT !.pc = "lifespan", !.actual = f.seq, !.found = m],
               "lifespan", sub[s].take.widx, sub[s].take.had, f.seq, sub[s].take.retries, m)
    BY <1>0, <2>1, <2>3, PutFound, Zenon
  <2>4. PICK u : u = [sub[s].take EXCEPT !.pc = "lifespan", !.actual = f.seq, !.found = m]
    BY Zenon
  <2>5. /\ u \in Takes /\ u.pc = "lifespan" /\ u.actual = f.seq /\ u.found = m
        /\ u.widx = sub[s].take.widx
    BY <2>a, <2>4, Zenon DEF IsTake
  <2>6. Set(s, u)
    BY <1>6, <2>2, <2>4, Zenon
  <2>7. OfQueue(f.msg.id, f.seq) /\ arrived # 0
    BY SubKnown, Resolved, Zenon
  <2>8. Aims(sub[s].cursor, u)
    BY <1>1, <2>1, <2>3, <2>5, <2>7, SubKnown, Zenon DEF Aims
  <2>9. Skipping(sub[s].cursor, u)
    BY <2>3, <2>5, Zenon DEF Skipping
  <2>10. read_index' \in 0..Len(ring) /\ UNCHANGED Environment
    BY <1>1, Zenon DEF SubInv, RingTyped
  <2> QED BY <1>1, <2>5, <2>6, <2>7, <2>8, <2>9, <2>10, WalkKeeps, Zenon
<1> QED BY <1>1, <1>4, <1>5, <1>6, Zenon

\* Loading current_seq keeps the invariant.
LEMMA LoadWriteIndexKeeps ==
  ASSUME SubInv, NEW s \in Subs, LoadWriteIndex(s)
  PROVE  SubInv'
<1>1. /\ sub[s].alive /\ sub[s].take.pc = "load" /\ UNCHANGED <<Environment, read_index>>
      /\ Set(s, [sub[s].take EXCEPT !.pc = "oldest", !.widx = Len(ring), !.had = Written(sub[s].cursor)])
  BY Zenon DEF LoadWriteIndex, At, write_index
<1>2. Len(ring) \in Nat /\ sub[s].take \in Takes /\ Written(sub[s].cursor) \in BOOLEAN
  <2>1. Len(ring) \in Nat
    BY DEF SubInv, RingTyped
  <2> QED BY <2>1, SubKnown, Zenon DEF Written, InWindow
<1>a. IsTake([sub[s].take EXCEPT !.pc = "oldest", !.widx = Len(ring), !.had = Written(sub[s].cursor)],
             "oldest", Len(ring), Written(sub[s].cursor), sub[s].take.actual, sub[s].take.retries, sub[s].take.found)
  BY <1>2, PutLoad, Zenon
<1>3. PICK u : u = [sub[s].take EXCEPT !.pc = "oldest", !.widx = Len(ring), !.had = Written(sub[s].cursor)]
  BY Zenon
<1>4. u \in Takes /\ u.pc = "oldest" /\ u.widx = Len(ring) /\ u.had = Written(sub[s].cursor)
  BY <1>a, <1>3, Zenon DEF IsTake
<1>5. Set(s, u)
  BY <1>1, <1>3, Zenon
<1>6. Aims(sub[s].cursor, u)
  BY <1>2, <1>4 DEF Aims
<1>7. Skipping(sub[s].cursor, u)
  BY <1>4, Zenon DEF Skipping
<1>8. read_index' \in 0..Len(ring) /\ UNCHANGED Environment
  BY <1>1, Zenon DEF SubInv, RingTyped
<1>9. arrived = 0 /\ Alone(s) => \A c : c = sub[s].cursor => Reread(c, u)'
  <2>1. arrived = 0 /\ Alone(s) /\ Lost(sub[s].cursor) => read_index < Len(ring)
    BY <1>1, SubKnown, Zenon DEF Reread
  <2> QED BY <1>1, <2>1, Zenon DEF Reread, Lost, Environment
<1> QED BY <1>1, <1>4, <1>5, <1>6, <1>7, <1>8, <1>9, WalkKeeps, Zenon

\* A step that is not the end of a read keeps what is known of read_index.
LEMMA RereadStill ==
  ASSUME SubInv, NEW s \in Subs, sub[s].alive, sub[s].take.pc \notin {"lifespan", "fail"},
         UNCHANGED <<ring, read_index>>, NEW u
  PROVE  arrived = 0 /\ Alone(s) => \A c : c = sub[s].cursor => Reread(c, u)'
<1>1. arrived = 0 /\ Alone(s) /\ Lost(sub[s].cursor) => read_index < Len(ring)
  BY SubKnown, Zenon DEF Reread
<1> QED BY <1>1, Zenon DEF Reread, Lost

\* Loading oldest_available_seq keeps the invariant: a cursor whose message is written is
\* not behind it.
LEMMA LoadOldestKeeps ==
  ASSUME SubInv, NEW s \in Subs, LoadOldest(s)
  PROVE  SubInv'
<1> DEFINE c == sub[s].cursor
<1> DEFINE t == sub[s].take
<1> DEFINE a == IF c >= oldest_available_seq THEN c ELSE t.widx - 1
<1>1. /\ sub[s].alive /\ t.pc = "oldest" /\ UNCHANGED <<Environment, read_index>>
      /\ \/ Goto(s, "fail")
         \/ c < t.widx /\ Set(s, [t EXCEPT !.pc = "ring", !.actual = a])
  BY Zenon DEF LoadOldest, At
<1>2. "fail" \in Pcs \ {"lifespan", "oldest", "ring", "overwritten", "unwritten"}
  BY DEF Pcs
<1>3. CASE Goto(s, "fail")
  BY <1>1, <1>2, <1>3, GotoKeeps, Zenon
<1>4. CASE c < t.widx /\ Set(s, [t EXCEPT !.pc = "ring", !.actual = a])
  <2>1. c \in Nat /\ t \in Takes /\ t.widx \in Nat /\ Aims(c, t) /\ Skipping(c, t)
    BY <1>1, SubKnown, Zenon
  <2>2. a \in Nat /\ c <= a
    BY <1>4, <2>1
  <2>3. Len(ring) \in Nat /\ RingDepth \in Nat
    BY SubscriptionAssumption DEF SubInv, RingTyped
  <2>4. Written(c) => a = c
    BY <2>1, <2>3 DEF Written, InWindow, write_index, oldest_available_seq, max
  <2>5. PICK b \in Nat : b = a /\ c <= b /\ (Written(c) => b = c)
    BY <2>2, <2>4, Zenon
  <2>6. IsTake([t EXCEPT !.pc = "ring", !.actual = b], "ring", t.widx, t.had, b, t.retries, t.found)
    BY <2>1, PutActual, Zenon
  <2>7. PICK u : u = [t EXCEPT !.pc = "ring", !.actual = b]
    BY Zenon
  <2>8. u \in Takes /\ u.pc = "ring" /\ u.widx = t.widx /\ u.had = t.had /\ u.actual = b
    BY <2>6, <2>7, Zenon DEF IsTake
  <2>9. Set(s, u)
    BY <1>4, <2>5, <2>7, Zenon
  <2>10. Aims(c, u)
    BY <2>1, <2>5, <2>8, Zenon DEF Aims
  <2>11. Skipping(c, u)
    BY <1>1, <2>1, <2>5, <2>8, Zenon DEF Skipping
  <2>12. read_index' \in 0..Len(ring) /\ UNCHANGED Environment /\ UNCHANGED <<ring, read_index>>
    BY <1>1, Zenon DEF SubInv, RingTyped, Environment
  <2>13. t.pc \notin {"lifespan", "fail"}
    BY <1>1, Zenon
  <2>14. arrived = 0 /\ Alone(s) => \A d : d = sub[s].cursor => Reread(d, u)'
    BY <1>1, <2>12, <2>13, RereadStill, Zenon
  <2> QED BY <1>1, <2>8, <2>9, <2>10, <2>11, <2>12, <2>14, WalkKeeps, Zenon
<1> QED BY <1>1, <1>3, <1>4, Zenon

\* A retry of RingBuffer::read keeps the invariant: the number it tries only grows.
LEMMA RetryKeeps ==
  ASSUME SubInv, NEW s \in Subs, Retry(s)
  PROVE  SubInv'
<1> DEFINE c == sub[s].cursor
<1> DEFINE t == sub[s].take
<1> DEFINE n == max(t.actual, Len(ring) - 1)
<1>1. /\ sub[s].alive /\ t.pc \in {"overwritten", "unwritten"}
      /\ UNCHANGED <<Environment, read_index>>
      /\ \/ Set(s, [t EXCEPT !.pc = "fail"])
         \/ Set(s, [t EXCEPT !.pc = "ring", !.actual = n, !.retries = t.retries + 1])
  BY Zenon DEF Retry, At, write_index
<1>2. "fail" \in Pcs \ {"lifespan", "oldest", "ring", "overwritten", "unwritten"}
  BY DEF Pcs
<1>3. CASE Set(s, [t EXCEPT !.pc = "fail"])
  <2>1. Goto(s, "fail")
    BY <1>3, Zenon DEF Set, Goto
  <2> QED BY <1>1, <1>2, <2>1, GotoKeeps, Zenon
<1>4. CASE Set(s, [t EXCEPT !.pc = "ring", !.actual = n, !.retries = t.retries + 1])
  <2>1. /\ c \in Nat /\ t \in Takes /\ t.actual \in Nat /\ t.retries \in 0..MaxRetries
        /\ Aims(c, t) /\ Skipping(c, t)
    BY <1>1, SubKnown, Zenon
  <2>2. c <= t.actual /\ t.retries < MaxRetries
    BY <1>1, <2>1, Zenon DEF Aims
  <2>3. Len(ring) \in Nat
    BY DEF SubInv, RingTyped
  <2>4. n \in Nat /\ c <= n /\ t.retries + 1 \in 0..MaxRetries
    BY <2>1, <2>2, <2>3 DEF max, MaxRetries
  <2>5. PICK b \in Nat, k \in 0..MaxRetries : b = n /\ c <= b /\ k = t.retries + 1
    BY <2>4, Zenon
  <2>6. IsTake([t EXCEPT !.pc = "ring", !.actual = b, !.retries = k], "ring", t.widx, t.had, b, k, t.found)
    BY <2>1, PutRetry, Zenon
  <2>7. PICK u : u = [t EXCEPT !.pc = "ring", !.actual = b, !.retries = k]
    BY Zenon
  <2>8. u \in Takes /\ u.pc = "ring" /\ u.widx = t.widx /\ u.had = t.had /\ u.actual = b
    BY <2>6, <2>7, Zenon DEF IsTake
  <2>9. Set(s, u)
    BY <1>4, <2>5, <2>7, Zenon
  <2>10. Aims(c, u)
    BY <2>1, <2>5, <2>8, Zenon DEF Aims
  <2>11. Skipping(c, u)
    BY <1>1, <2>1, <2>8, Zenon DEF Skipping
  <2>12. read_index' \in 0..Len(ring) /\ UNCHANGED Environment /\ UNCHANGED <<ring, read_index>>
    BY <1>1, Zenon DEF SubInv, RingTyped, Environment
  <2>13. t.pc \notin {"lifespan", "fail"}
    BY <1>1, Zenon
  <2>14. arrived = 0 /\ Alone(s) => \A d : d = sub[s].cursor => Reread(d, u)'
    BY <1>1, <2>12, <2>13, RereadStill, Zenon
  <2> QED BY <1>1, <2>8, <2>9, <2>10, <2>11, <2>12, <2>14, WalkKeeps, Zenon
<1> QED BY <1>1, <1>3, <1>4, Zenon

\* slot_data_size and read_slot find a message if it is written, and only then.
LEMMA LookupMeans ==
  ASSUME RingTyped, NEW q \in Nat
  PROVE  /\ "ok" \in Lookup(q) => Written(q) /\ q < Len(ring) /\ ring[q + 1] \in Slots
         /\ Written(q) => "overwritten" \notin Lookup(q) /\ "not yet written" \notin Lookup(q)
<1>1. Len(ring) \in Nat /\ RingDepth \in Nat
  BY SubscriptionAssumption DEF RingTyped
<1>2. q < Len(ring) => ring[q + 1] \in Slots
  BY <1>1 DEF RingTyped
<1> DEFINE Beyond == q >= write_index
<1> DEFINE Gone == write_index - q > RingDepth
<1>3. /\ ~ (Beyond /\ Gone) /\ (InWindow(q) <=> ~ Beyond /\ ~ Gone)
      /\ ~ Beyond => q < Len(ring)
  BY <1>1 DEF write_index, InWindow
<1>4. Lookup(q) = CASE Beyond -> {"no data"} [] Gone -> {"overwritten", "not yet written"}
                    [] InWindow(q) /\ ~ Written(q) -> {"not yet written"} [] OTHER -> {"ok"}
  BY Zenon DEF Lookup
<1>5. Written(q) => InWindow(q)
  BY Zenon DEF Written
<1> HIDE DEF Beyond, Gone
<1>6. CASE Beyond
  <2>1. Lookup(q) = {"no data"}
    BY <1>3, <1>4, <1>6, Zenon
  <2>2. "ok" \notin Lookup(q)
    BY <2>1
  <2> QED BY <1>3, <1>5, <1>6, <2>2, Zenon
<1>7. CASE Gone
  <2>1. Lookup(q) = {"overwritten", "not yet written"}
    BY <1>3, <1>4, <1>7, Zenon
  <2>2. "ok" \notin Lookup(q)
    BY <2>1
  <2> QED BY <1>3, <1>5, <1>7, <2>2, Zenon
<1>8. CASE InWindow(q) /\ ~ Written(q)
  <2>1. Lookup(q) = {"not yet written"}
    BY <1>3, <1>4, <1>8, Zenon
  <2>2. "ok" \notin Lookup(q)
    BY <2>1
  <2> QED BY <1>8, <2>2, Zenon
<1>9. CASE Written(q)
  <2>1. Lookup(q) = {"ok"}
    BY <1>3, <1>4, <1>5, <1>9, Zenon
  <2>2. "overwritten" \notin Lookup(q) /\ "not yet written" \notin Lookup(q)
    BY <2>1
  <2> QED BY <1>2, <1>3, <1>5, <1>9, <2>2, Zenon
<1> QED BY <1>3, <1>6, <1>7, <1>8, <1>9, Zenon

\* A read that finds its slot overwritten or unwritten keeps the invariant: if the
\* message at the cursor was there when the take began, the ring has overtaken it.
LEMMA RefusedKeeps ==
  ASSUME SubInv, NEW s \in Subs, sub[s].alive, sub[s].take.pc = "ring",
         ~ Written(sub[s].take.actual),
         sub[s].take.retries < MaxRetries,
         NEW pc \in {"overwritten", "unwritten"}, Goto(s, pc), UNCHANGED <<Environment, read_index>>
  PROVE  SubInv'
<1> DEFINE c == sub[s].cursor
<1> DEFINE t == sub[s].take
<1>1. t \in Takes /\ Aims(c, t) /\ Skipping(c, t)
  BY SubKnown, Zenon
<1>2. pc \in Pcs /\ pc \in {"overwritten", "unwritten"}
  BY Zenon DEF Pcs
<1>3. PICK u : u = [t EXCEPT !.pc = pc]
  BY Zenon
<1>4. IsTake([t EXCEPT !.pc = pc], pc, t.widx, t.had, t.actual, t.retries, t.found)
  BY <1>1, <1>2, PutPc, Zenon
<1>5. /\ u \in Takes /\ u.pc = pc /\ u.widx = t.widx /\ u.had = t.had /\ u.actual = t.actual
      /\ u.retries = t.retries
  BY <1>3, <1>4, Zenon DEF IsTake
<1>6. Set(s, u)
  BY <1>3, Zenon DEF Goto, Set
<1>7. Aims(c, u)
  BY <1>1, <1>2, <1>5, Zenon DEF Aims
<1>8. Skipping(c, u)
  BY <1>1, <1>2, <1>5, Zenon DEF Skipping
<1>9. read_index' \in 0..Len(ring) /\ UNCHANGED Environment /\ UNCHANGED <<ring, read_index>>
  BY Zenon DEF SubInv, RingTyped, Environment
<1>10. arrived = 0 /\ Alone(s) => \A d : d = sub[s].cursor => Reread(d, u)'
  BY <1>9, RereadStill, Zenon
<1> QED BY <1>5, <1>6, <1>7, <1>8, <1>9, <1>10, WalkKeeps, Zenon

\* A read that succeeds keeps the invariant: read_index becomes the end of the ring only
\* if the newest message was read.
LEMMA ReadOkKeeps ==
  ASSUME SubInv, NEW s \in Subs, sub[s].alive, sub[s].take.pc = "ring", NEW m \in Messages,
         m.src = "ring", m.id = sub[s].take.actual, "ok" \in Lookup(sub[s].take.actual),
         read_index' = (IF sub[s].take.actual >= read_index THEN sub[s].take.actual + 1 ELSE read_index),
         Set(s, [sub[s].take EXCEPT !.pc = "lifespan", !.found = m]), UNCHANGED Environment
  PROVE  SubInv'
<1> DEFINE c == sub[s].cursor
<1> DEFINE t == sub[s].take
<1>1. t \in Takes /\ c \in Nat /\ t.actual \in Nat /\ Aims(c, t) /\ Skipping(c, t) /\ RingTyped
  BY SubKnown, Zenon
<1>2. Written(t.actual) /\ t.actual < Len(ring)
  BY <1>1, LookupMeans, Zenon
<1>3. PICK u : u = [t EXCEPT !.pc = "lifespan", !.found = m]
  BY Zenon
<1>4. IsTake([t EXCEPT !.pc = "lifespan", !.found = m], "lifespan", t.widx, t.had, t.actual, t.retries, m)
  BY <1>1, PutRead, Zenon
<1>5. /\ u \in Takes /\ u.pc = "lifespan" /\ u.widx = t.widx /\ u.had = t.had
      /\ u.actual = t.actual /\ u.found = m
  BY <1>3, <1>4, Zenon DEF IsTake
<1>6. Set(s, u)
  BY <1>3, Zenon
<1>7. Aims(c, u)
  BY <1>1, <1>2, <1>5, Zenon DEF Aims
<1>8. Skipping(c, u)
  BY <1>1, <1>5, Zenon DEF Skipping
<1>9. /\ Len(ring) \in Nat /\ read_index \in 0..Len(ring) /\ read_index' \in 0..Len(ring)
      /\ read_index < Len(ring) => read_index' < Len(ring) \/ t.actual = Len(ring) - 1
  BY <1>1, <1>2 DEF RingTyped
<1>10. arrived = 0 /\ Alone(s) => \A d : d = sub[s].cursor => Reread(d, u)'
  <2>1. arrived = 0 /\ Alone(s) /\ Lost(c) => read_index < Len(ring)
    BY SubKnown, Zenon DEF Reread
  <2>2. UNCHANGED ring
    BY Zenon DEF Environment
  <2>4. arrived = 0 /\ Alone(s) /\ Lost(c) => read_index' < Len(ring) \/ (t.actual = Len(ring) - 1 /\ Written(Len(ring) - 1))
    BY <1>2, <1>9, <2>1, Zenon
  <2> QED BY <1>5, <2>2, <2>4, Zenon DEF Reread, Lost, Written, InWindow, write_index
<1> QED BY <1>5, <1>6, <1>7, <1>8, <1>9, <1>10, WalkKeeps, Zenon

\* One turn of the loop of RingBuffer::read keeps the invariant.
LEMMA ReadRingKeeps ==
  ASSUME SubInv, NEW s \in Subs, ReadRing(s)
  PROVE  SubInv'
<1> DEFINE q == sub[s].take.actual
<1> DEFINE m == [src |-> "ring", id |-> q, size |-> ring[q + 1].size, len |-> ring[q + 1].size]
<1> DEFINE Ok == /\ "ok" \in Lookup(q)
                 /\ read_index' = (IF q >= read_index THEN q + 1 ELSE read_index)
                 /\ Set(s, [sub[s].take EXCEPT !.pc = "lifespan", !.found = m])
<1> DEFINE Refused(pc) == /\ {"overwritten", "not yet written"} \cap Lookup(q) # {} /\ sub[s].take.retries < MaxRetries
                          /\ Goto(s, pc) /\ UNCHANGED read_index
<1>1. /\ sub[s].alive /\ sub[s].take.pc = "ring" /\ UNCHANGED Environment
      /\ \/ Ok
         \/ Goto(s, "fail") /\ UNCHANGED read_index
         \/ \E pc \in {"overwritten", "unwritten"} : Refused(pc)
  BY Zenon DEF ReadRing, At
<1>2. q \in Nat /\ RingTyped
  BY SubKnown, Zenon
<1>3. CASE Ok
  <2>1. "ok" \in Lookup(q)
    BY <1>3, Zenon
  <2>2. ring[q + 1] \in Slots
    BY <1>2, <2>1, LookupMeans, Zenon
  <2>3. ring[q + 1].size \in Sizes /\ ring[q + 1].size \in Nat
    BY <2>2, SubscriptionAssumption, Zenon DEF Slots
  <2>4. m \in Messages /\ m.src = "ring" /\ m.id = q
    BY <1>2, <2>3, Zenon DEF Messages
  <2> HIDE DEF m
  <2> QED BY <1>1, <1>3, <2>4, ReadOkKeeps, Zenon
<1>4. CASE Goto(s, "fail") /\ UNCHANGED read_index
  <2>1. "fail" \in Pcs \ {"lifespan", "oldest", "ring", "overwritten", "unwritten"}
    BY DEF Pcs
  <2> QED BY <1>1, <1>4, <2>1, GotoKeeps, Zenon
<1>5. ASSUME NEW pc \in {"overwritten", "unwritten"}, Refused(pc)
      PROVE  SubInv'
  <2>1. ~ Written(q)
    BY <1>2, <1>5, LookupMeans, Zenon
  <2>2. sub[s].take.retries < MaxRetries /\ Goto(s, pc) /\ UNCHANGED <<Environment, read_index>>
    BY <1>1, <1>5, Zenon
  <2> QED BY <1>1, <2>1, <2>2, RefusedKeeps, Zenon
<1> HIDE DEF Ok, Refused
<1> QED BY <1>1, <1>3, <1>4, <1>5, Zenon

\* A subscription that takes a message is a subscription.
LEMMA TookRecord ==
  ASSUME SubsTyped, NEW s \in Subs, NEW u \in Takes, NEW q \in Nat, NEW f \in Messages,
         Delivers(s, q, u, f)
  PROVE  \E r \in Records : TookTo(s, r, q, u, f)
<1> DEFINE r == [sub[s] EXCEPT !.cursor = q, !.got = Append(sub[s].got, f), !.take = u]
<1>1. sub[s] \in Records
  BY Zenon DEF SubsTyped
<1>2. sub[s].got \in Seq(Messages)
  BY <1>1, Zenon DEF Records
<1>3. Append(sub[s].got, f) \in Seq(Messages)
  BY <1>2
<1>4. /\ r \in Records /\ r.take = u /\ r.cursor = q
      /\ r.alive = sub[s].alive /\ r.got = Append(sub[s].got, f)
      /\ r.local0 = sub[s].local0 /\ r.remote0 = sub[s].remote0 /\ r.epoch0 = sub[s].epoch0
  BY <1>1, <1>3, Zenon DEF Records
<1>5. sub' = [sub EXCEPT ![s] = r]
  BY Zenon DEF Delivers
<1>6. TookTo(s, r, q, u, f)
  BY <1>4, <1>5, Zenon DEF TookTo
<1> QED BY <1>4, <1>6, Zenon

\* What was taken, and one message more.
LEMMA Appended ==
  ASSUME NEW g \in Seq(Messages), NEW f \in Messages
  PROVE  Longer(Append(g, f), g, f)
  BY DEF Longer

\* A message at or after the cursor comes after all that was taken from its source.
LEMMA TookInOrder ==
  ASSUME NEW r0 \in Records, NEW r \in Records, NEW f \in Messages, NEW a \in Nat,
         Longer(r.got, r0.got, f), r.local0 = r0.local0, r.cursor = a + 1, r0.cursor <= a,
         r0.local0 <= r0.cursor, QueueTyped,
         Located(f, a),
         Behind(r0), Ordered(r0)
  PROVE  Behind(r) /\ Ordered(r)
<1>0. arrived \in Nat /\ next_seq \in Nat \cup {NoQueue}
  BY Zenon DEF QueueTyped
<1>1. /\ r0.cursor \in Nat /\ r0.local0 \in Nat /\ r0.got \in Seq(Messages)
  BY Zenon DEF Records
<1> DEFINE g == r0.got
<1> DEFINE h == r.got
<1>2. /\ Len(h) \in DOMAIN h /\ h[Len(h)] = f
      /\ \A i \in DOMAIN h : i = Len(h) \/ (i \in DOMAIN g /\ h[i] = g[i])
      /\ \A i, j \in DOMAIN h : i < j => i \in DOMAIN g /\ h[i] = g[i]
  BY Zenon DEF Longer
<1>3. /\ \A x : (x \in r0.local0..(r0.cursor - 1) => x \in r0.local0..(r.cursor - 1))
             /\ (x \in 0..(r0.cursor - 1) => x \in 0..(r.cursor - 1))
      /\ a \in r0.local0..(r.cursor - 1) /\ a \in 0..(r.cursor - 1)
  BY <1>1
<1>l. (f.src = "ring" /\ f.id = a) \/ (f.src = "queue" /\ OfQueue(f.id, a))
  BY Zenon DEF Located
<1>4. Behind(r)
  BY <1>2, <1>3, <1>l, Zenon DEF Behind
<1>5. ASSUME NEW i \in DOMAIN g, g[i].src = f.src
      PROVE  g[i].id < f.id
  <2>1. g[i] \in Messages
    BY <1>1
  <2>2. g[i].id \in Nat /\ f.id \in Nat
    BY <2>1, Zenon DEF Messages
  <2>3. CASE f.src = "ring" /\ f.id = a
    <3>1. g[i].id \in r0.local0..(r0.cursor - 1)
      BY <1>5, <2>3, Zenon DEF Behind
    <3> QED BY <1>1, <2>2, <2>3, <3>1
  <2>4. CASE f.src = "queue" /\ OfQueue(f.id, a)
    <3>1. PICK q \in 0..(r0.cursor - 1) : OfQueue(g[i].id, q)
      BY <1>5, <2>4, Zenon DEF Behind
    <3>2. g[i].id - arrived = q - next_seq /\ f.id - arrived = a - next_seq /\ next_seq \in Int
      BY <1>0, <2>4, <3>1 DEF OfQueue, NoQueue
    <3>3. \A x, y, n, m, v, w \in Int : x - n = v - m /\ y - n = w - m /\ v < w => x < y
      OBVIOUS
    <3>4. q \in Int /\ a \in Int /\ q < a /\ arrived \in Int
      BY <1>0, <1>1
    <3> QED BY <2>2, <3>2, <3>3, <3>4
  <2> QED BY <1>l, <2>3, <2>4, Zenon
<1>6. Ordered(r)
  <2> SUFFICES ASSUME NEW i \in DOMAIN h, NEW j \in DOMAIN h, i < j, h[i].src = h[j].src
               PROVE  h[i].id < h[j].id
    BY Zenon DEF Ordered
  <2>1. i \in DOMAIN g /\ h[i] = g[i]
    BY <1>2, Zenon
  <2>2. CASE j = Len(h)
    BY <1>2, <1>5, <2>1, <2>2, Zenon
  <2>3. CASE j \in DOMAIN g /\ h[j] = g[j]
    BY <2>1, <2>3, Zenon DEF Ordered
  <2> QED BY <1>2, <2>2, <2>3, Zenon
<1> QED BY <1>4, <1>6, Zenon

\* A take that hands out its message and moves the cursor behind it keeps the invariant.
LEMMA DeliverKeeps ==
  ASSUME SubInv, NEW s \in Subs, sub[s].alive, sub[s].take.pc = "lifespan",
         NEW u \in Takes, u.pc \in {"idle", "filtered"}, u.widx = 0,
         Delivers(s, sub[s].take.actual + 1, u, sub[s].take.found), UNCHANGED <<Environment, read_index>>
  PROVE  SubInv'
<1> DEFINE c == sub[s].cursor
<1> DEFINE a == sub[s].take.actual
<1> DEFINE f == sub[s].take.found
<1>1. /\ sub[s] \in Records /\ c \in Nat /\ a \in Nat /\ sub[s].local0 \in Nat
      /\ Aims(c, sub[s].take)
      /\ Ahead(sub[s]) /\ Behind(sub[s]) /\ Ordered(sub[s]) /\ RingTyped /\ QueueTyped
      /\ SubsTyped
      /\ f \in Messages \cup {NoMessage} /\ sub[s].got \in Seq(Messages)
  BY SubKnown, Zenon
<1>2. /\ c <= a
      /\ \/ f.src = "ring" /\ f.id = a /\ a < Len(ring)
         \/ f.src = "queue" /\ OfQueue(f.id, a)
  BY <1>1, Zenon DEF Aims
<1>3. f \in Messages
  <2>1. NoMessage.src = "none"
    BY DEF NoMessage
  <2> QED BY <1>1, <1>2, <2>1, Zenon
<1>4. a + 1 \in Nat
  BY <1>1
<1>5. PICK r \in Records : TookTo(s, r, a + 1, u, f)
  BY <1>1, <1>3, <1>4, TookRecord, Zenon
<1>6. /\ sub' = [sub EXCEPT ![s] = r]
      /\ r.take = u /\ r.cursor = a + 1 /\ r.alive /\ r.got = Append(sub[s].got, f)
      /\ r.local0 = sub[s].local0 /\ r.epoch0 = sub[s].epoch0
  BY <1>5, Zenon DEF TookTo
<1>7. sub[s].local0 <= c /\ (Latched => r.epoch0 <= r.local0)
  BY <1>1, <1>6, Zenon DEF Ahead
<1>a. Longer(r.got, sub[s].got, f)
  BY <1>1, <1>3, <1>6, Appended, Zenon
<1>b. Located(f, a)
  BY <1>2, Zenon DEF Located
<1>8. Behind(r) /\ Ordered(r)
  <2> DEFINE q == sub[s]
  <2>1. /\ q \in Records /\ Longer(r.got, q.got, f) /\ r.local0 = q.local0 /\ q.cursor <= a
        /\ q.local0 <= q.cursor /\ Behind(q) /\ Ordered(q) /\ QueueTyped
    BY <1>1, <1>2, <1>6, <1>7, <1>a, Zenon
  <2>2. a \in Nat /\ r.cursor = a + 1
    BY <1>1, <1>6, Zenon
  <2> HIDE DEF q, a, f
  <2> QED BY <1>3, <1>b, <2>1, <2>2, TookInOrder, Zenon
<1>9. Ahead(r)
  <2>1. r.local0 <= a + 1 /\ 0 <= Len(ring)
    <3>1. \A x, y, z \in Nat : x <= y /\ y <= z => x <= z + 1
      OBVIOUS
    <3>2. r.local0 <= a + 1
      BY <1>1, <1>2, <1>6, <1>7, <3>1, Zenon
    <3>3. 0 <= Len(ring)
      BY <1>1 DEF RingTyped
    <3> QED BY <3>2, <3>3, Zenon
  <2>2. Aims(a + 1, u)
    BY <2>1, Zenon DEF Aims
  <2> QED BY <1>6, <1>7, <2>1, <2>2, Zenon DEF Ahead
<1>10. Skipping(r.cursor, r.take)
  BY <1>6, Zenon DEF Skipping
<1>11. PICK k \in DOMAIN r.got : r.got[k] = f
  BY <1>a, Zenon DEF Longer
<1>12. r.cursor - 1 = a
  BY <1>1, <1>6
<1>13. arrived = 0 => ToldByRing(r) /\ (Alone(s) => Reread(r.cursor, r.take)')
  <2> SUFFICES ASSUME arrived = 0
               PROVE  ToldByRing(r) /\ (Alone(s) => Reread(r.cursor, r.take)')
    BY Zenon
  <2>1. f.src = "ring" /\ f.id = a
    <3>1. f.id \in Nat
      BY <1>3, Zenon DEF Messages
    <3>2. ~ (f.id < arrived)
      BY <3>1
    <3> QED BY <1>2, <3>2, Zenon DEF OfQueue
  <2>2. ToldByRing(r)
    BY <1>11, <1>12, <2>1, Zenon DEF ToldByRing, TakenLast
  <2>3. Len(ring) \in Nat /\ RingDepth \in Nat
    BY <1>1, SubscriptionAssumption DEF RingTyped
  <2>4. Lost(a + 1) => Lost(c) /\ a # Len(ring) - 1
    BY <1>1, <1>2, <2>3 DEF Lost
  <2>5. Alone(s) /\ Lost(a + 1) => read_index < Len(ring)
    BY <2>4, SubKnown, Zenon DEF Reread
  <2>6. UNCHANGED <<ring, read_index>>
    BY Zenon DEF Environment
  <2> QED BY <1>6, <2>2, <2>5, <2>6, Zenon DEF Reread, Lost
<1>14. ring = <<>> => ToldByQueue(r)
  <2> SUFFICES ASSUME ring = <<>>
               PROVE  ToldByQueue(r)
    BY Zenon
  <2>1. ~ (a < Len(ring))
    BY <1>1
  <2>2. f.src = "queue" /\ OfQueue(f.id, a)
    BY <1>2, <2>1, Zenon
  <2>3. next_seq = arrived /\ f.id - arrived = a - next_seq
    BY <2>2, Zenon DEF SubInv, FromQueue, OfQueue
  <2>4. f.id \in Nat /\ arrived \in Nat
    BY <1>1, <1>3, Zenon DEF QueueTyped, Messages
  <2>5. f.id = a
    <3>1. \A x, y, n \in Nat : x - n = y - n => x = y
      OBVIOUS
    <3> QED BY <1>1, <2>3, <2>4, <3>1, Zenon
  <2> QED BY <1>11, <1>12, <2>2, <2>5, Zenon DEF ToldByQueue, TakenLast
<1>15. read_index' \in 0..Len(ring) /\ UNCHANGED Environment
  BY <1>1, Zenon DEF RingTyped
<1> QED BY <1>6, <1>8, <1>9, <1>10, <1>13, <1>14, <1>15, StepKeeps, Zenon

\* The lifespan check and the content filter keep the invariant.
LEMMA CheckLifespanKeeps ==
  ASSUME SubInv, NEW s \in Subs, CheckLifespan(s)
  PROVE  SubInv'
<1>1. /\ sub[s].alive /\ sub[s].take.pc = "lifespan" /\ UNCHANGED <<Environment, read_index>>
      /\ \/ Goto(s, "fail")
         \/ \E u \in {Idle, [Idle EXCEPT !.pc = "filtered", !.cap = sub[s].take.cap]} :
              Delivers(s, sub[s].take.actual + 1, u, sub[s].take.found)
  BY Zenon DEF CheckLifespan, At, Delivers
<1>2. "fail" \in Pcs \ {"lifespan", "oldest", "ring", "overwritten", "unwritten"}
  BY DEF Pcs
<1>3. CASE Goto(s, "fail")
  BY <1>1, <1>2, <1>3, GotoKeeps, Zenon
<1>4. ASSUME NEW u \in {Idle, [Idle EXCEPT !.pc = "filtered", !.cap = sub[s].take.cap]},
             Delivers(s, sub[s].take.actual + 1, u, sub[s].take.found)
      PROVE  SubInv'
  <2>1. sub[s].take.cap \in Nat
    BY SubKnown, Zenon
  <2>2. u \in Takes /\ u.pc \in {"idle", "filtered"} /\ u.widx = 0
    <3>1. CASE u = Idle
      BY <3>1, IdleTyped, Zenon
    <3>2. CASE u = [Idle EXCEPT !.pc = "filtered", !.cap = sub[s].take.cap]
      BY <2>1, <3>2, IdleTyped, Zenon
    <3> QED BY <3>1, <3>2, Zenon
  <2> QED BY <1>1, <1>4, <2>2, DeliverKeeps, Zenon
<1> QED BY <1>1, <1>3, <1>4, Zenon

\* peek_next_message_size keeps the invariant: it moves the cursor forward to a message
\* of the queue or a written one of the ring.
LEMMA PeekNextKeeps ==
  ASSUME SubInv, NEW s \in Subs, PeekNext(s)
  PROVE  SubInv'
<1> DEFINE c == sub[s].cursor
<1> DEFINE a == IF c >= oldest_available_seq THEN c ELSE Len(ring) - 1
<1>1. /\ sub[s].alive /\ UNCHANGED <<Environment, read_index>>
      /\ \/ \E f \in Resolve(c) : TooSmall(s, f.msg.size, f.seq)
         \/ c < Len(ring) /\ Written(a) /\ TooSmall(s, ring[a + 1].size, a)
         \/ ~ (c < Len(ring) /\ Written(a)) /\ Set(s, Idle)
  BY Zenon DEF PeekNext, At, write_index
<1>2. c \in Nat /\ RingTyped
  BY SubKnown, Zenon
<1>3. Len(ring) \in Nat /\ RingDepth \in Nat
  BY <1>2, SubscriptionAssumption DEF RingTyped
<1>4. ASSUME NEW f \in Resolve(c), TooSmall(s, f.msg.size, f.seq)
      PROVE  SubInv'
  BY <1>1, <1>4, MayMoveResolved, MoveKeeps, Zenon
<1>5. CASE c < Len(ring) /\ Written(a) /\ TooSmall(s, ring[a + 1].size, a)
  <2>1. a \in Nat /\ c <= a /\ a < Len(ring) /\ ~ Lost(a) /\ ring # <<>>
    BY <1>2, <1>3, <1>5 DEF Written, InWindow, Lost, write_index
  <2>2. MayMove(c, a)
    BY <2>1, Zenon DEF MayMove
  <2>3. ring[a + 1] \in Slots
    BY <1>2, <2>1 DEF RingTyped
  <2>4. ring[a + 1].size \in Nat
    BY <2>3, SubscriptionAssumption, Zenon DEF Slots
  <2> HIDE DEF a
  <2> QED BY <1>1, <1>5, <2>1, <2>2, <2>4, MoveKeeps, Zenon
<1>6. CASE ~ (c < Len(ring) /\ Written(a)) /\ Set(s, Idle)
  <2>1. Lost(c) => c < Len(ring) /\ a = Len(ring) - 1
    BY <1>2, <1>3 DEF Lost, oldest_available_seq, max, write_index
  <2> HIDE DEF a
  <2>2. Lost(c) => ~ Written(Len(ring) - 1)
    BY <1>6, <2>1, Zenon
  <2> QED BY <1>1, <1>6, <2>2, SetIdleKeeps, Zenon
<1> QED BY <1>1, <1>4, <1>5, <1>6, Zenon

\* What is known of the queue holds as long as it is not changed.
LEMMA QueueStill ==
  ASSUME QueueTyped, RestTyped, Numbered,
         UNCHANGED <<messages, keep_all, next_seq, arrived, expired, refused>>
  PROVE  QueueTyped' /\ RestTyped' /\ Numbered'
  BY Zenon DEF QueueTyped, RestTyped, Numbered

\* A step of the ring keeps the invariant if it loses no written message but those it
\* overtakes.
LEMMA RingGrows ==
  ASSUME SubInv, RingTyped', ring' # <<>>, Grown,
         UNCHANGED <<epoch, messages, keep_all, next_seq, arrived, expired, refused, sub>>
  PROVE  SubInv'
<1>1. QueueTyped' /\ RestTyped' /\ Numbered'
  BY QueueStill, Zenon DEF SubInv
<1>2. SubsTyped' /\ Unborn'
  BY Zenon DEF SubInv, SubsTyped, Unborn
<1>3. FromQueue'
  BY Zenon DEF FromQueue
<1>4. /\ Len(ring) \in Nat /\ Len(ring') \in Nat /\ Len(ring) <= Len(ring')
      /\ RingDepth \in Nat \ {0}
  BY SubscriptionAssumption DEF SubInv, RingTyped, Grown
<1>5. \A n \in Nat : (n <= Len(ring) => n <= Len(ring')) /\ (n < Len(ring) => n < Len(ring')) /\ (Lost(n) => Lost(n)')
  BY <1>4 DEF Lost
<1>6. \A q \in Nat : Written(q) => Written(q)' \/ Lost(q)'
  BY Zenon DEF Grown
<1>7. Takings'
  <2> SUFFICES ASSUME NEW t \in Subs, NEW q, q = sub'[t], q.alive
               PROVE  Ahead(q)' /\ Behind(q)' /\ Ordered(q)' /\ Skipping(q.cursor, q.take)'
    BY TakingsThen, Zenon
  <2>1. /\ q.cursor \in Nat /\ q.take.widx \in Nat /\ q.take.actual \in Nat
        /\ Ahead(q) /\ Behind(q) /\ Ordered(q) /\ Skipping(q.cursor, q.take)
    BY SubKnown, Zenon
  <2>2. Ahead(q)'
    BY <1>5, <2>1, Zenon DEF Ahead, Aims, OfQueue
  <2>3. Behind(q)' /\ Ordered(q)'
    BY <2>1, Zenon DEF Behind, Ordered, OfQueue
  <2>4. Skipping(q.cursor, q.take)'
    <3>1. (Lost(q.cursor) => Lost(q.cursor)') /\ (Written(q.cursor) => Written(q.cursor)' \/ Lost(q.cursor)')
      BY <1>5, <1>6, <2>1, Zenon
    <3> QED BY <2>1, <3>1, Zenon DEF Skipping
  <2> QED BY <2>2, <2>3, <2>4, Zenon
<1>8. FromRing'
  <2> SUFFICES ASSUME arrived = 0, NEW t \in Subs, NEW q, q = sub[t], q.alive
               PROVE  ToldByRing(q)' /\ (Alone(t)' => Reread(q.cursor, q.take)')
    BY Zenon DEF FromRing, ToldByRing, TakenLast, Reread, Lost, Written, InWindow, write_index
  <2>1. q.cursor \in Nat /\ ToldByRing(q) /\ (Alone(t) => Reread(q.cursor, q.take))
    BY SubKnown, Zenon
  <2>2. ToldByRing(q)'
    BY <1>5, <2>1, Zenon DEF ToldByRing, TakenLast
  <2>3. Alone(t)' => Alone(t)
    BY Zenon DEF Alone
  <2>4. CASE read_index' < Len(ring')
    BY <2>2, <2>4, Zenon DEF Reread
  <2>5. CASE Len(ring') = Len(ring) /\ read_index' = read_index
    <3> SUFFICES ASSUME Reread(q.cursor, q.take), Lost(q.cursor)'
                 PROVE  Reread(q.cursor, q.take)'
      BY <2>1, <2>2, <2>3, Zenon DEF Reread
    <3>1. Lost(q.cursor)
      BY <2>5, Zenon DEF Lost
    <3>a. Len(ring) - 1 \in Nat /\ ~ (Len(ring') - (Len(ring) - 1) > RingDepth)
      BY <1>4, <2>1, <2>5, <3>1 DEF Lost
    <3>2. PICK n \in Nat : n = Len(ring) - 1 /\ ~ (Len(ring') - n > RingDepth)
      BY <3>a, Zenon
    <3>3. Written(n) => Written(n)'
      BY <1>6, <3>2, Zenon DEF Lost
    <3>4. Written(Len(ring) - 1) => Written(Len(ring) - 1)'
      BY <2>5, <3>2, <3>3, Zenon DEF Written, InWindow, write_index
    <3> QED BY <2>5, <3>1, <3>4, Zenon DEF Reread
  <2> QED BY <2>4, <2>5, Zenon DEF Grown
<1> QED BY <1>1, <1>2, <1>3, <1>7, <1>8, Zenon DEF SubInv

\* Reserving a slot keeps the invariant: the watermark that follows lagging readers stays
\* before the end.
LEMMA ReserveKeeps ==
  ASSUME SubInv, NEW size \in Sizes, Reserve(size)
  PROVE  SubInv'
<1>1. PICK m : m = [size |-> size, state |-> "writing"]
  BY Zenon
<1>2. m \in Slots
  BY <1>1, Zenon DEF Slots
<1>3. /\ ring' = Append(ring, m)
      /\ read_index' = (IF Len(ring) - read_index >= RingDepth THEN Len(ring) - (RingDepth - 1) ELSE read_index)
      /\ UNCHANGED <<epoch, messages, keep_all, next_seq, arrived, expired, refused, sub>>
  BY <1>1, Zenon DEF Reserve, write_index
<1>4. /\ ring \in Seq(Slots) /\ read_index \in 0..Len(ring) /\ epoch \in 0..Len(ring)
      /\ RingDepth \in Nat \ {0}
  BY SubscriptionAssumption DEF SubInv, RingTyped
<1>5. /\ ring' \in Seq(Slots) /\ Len(ring') = Len(ring) + 1 /\ Len(ring) \in Nat /\ ring' # <<>>
      /\ \A i \in 1..Len(ring) : ring'[i] = ring[i]
  BY <1>2, <1>3, <1>4
<1>6. RingTyped' /\ read_index' < Len(ring')
  <2>1. read_index' \in 0..Len(ring') /\ read_index' < Len(ring')
    BY <1>3, <1>4, <1>5
  <2>2. epoch' \in 0..Len(ring')
    BY <1>3, <1>4, <1>5
  <2> QED BY <1>5, <2>1, <2>2, Zenon DEF RingTyped
<1>7. Grown
  <2>1. ASSUME NEW q \in Nat, Written(q)
        PROVE  Written(q)' \/ Lost(q)'
    <3>1. q < Len(ring) /\ Len(ring) - q <= RingDepth /\ ring[q + 1].state = "written"
      BY <2>1, Zenon DEF Written, InWindow, write_index
    <3>2. /\ q + 1 \in 1..Len(ring) /\ q < Len(ring')
          /\ Len(ring') - q <= RingDepth \/ Len(ring') - q > RingDepth
      BY <1>4, <1>5, <3>1
    <3>3. ring'[q + 1] = ring[q + 1]
      BY <1>5, <3>2, Zenon
    <3> QED BY <3>1, <3>2, <3>3, Zenon DEF Written, InWindow, write_index, Lost
  <2>2. Len(ring) <= Len(ring')
    BY <1>5
  <2> QED BY <1>6, <2>1, <2>2, Zenon DEF Grown
<1> QED BY <1>3, <1>5, <1>6, <1>7, RingGrows, Zenon

\* The end of a write, and the death of its writer, keep the invariant.
LEMMA SlotKeeps ==
  ASSUME SubInv, NEW i \in DOMAIN ring, ring[i].state = "writing", NEW st \in {"written", "dead"},
         ring' = [ring EXCEPT ![i].state = st],
         UNCHANGED <<read_index, epoch, messages, keep_all, next_seq, arrived, expired, refused, sub>>
  PROVE  SubInv'
<1>1. ring \in Seq(Slots) /\ Len(ring) \in Nat /\ i \in 1..Len(ring)
  BY DEF SubInv, RingTyped
<1>2. PICK m : m = [ring[i] EXCEPT !.state = st]
  BY Zenon
<1>3. m \in Slots
  <2>1. ring[i] \in Slots
    BY <1>1
  <2> QED BY <1>2, <2>1, Zenon DEF Slots
<1>4. ring' = [ring EXCEPT ![i] = m]
  BY <1>2, Zenon
<1>5. /\ ring' \in Seq(Slots) /\ Len(ring') = Len(ring) /\ ring' # <<>>
      /\ \A j \in 1..Len(ring) : j # i => ring'[j] = ring[j]
  BY <1>1, <1>3, <1>4
<1>6. RingTyped'
  BY <1>5, Zenon DEF SubInv, RingTyped
<1>7. Grown
  <2>1. ASSUME NEW q \in Nat, Written(q)
        PROVE  Written(q)'
    <3>1. q < Len(ring) /\ Len(ring) - q <= RingDepth /\ ring[q + 1].state = "written"
      BY <2>1, Zenon DEF Written, InWindow, write_index
    <3>2. q + 1 \in 1..Len(ring)
      BY <1>1, <3>1
    <3>3. q + 1 # i
      BY <3>1
    <3>4. ring'[q + 1] = ring[q + 1]
      BY <1>5, <3>2, <3>3, Zenon
    <3> QED BY <1>5, <3>1, <3>4, Zenon DEF Written, InWindow, write_index
  <2>2. Len(ring) <= Len(ring')
    BY <1>1, <1>5
  <2> QED BY <1>5, <2>1, <2>2, Zenon DEF Grown
<1> QED BY <1>5, <1>6, <1>7, RingGrows, Zenon

\* A step that changes neither ring, queue nor subscriptions keeps the invariant.
LEMMA MarkExpireKeeps ==
  ASSUME SubInv, RingTyped', RestTyped',
         UNCHANGED <<ring, read_index, messages, keep_all, next_seq, arrived, sub>>
  PROVE  SubInv'
<1>1. QueueTyped' /\ Numbered' /\ SubsTyped' /\ Unborn'
  BY Zenon DEF SubInv, QueueTyped, Numbered, SubsTyped, Unborn
<1>2. Takings'
  <2>1. \A t \in Subs : \A q : q = sub'[t] /\ q.alive =>
          Ahead(q) /\ Behind(q) /\ Ordered(q) /\ Skipping(q.cursor, q.take)
    BY Zenon DEF SubInv, Takings
  <2> QED BY <2>1, SameEnv, TakingsThen, Zenon
<1>3. FromRing'
  BY Zenon DEF SubInv, FromRing, ToldByRing, TakenLast, Reread, Lost, Written, InWindow,
     write_index, Alone
<1>4. FromQueue'
  BY Zenon DEF SubInv, FromQueue, ToldByQueue, TakenLast, NoQueue
<1> QED BY <1>1, <1>2, <1>3, <1>4, Zenon DEF SubInv

\* mark_generation keeps the invariant.
LEMMA MarkKeeps ==
  ASSUME SubInv, MarkGeneration
  PROVE  SubInv'
<1>1. RingTyped'
  <2>1. Len(ring) \in 0..Len(ring)
    BY DEF SubInv, RingTyped
  <2> QED BY <2>1, Zenon DEF SubInv, RingTyped, MarkGeneration, write_index
<1>2. RestTyped'
  BY Zenon DEF SubInv, RestTyped, MarkGeneration
<1> QED BY <1>1, <1>2, MarkExpireKeeps, Zenon DEF MarkGeneration

\* A lifespan that passes keeps the invariant.
LEMMA ExpireKeeps ==
  ASSUME SubInv, NEW src \in {"ring", "queue"}, NEW id \in Nat, Expire(src, id)
  PROVE  SubInv'
<1>1. RingTyped'
  BY Zenon DEF SubInv, RingTyped, Expire
<1>2. RestTyped'
  <2>1. expired \subseteq ({"ring", "queue"} \X Nat) /\ expired' = expired \cup {<<src, id>>}
    BY Zenon DEF SubInv, RestTyped, Expire
  <2>2. expired' \subseteq ({"ring", "queue"} \X Nat)
    BY <2>1
  <2> QED BY <2>2, Zenon DEF SubInv, RestTyped, Expire
<1> QED BY <1>1, <1>2, MarkExpireKeeps, Zenon DEF Expire

\* A push that a full KeepAll queue refuses keeps the numbering: next_seq and the
\* arrivals both grow.
LEMMA PushedAll ==
  ASSUME QueueTyped, Numbered, next_seq # NoQueue, next_seq' = next_seq + 1,
         arrived' = arrived + 1,
         Len(messages) >= QueueDepth, keep_all, UNCHANGED <<messages, keep_all>>
  PROVE  QueueTyped' /\ Numbered'
<1>1. next_seq \in Nat /\ arrived \in Nat /\ messages \in Seq(Queued)
  BY DEF QueueTyped
<1>2. next_seq' \in Nat /\ arrived' \in Nat /\ next_seq' # NoQueue
  BY <1>1 DEF NoQueue
<1>3. QueueTyped'
  BY <1>2, Zenon DEF QueueTyped
<1>4. ASSUME NEW i \in DOMAIN messages
      PROVE  /\ messages[i].id - arrived' = messages[i].seq - next_seq'
             /\ messages[i].seq < next_seq'
  <2>1. messages[i] \in Queued
    BY <1>1
  <2>2. messages[i].id \in Nat /\ messages[i].seq \in Nat
    BY <2>1, Zenon DEF Queued
  <2>3. messages[i].id - arrived = messages[i].seq - next_seq /\ messages[i].seq < next_seq
    BY Zenon DEF Numbered
  <2> DEFINE id == messages[i].id
  <2> DEFINE seq == messages[i].seq
  <2>4. id \in Nat /\ seq \in Nat /\ id - arrived = seq - next_seq /\ seq < next_seq
    BY <2>2, <2>3, Zenon
  <2>5. id - arrived' = seq - next_seq' /\ seq < next_seq'
    <3> HIDE DEF id, seq
    <3> QED BY <1>1, <2>4
  <2> QED BY <2>5, Zenon
<1> QED BY <1>2, <1>3, <1>4, Zenon DEF Numbered

\* The queue, and one message more.
LEMMA Joined ==
  ASSUME NEW g \in Seq(Queued), NEW m \in Queued
  PROVE  Joins(Append(g, m), g, m)
  BY DEF Joins

\* A push that is not refused drops the oldest message if the queue is full, and appends
\* the new one.
LEMMA Shifted ==
  ASSUME QueueTyped, NEW m \in Queued,
         messages' = Append(IF Len(messages) >= QueueDepth THEN Tail(messages) ELSE messages, m)
  PROVE  \E k \in {0, 1} : Shift(k, m)
<1>1. messages \in Seq(Queued) /\ Len(messages) \in Nat
  BY DEF QueueTyped
<1>2. CASE Len(messages) >= QueueDepth
  <2>1. messages' = Append(Tail(messages), m)
    BY <1>2, Zenon
  <2>a. messages # <<>>
    BY <1>1, <1>2, SubscriptionAssumption
  <2>2. /\ Tail(messages) \in Seq(Queued) /\ Len(Tail(messages)) = Len(messages) - 1
        /\ 1 <= Len(messages)
        /\ \A i \in 1..Len(messages) - 1 : Tail(messages)[i] = messages[i + 1]
    BY <1>1, <2>a
  <2>3. PICK w \in Seq(Queued) : w = Tail(messages)
    BY <2>2, Zenon
  <2>4. /\ messages' \in Seq(Queued) /\ Len(messages') = Len(w) + 1
        /\ messages'[Len(messages')] = m
        /\ \A i \in 1..Len(w) : messages'[i] = w[i]
    <3>1. Joins(messages', w, m)
      BY <2>1, <2>3, Joined, Zenon
    <3> QED BY <3>1, Zenon DEF Joins
  <2>5. Shift(1, m)
    BY <2>2, <2>3, <2>4, Zenon DEF Shift
  <2> QED BY <2>5, Zenon
<1>3. CASE ~ (Len(messages) >= QueueDepth)
  <2>1. messages' = Append(messages, m)
    BY <1>3, Zenon
  <2>2. /\ messages' \in Seq(Queued) /\ Len(messages') = Len(messages) + 1
        /\ messages'[Len(messages')] = m
        /\ \A i \in 1..Len(messages) : messages'[i] = messages[i]
    <3>1. Joins(messages', messages, m)
      BY <1>1, <2>1, Joined, Zenon
    <3> QED BY <3>1, Zenon DEF Joins
  <2>3. 0 <= Len(messages) /\ Len(messages) - 0 = Len(messages) /\ \A i \in 1..Len(messages) : i + 0 = i
    BY <1>1
  <2>4. Shift(0, m)
    BY <1>3, <2>2, <2>3, Zenon DEF Shift
  <2> QED BY <2>4, Zenon
<1> QED BY <1>2, <1>3, Zenon

\* A push that is not refused keeps the numbering.
LEMMA PushedOne ==
  ASSUME QueueTyped, Numbered, next_seq # NoQueue, next_seq' = next_seq + 1,
         arrived' = arrived + 1,
         NEW m \in Queued, m.seq = next_seq, m.id = arrived, UNCHANGED keep_all,
         ~ (Len(messages) >= QueueDepth /\ keep_all), NEW k \in {0, 1}, Shift(k, m)
  PROVE  /\ QueueTyped' /\ Numbered' /\ messages' # <<>>
         /\ messages'[Len(messages')].seq = next_seq
<1>1. /\ next_seq \in Nat /\ arrived \in Nat /\ messages \in Seq(Queued)
      /\ Len(messages) \in Nat /\ Len(messages) <= QueueDepth
  BY DEF QueueTyped
<1>2. QueueDepth \in Nat \ {0}
  BY SubscriptionAssumption
<1>5. /\ messages' \in Seq(Queued) /\ k <= Len(messages)
      /\ Len(messages') = (Len(messages) - k) + 1
      /\ Len(messages) >= QueueDepth => k = 1
      /\ messages'[Len(messages')] = m
      /\ \A i \in 1..Len(messages) - k : messages'[i] = messages[i + k]
  BY Zenon DEF Shift
<1>6. next_seq' \in Nat /\ arrived' \in Nat /\ next_seq' # NoQueue
  BY <1>1 DEF NoQueue
<1>7. Len(messages') <= QueueDepth /\ Len(messages') \in Nat \ {0} /\ messages' # <<>>
  BY <1>1, <1>2, <1>5
<1>8. QueueTyped'
  BY <1>5, <1>6, <1>7, Zenon DEF QueueTyped
<1>9. messages # <<>> => messages[Len(messages)].seq = next_seq - 1
  BY Zenon DEF Numbered
<1>10. ASSUME NEW i \in 1..Len(messages)
       PROVE  /\ messages[i].id \in Nat /\ messages[i].seq \in Nat
              /\ messages[i].seq = next_seq - (Len(messages) + 1 - i)
              /\ messages[i].id - arrived = messages[i].seq - next_seq
  <2>1. /\ messages[i] \in Queued /\ messages[1] \in Queued
        /\ messages[Len(messages)] \in Queued /\ messages # <<>>
        /\ 1 \in DOMAIN messages /\ i \in DOMAIN messages /\ Len(messages) \in DOMAIN messages
    BY <1>1
  <2>2. messages[i].id \in Nat /\ messages[i].seq \in Nat /\ messages[1].seq \in Nat
    BY <2>1, Zenon DEF Queued
  <2>3. /\ messages[i].seq = messages[1].seq + (i - 1)
        /\ messages[Len(messages)].seq = messages[1].seq + (Len(messages) - 1)
        /\ messages[i].id - arrived = messages[i].seq - next_seq
    BY <2>1, Zenon DEF Numbered
  <2>4. messages[Len(messages)].seq = next_seq - 1
    BY <1>9, <2>1, Zenon
  <2>5. messages[1].seq + (Len(messages) - 1) = next_seq - 1
    BY <2>3, <2>4, Zenon
  <2>6. \A x, f \in Nat : x = f + (i - 1) /\ f + (Len(messages) - 1) = next_seq - 1
                           => x = next_seq - (Len(messages) + 1 - i)
    BY <1>1
  <2>7. messages[i].seq = next_seq - (Len(messages) + 1 - i)
    BY <2>2, <2>3, <2>5, <2>6, Zenon
  <2> QED BY <2>2, <2>3, <2>7, Zenon
<1>11. ASSUME NEW i \in 1..Len(messages')
       PROVE  /\ messages'[i].id \in Nat /\ messages'[i].seq \in Nat
              /\ messages'[i].seq = next_seq - (Len(messages') - i)
              /\ messages'[i].id - arrived = messages'[i].seq - next_seq
  <2>1. m.id \in Nat /\ m.seq \in Nat
    BY Zenon DEF Queued
  <2>2. CASE i = Len(messages')
    <3>1. messages'[i] = m
      BY <1>5, <2>2, Zenon
    <3>2. next_seq = next_seq - (i - i) /\ arrived - arrived = next_seq - next_seq
      BY <1>1, <1>7
    <3> QED BY <2>1, <2>2, <3>1, <3>2, Zenon
  <2>3. CASE i # Len(messages')
    <3>1. i \in 1..Len(messages) - k /\ i + k \in 1..Len(messages)
      BY <1>1, <1>5, <2>3
    <3>2. messages'[i] = messages[i + k]
      BY <1>5, <3>1, Zenon
    <3>3. /\ messages[i + k].id \in Nat /\ messages[i + k].seq \in Nat
          /\ messages[i + k].seq = next_seq - (Len(messages) + 1 - (i + k))
          /\ messages[i + k].id - arrived = messages[i + k].seq - next_seq
      BY <1>10, <3>1, Zenon
    <3>4. next_seq - (Len(messages) + 1 - (i + k)) = next_seq - (Len(messages') - i)
      <4>1. Len(messages') = (Len(messages) - k) + 1
        BY <1>5, Zenon
      <4>2. i \in Int /\ k \in Int
        BY <3>1
      <4> HIDE DEF QueueTyped, Numbered
      <4> QED BY <1>1, <4>1, <4>2
    <3> QED BY <3>2, <3>3, <3>4, Zenon
  <2> QED BY <2>2, <2>3, Zenon
<1>12. DOMAIN messages' = 1..Len(messages') /\ 1 \in 1..Len(messages')
  BY <1>5, <1>7
<1>13. ASSUME NEW i \in 1..Len(messages')
       PROVE  /\ messages'[i].seq = messages'[1].seq + (i - 1)
              /\ messages'[i].id - arrived' = messages'[i].seq - next_seq'
              /\ messages'[i].seq < next_seq'
  <2>1. messages'[1].seq = next_seq - (Len(messages') - 1)
    BY <1>11, <1>12, Zenon
  <2>2. /\ messages'[i].id \in Nat /\ messages'[i].seq \in Nat
        /\ messages'[i].seq = next_seq - (Len(messages') - i)
        /\ messages'[i].id - arrived = messages'[i].seq - next_seq
    BY <1>11, Zenon
  <2>3. \A x, f, d \in Int : /\ x = next_seq - (Len(messages') - i) /\ f = next_seq - (Len(messages') - 1)
                             /\ d - arrived = x - next_seq
           => x = f + (i - 1) /\ d - (arrived + 1) = x - (next_seq + 1) /\ x < next_seq + 1
    BY <1>1, <1>7
  <2>4. messages'[1].seq \in Int /\ messages'[i].seq \in Int /\ messages'[i].id \in Int
    BY <1>11, <1>12, <2>2
  <2> QED BY <2>1, <2>2, <2>3, <2>4, Zenon
<1>14. messages'[Len(messages')].seq = next_seq /\ next_seq = next_seq' - 1
  BY <1>1, <1>5
<1>15. Numbered'
  BY <1>6, <1>12, <1>13, <1>14, Zenon DEF Numbered
<1> QED BY <1>7, <1>8, <1>14, <1>15, Zenon

\* A push keeps the invariant: the number of every arrival stays as it is.
LEMMA PushKeeps ==
  ASSUME SubInv, NEW size \in Sizes, NEW packed \in BOOLEAN, Push(size, packed)
  PROVE  SubInv'
<1>1. PICK m : m = [seq |-> next_seq, id |-> arrived, size |-> size, packed |-> packed]
  BY Zenon
<1>2. /\ next_seq # NoQueue /\ next_seq' = next_seq + 1 /\ arrived' = arrived + 1
      /\ UNCHANGED <<ring, read_index, epoch, keep_all, expired, sub>>
      /\ \/ /\ Len(messages) >= QueueDepth /\ keep_all /\ UNCHANGED messages
            /\ refused' = (refused \/ ~\E s \in Subs : Unread(s))
         \/ /\ ~ (Len(messages) >= QueueDepth /\ keep_all) /\ UNCHANGED refused
            /\ messages' = Append(IF Len(messages) >= QueueDepth THEN Tail(messages) ELSE messages, m)
  BY <1>1, Zenon DEF Push, MakeRoom
<1>3. next_seq \in Nat /\ arrived \in Nat /\ QueueTyped /\ Numbered
  <2>1. QueueTyped /\ Numbered
    BY Zenon DEF SubInv
  <2> QED BY <1>2, <2>1, Zenon DEF QueueTyped
<1>4. m \in Queued /\ m.seq = next_seq /\ m.id = arrived
  BY <1>1, <1>3, Zenon DEF Queued
<1>5. /\ QueueTyped' /\ Numbered'
      /\ \/ UNCHANGED messages
         \/ messages' # <<>> /\ messages'[Len(messages')].seq = next_seq
  <2>1. CASE Len(messages) >= QueueDepth /\ keep_all /\ UNCHANGED messages
    BY <1>2, <1>3, <2>1, PushedAll, Zenon
  <2>2. CASE /\ ~ (Len(messages) >= QueueDepth /\ keep_all)
             /\ messages' = Append(IF Len(messages) >= QueueDepth THEN Tail(messages) ELSE messages, m)
    <3>1. PICK k \in {0, 1} : Shift(k, m)
      BY <1>3, <1>4, <2>2, Shifted, Zenon
    <3> QED BY <1>2, <1>3, <1>4, <2>2, <3>1, PushedOne, Zenon
  <2> QED BY <1>2, <2>1, <2>2, Zenon
<1>6. RestTyped' /\ RingTyped' /\ SubsTyped' /\ Unborn'
  BY <1>2, Zenon DEF SubInv, RestTyped, RingTyped, SubsTyped, Unborn
<1>7. \A id, seq \in Nat : OfQueue(id, seq) => OfQueue(id, seq)'
  <2>1. next_seq' # NoQueue
    BY <1>2, <1>3 DEF NoQueue
  <2>2. \A id, seq \in Nat : (id < arrived => id < arrived + 1)
                             /\ (id - arrived = seq - next_seq => id - (arrived + 1) = seq - (next_seq + 1))
    BY <1>3
  <2> QED BY <1>2, <2>1, <2>2, Zenon DEF OfQueue
<1>8. Takings'
  <2> SUFFICES ASSUME NEW t \in Subs, NEW q, q = sub'[t], q.alive
               PROVE  Ahead(q)' /\ Behind(q)' /\ Ordered(q)' /\ Skipping(q.cursor, q.take)'
    BY TakingsThen, Zenon
  <2>0. q = sub[t]
    BY <1>2, Zenon
  <2>1. /\ q.cursor \in Nat /\ q.take.actual \in Nat
        /\ q.take.found \in Messages \cup {NoMessage} /\ q.got \in Seq(Messages)
        /\ Ahead(q) /\ Behind(q) /\ Ordered(q) /\ Skipping(q.cursor, q.take)
    BY <2>0, SubKnown, Zenon
  <2>2. Ahead(q)'
    <3>1. q.take.found.id \in Nat
      BY <2>1 DEF Messages, NoMessage
    <3>2. Aims(q.cursor, q.take)'
      BY <1>2, <1>7, <2>1, <3>1, Zenon DEF Ahead, Aims
    <3> QED BY <2>1, <3>2, Zenon DEF Ahead
  <2>3. Behind(q)'
    <3>1. \A i \in DOMAIN q.got : q.got[i].id \in Nat
      <4>1. \A i \in DOMAIN q.got : q.got[i] \in Messages
        BY <2>1
      <4> QED BY <4>1, Zenon DEF Messages
    <3>2. \A j \in 0..(q.cursor - 1) : j \in Nat
      BY <2>1
    <3> QED BY <1>7, <2>1, <3>1, <3>2, Zenon DEF Behind
  <2>4. Ordered(q)' /\ Skipping(q.cursor, q.take)'
    BY <1>2, <2>1, Zenon DEF Ordered, Skipping, Lost, Written, InWindow, write_index
  <2> QED BY <2>2, <2>3, <2>4, Zenon
<1>9. FromRing'
  <2>1. arrived' # 0
    BY <1>2, <1>3
  <2> QED BY <2>1, Zenon DEF FromRing
<1>10. FromQueue'
  <2> SUFFICES ASSUME ring = <<>>
               PROVE  /\ next_seq' = arrived'
                      /\ \A t \in Subs : \A q : q = sub[t] /\ q.alive => ToldByQueue(q)'
    BY <1>2, Zenon DEF FromQueue, ToldByQueue, TakenLast, NoQueue
  <2>1. next_seq = arrived
    BY <1>2, Zenon DEF SubInv, FromQueue
  <2>2. ASSUME NEW t \in Subs, NEW q, q = sub[t], q.alive
        PROVE  ToldByQueue(q)'
    <3>1. ToldByQueue(q) /\ q.cursor \in Nat
      BY <2>2, SubKnown, Zenon DEF SubInv, FromQueue
    <3>2. CASE UNCHANGED messages
      BY <3>1, <3>2, Zenon DEF ToldByQueue, TakenLast
    <3>3. CASE messages' # <<>> /\ messages'[Len(messages')].seq = next_seq
      <4>1. messages # <<>> /\ q.cursor <= messages[Len(messages)].seq => q.cursor <= next_seq
        <5>1. messages # <<>> => Len(messages) \in DOMAIN messages /\ messages[Len(messages)] \in Queued
          BY <1>3 DEF QueueTyped
        <5>2. messages # <<>> => messages[Len(messages)].seq < next_seq /\ messages[Len(messages)].seq \in Nat
          BY <1>3, <5>1, Zenon DEF Numbered, Queued
        <5>3. \A n \in Nat : n < next_seq /\ q.cursor <= n => q.cursor <= next_seq
          BY <1>3, <3>1
        <5> QED BY <5>2, <5>3, Zenon
      <4> QED BY <3>1, <3>3, <4>1, Zenon DEF ToldByQueue, TakenLast
    <3> QED BY <1>5, <3>2, <3>3, Zenon
  <2> QED BY <1>2, <2>1, <2>2, Zenon
<1> QED BY <1>5, <1>6, <1>8, <1>9, <1>10, Zenon DEF SubInv

\* A new cursor starts within the ring, and with TransientLocal not before the publisher
\* generation.
LEMMA StartsAt ==
  ASSUME RingTyped
  PROVE  /\ InitialSeq \in Nat /\ ~ Lost(InitialSeq) /\ (Latched => epoch <= InitialSeq)
         /\ ring = <<>> => InitialSeq = 0
<1>1. /\ Len(ring) \in Nat /\ epoch \in 0..Len(ring) /\ RingDepth \in Nat \ {0}
      /\ Latched \in BOOLEAN
      /\ ring = <<>> => Len(ring) = 0
  BY SubscriptionAssumption DEF RingTyped
<1>2. CASE Latched
  <2>1. InitialSeq = max(oldest_available_seq, epoch)
    BY <1>2, Zenon DEF InitialSeq
  <2> QED BY <1>1, <2>1 DEF max, oldest_available_seq, write_index, Lost
<1>3. CASE ~ Latched
  <2>1. InitialSeq = Len(ring)
    BY <1>3, Zenon DEF InitialSeq, write_index
  <2>2. Len(ring) \in Nat /\ ~ (Len(ring) - Len(ring) > RingDepth)
    BY <1>1
  <2> QED BY <1>1, <1>3, <2>1, <2>2, Zenon DEF Lost
<1> QED BY <1>2, <1>3, Zenon

\* What create_subscription stores is a subscription that has taken nothing.
LEMMA FreshRecord ==
  ASSUME RingTyped, arrived \in Nat
  PROVE  Fresh([NoSub EXCEPT !.alive = TRUE, !.cursor = InitialSeq, !.local0 = InitialSeq,
                             !.remote0 = arrived, !.epoch0 = epoch])
<1>1. InitialSeq \in Nat
  BY StartsAt, Zenon
<1>2. epoch \in Nat
  BY DEF RingTyped
<1>3. NoSub \in Records /\ NoSub.take = Idle /\ NoSub.got = <<>>
  <2>1. <<>> \in Seq(Messages) /\ 0 \in Nat
    OBVIOUS
  <2> QED BY <2>1, IdleTyped, Zenon DEF NoSub, Records
<1> QED BY <1>1, <1>2, <1>3, Zenon DEF Fresh, Records

\* Creating the queue with the first subscription keeps the numbering: nothing has
\* arrived before.
LEMMA QueueOpens ==
  ASSUME QueueTyped, Numbered, RingTyped, UNCHANGED <<messages, arrived>>,
         \/ next_seq = NoQueue /\ next_seq' = InitialSeq /\ keep_all' \in KeepAlls
         \/ next_seq # NoQueue /\ UNCHANGED <<next_seq, keep_all>>
  PROVE  QueueTyped' /\ Numbered' /\ \A id, seq : OfQueue(id, seq) => OfQueue(id, seq)'
<1>1. CASE next_seq # NoQueue /\ UNCHANGED <<next_seq, keep_all>>
  BY <1>1, Zenon DEF QueueTyped, Numbered, OfQueue
<1>2. CASE next_seq = NoQueue /\ next_seq' = InitialSeq /\ keep_all' \in KeepAlls
  <2>1. InitialSeq \in Nat
    BY StartsAt, Zenon
  <2>2. next_seq' \in Nat /\ next_seq' # NoQueue
    BY <1>2, <2>1 DEF NoQueue
  <2>3. messages = <<>> /\ arrived = 0
    BY <1>2, Zenon DEF Numbered
  <2>4. DOMAIN messages' = {} /\ messages' = <<>>
    BY <2>3
  <2>5. Numbered'
    BY <2>2, <2>4, Zenon DEF Numbered
  <2>6. QueueTyped'
    BY <1>2, <2>2, SubscriptionAssumption, Zenon DEF QueueTyped
  <2> QED BY <1>2, <2>5, <2>6, Zenon DEF OfQueue
<1> QED BY <1>1, <1>2, Zenon

\* create_subscription keeps the invariant.
LEMMA CreateKeeps ==
  ASSUME SubInv, NEW s \in Subs, Create(s)
  PROVE  SubInv'
<1>1. RingTyped /\ QueueTyped /\ Numbered /\ SubsTyped /\ arrived \in Nat
  BY SubKnown, Zenon DEF QueueTyped
<1>2. PICK r : /\ r = [NoSub EXCEPT !.alive = TRUE, !.cursor = InitialSeq, !.local0 = InitialSeq,
                                    !.remote0 = arrived, !.epoch0 = epoch]
               /\ Fresh(r)
  BY <1>1, FreshRecord, Zenon
<1>3. /\ sub' = [sub EXCEPT ![s] = r] /\ ~ sub[s].alive
      /\ \/ next_seq = NoQueue /\ next_seq' = InitialSeq /\ keep_all' \in KeepAlls
         \/ next_seq # NoQueue /\ UNCHANGED <<next_seq, keep_all>>
      /\ UNCHANGED <<ring, read_index, epoch, messages, arrived, expired, refused>>
  BY <1>2, Zenon DEF Create
<1>4. /\ r \in Records /\ r.alive /\ r.take = Idle /\ r.got = <<>>
      /\ r.cursor = InitialSeq /\ r.local0 = InitialSeq /\ r.epoch0 = epoch
  BY <1>2, Zenon DEF Fresh
<1>5. SubsTyped' /\ sub'[s] = r /\ \A t \in Subs : t # s => sub'[t] = sub[t]
  BY <1>1, <1>3, <1>4, SubPut, Zenon
<1>6. QueueTyped' /\ Numbered' /\ \A id, seq : OfQueue(id, seq) => OfQueue(id, seq)'
  BY <1>1, <1>3, QueueOpens, Zenon
<1>7. RingTyped' /\ RestTyped' /\ Unborn'
  BY <1>3, <1>4, <1>5, Zenon DEF SubInv, RingTyped, RestTyped, Unborn
<1>8. /\ InitialSeq \in Nat /\ ~ Lost(InitialSeq) /\ (Latched => epoch <= InitialSeq)
      /\ ring = <<>> => InitialSeq = 0
  BY <1>1, StartsAt, Zenon
<1>9. Takings'
  <2> SUFFICES ASSUME NEW t \in Subs, NEW q, q = sub'[t], q.alive
               PROVE  Ahead(q)' /\ Behind(q)' /\ Ordered(q)' /\ Skipping(q.cursor, q.take)'
    BY TakingsThen, Zenon
  <2>1. CASE t = s
    <3>1. Idle.pc = "idle" /\ Idle.widx = 0
      BY IdleTyped, Zenon
    <3>2. 0 <= Len(ring) /\ InitialSeq <= InitialSeq /\ DOMAIN r.got = {}
      BY <1>1, <1>4, <1>8 DEF RingTyped
    <3>3. Ahead(q)'
      BY <1>3, <1>4, <1>5, <1>8, <2>1, <3>1, <3>2, Zenon DEF Ahead, Aims
    <3>4. Behind(q)' /\ Ordered(q)'
      BY <1>5, <2>1, <3>2, Zenon DEF Behind, Ordered
    <3>5. Skipping(q.cursor, q.take)'
      BY <1>4, <1>5, <2>1, <3>1, Zenon DEF Skipping
    <3> QED BY <3>3, <3>4, <3>5, Zenon
  <2>2. CASE t # s
    <3>1. q = sub[t]
      BY <1>5, <2>2, Zenon
    <3>2. Ahead(q) /\ Behind(q) /\ Ordered(q) /\ Skipping(q.cursor, q.take)
      BY <3>1, SubKnown, Zenon
    <3>3. Ahead(q)'
      BY <1>3, <1>6, <3>2, Zenon DEF Ahead, Aims
    <3>4. Behind(q)'
      BY <1>6, <3>2, Zenon DEF Behind
    <3>5. Ordered(q)' /\ Skipping(q.cursor, q.take)'
      BY <1>3, <3>2, Zenon DEF Ordered, Skipping, Lost, Written, InWindow, write_index
    <3> QED BY <3>3, <3>4, <3>5, Zenon
  <2> QED BY <2>1, <2>2, Zenon
<1>10. FromRing'
  <2> SUFFICES ASSUME arrived = 0, NEW t \in Subs, NEW q, q = sub'[t], q.alive
               PROVE  ToldByRing(q)' /\ (Alone(t)' => Reread(q.cursor, q.take)')
    BY <1>3, Zenon
       DEF FromRing, ToldByRing, TakenLast, Reread, Lost, Written, InWindow, write_index
  <2>1. CASE t = s
    BY <1>3, <1>4, <1>5, <1>8, <2>1, Zenon DEF ToldByRing, Reread, Lost
  <2>2. CASE t # s
    <3>1. ~ Alone(t)'
      BY <1>4, <1>5, <2>2, Zenon DEF Alone
    <3>2. ToldByRing(q)
      BY <1>5, <2>2, SubKnown, Zenon
    <3> QED BY <1>3, <3>1, <3>2, Zenon DEF ToldByRing, TakenLast
  <2> QED BY <2>1, <2>2, Zenon
<1>11. FromQueue'
  <2> SUFFICES ASSUME ring = <<>>
               PROVE  /\ next_seq' \in {NoQueue, arrived}
                      /\ \A t \in Subs : \A q : q = sub'[t] /\ q.alive => ToldByQueue(q)'
    BY <1>3, Zenon DEF FromQueue, ToldByQueue, TakenLast, NoQueue
  <2>1. next_seq' \in {NoQueue, arrived}
    BY <1>1, <1>3, <1>8, Zenon DEF SubInv, FromQueue, Numbered
  <2>2. ASSUME NEW t \in Subs, NEW q, q = sub'[t], q.alive
        PROVE  ToldByQueue(q)'
    <3>1. CASE t = s
      BY <1>4, <1>5, <1>8, <2>2, <3>1, Zenon DEF ToldByQueue
    <3>2. CASE t # s
      <4>1. ToldByQueue(q)
        BY <1>5, <2>2, <3>2, Zenon DEF SubInv, FromQueue
      <4> QED BY <1>3, <4>1, Zenon DEF ToldByQueue, TakenLast
    <3> QED BY <3>1, <3>2, Zenon
  <2> QED BY <2>1, <2>2, Zenon
<1> QED BY <1>5, <1>6, <1>7, <1>9, <1>10, <1>11, Zenon DEF SubInv

\* The invariant holds before the first subscription.
LEMMA InitKeeps == Init => SubInv
<1> SUFFICES ASSUME Init
             PROVE  SubInv
  BY Zenon
<1>1. NoSub \in Records /\ ~ NoSub.alive /\ NoSub.take.pc = "idle" /\ NoSub.got = <<>>
  <2>1. <<>> \in Seq(Messages) /\ 0 \in Nat
    OBVIOUS
  <2> QED BY <2>1, IdleTyped, Zenon DEF NoSub, Records
<1>2. SubsTyped /\ \A s \in Subs : sub[s] = NoSub
  BY <1>1, Zenon DEF Init, SubsTyped
<1>3. RingTyped
  BY DEF Init, RingTyped
<1>4. /\ messages \in Seq(Queued) /\ Len(messages) <= QueueDepth /\ DOMAIN messages = {}
      /\ messages = <<>>
      /\ arrived = 0 /\ arrived \in Nat /\ keep_all \in BOOLEAN
  <2>1. messages = <<>> /\ arrived = 0 /\ keep_all = FALSE
    BY Zenon DEF Init
  <2>2. QueueDepth \in Nat
    BY SubscriptionAssumption
  <2>3. <<>> \in Seq(Queued) /\ Len(<<>>) <= QueueDepth /\ DOMAIN <<>> = {} /\ 0 \in Nat
    BY <2>2
  <2> QED BY <2>1, <2>3, Zenon
<1>5. QueueTyped /\ Numbered
  BY <1>4, Zenon DEF Init, QueueTyped, Numbered
<1>6. RestTyped
  BY Zenon DEF Init, RestTyped
<1>7. Takings /\ Unborn /\ FromRing /\ FromQueue
  BY <1>1, <1>2, Zenon DEF Init, Takings, Unborn, FromRing, FromQueue
<1> QED BY <1>2, <1>3, <1>5, <1>6, <1>7, Zenon DEF SubInv

\* Every step keeps the invariant.
LEMMA NextKeeps == SubInv /\ [Next]_vars => SubInv'
<1> SUFFICES ASSUME SubInv, [Next]_vars
             PROVE  SubInv'
  BY Zenon
<1>1. ASSUME NEW size \in Sizes, Reserve(size)
      PROVE  SubInv'
  BY <1>1, ReserveKeeps, Zenon
<1>2. ASSUME NEW i \in DOMAIN ring, Finish(i) \/ Die(i)
      PROVE  SubInv'
  <2>1. CASE Finish(i)
    BY <2>1, SlotKeeps, Zenon DEF Finish
  <2>2. CASE Die(i)
    BY <2>2, SlotKeeps, Zenon DEF Die
  <2> QED BY <1>2, <2>1, <2>2, Zenon
<1>3. CASE MarkGeneration
  BY <1>3, MarkKeeps, Zenon
<1>4. ASSUME NEW size \in Sizes, NEW packed \in BOOLEAN, Push(size, packed)
      PROVE  SubInv'
  BY <1>4, PushKeeps, Zenon
<1>5. ASSUME NEW src \in {"ring", "queue"}, NEW n \in Nat, NEW id \in 0 .. n - 1, Expire(src, id)
      PROVE  SubInv'
  <2>1. id \in Nat
    OBVIOUS
  <2> QED BY <1>5, <2>1, ExpireKeeps, Zenon
<1>6. write_index \in Nat /\ arrived \in Nat
  BY DEF write_index, SubInv, RingTyped, QueueTyped
<1>7. ASSUME NEW s \in Subs, Create(s)
      PROVE  SubInv'
  BY <1>7, CreateKeeps, Zenon
<1>8. ASSUME NEW s \in Subs, TakeStep(s)
      PROVE  SubInv'
  BY <1>8, CheckAvailableKeeps, PeekQueueKeeps, ReadQueueKeeps, LoadWriteIndexKeeps,
     LoadOldestKeeps,
     ReadRingKeeps, RetryKeeps, CheckLifespanKeeps, PeekNextKeeps, Zenon DEF TakeStep
<1>9. CASE UNCHANGED vars
  <2>1. /\ RingTyped' /\ RestTyped'
        /\ UNCHANGED <<ring, read_index, messages, keep_all, next_seq, arrived, sub>>
    BY <1>9, Zenon DEF vars, SubInv, RingTyped, RestTyped
  <2> QED BY <2>1, MarkExpireKeeps, Zenon
<1> QED BY <1>1, <1>2, <1>3, <1>4, <1>5, <1>6, <1>7, <1>8, <1>9, Zenon DEF Next

\* The invariant of the subscriptions always holds, for any number of them, any depth of
\* the ring and of the queue, and any interleaving of writers, the QUIC receiver and the
\* takes.
THEOREM SubInvariant == Spec => []SubInv
BY InitKeeps, NextKeeps, PTL DEF Spec

\* Every subscription takes the messages of a source in order and none twice, whatever
\* receive_next skips, retries or fails at.
THEOREM InOrderOnceHolds == Spec => []InOrderOnce
<1>1. SubInv => InOrderOnce
  <2> SUFFICES ASSUME SubInv, NEW s \in Subs
               PROVE  Ordered(sub[s])
    BY Zenon DEF InOrderOnce, Ordered
  <2>1. CASE sub[s].alive
    BY <2>1, SubKnown, Zenon
  <2>2. CASE ~ sub[s].alive
    <3>1. sub[s].got = <<>>
      BY <2>2, Zenon DEF SubInv, Unborn
    <3>2. DOMAIN sub[s].got = {}
      BY <3>1
    <3> QED BY <3>2, Zenon DEF Ordered
  <2> QED BY <2>1, <2>2, Zenon
<1> QED BY <1>1, SubInvariant, PTL

\* receive_next passes over a message that was written when it began only if the ring has
\* overwritten it since.
THEOREM SkipOnlyLostHolds == Spec => []SkipOnlyLost
<1>1. SubInv => SkipOnlyLost
  <2> SUFFICES ASSUME SubInv, NEW s \in Subs, Skips(s), sub[s].take.had
               PROVE  ~ InWindow(sub[s].cursor)
    BY Zenon DEF SkipOnlyLost
  <2>1. /\ sub[s].alive /\ sub[s].take.pc = "lifespan" /\ sub[s].take.found.src = "ring"
        /\ sub[s].take.actual > sub[s].cursor
    BY Zenon DEF Skips, At
  <2>2. /\ sub[s].cursor \in Nat /\ sub[s].take.actual \in Nat
        /\ Skipping(sub[s].cursor, sub[s].take) /\ RingTyped
    BY <2>1, SubKnown, Zenon
  <2>3. sub[s].take.actual # sub[s].cursor
    BY <2>1, <2>2
  <2>4. Lost(sub[s].cursor)
    BY <2>1, <2>2, <2>3, Zenon DEF Skipping
  <2> QED BY <2>2, <2>4, SubscriptionAssumption DEF Lost, InWindow, write_index, RingTyped
<1> QED BY <1>1, SubInvariant, PTL

\* A TransientLocal subscription takes no message of an earlier publisher generation
\* (create_subscription starts at the epoch).
THEOREM NoEarlierGenerationHolds == Spec => []NoEarlierGeneration
<1>1. SubInv => NoEarlierGeneration
  <2> SUFFICES ASSUME SubInv, Latched, NEW s \in Subs, NEW q \in Taken(s, "ring")
               PROVE  q >= sub[s].epoch0
    BY Zenon DEF NoEarlierGeneration
  <2>1. PICK i \in DOMAIN sub[s].got : sub[s].got[i].src = "ring" /\ q = sub[s].got[i].id
    BY Zenon DEF Taken
  <2>2. sub[s].alive
    <3>1. sub[s].got # <<>>
      BY <2>1
    <3> QED BY <3>1, Zenon DEF SubInv, Unborn
  <2>3. q \in sub[s].local0..(sub[s].cursor - 1) /\ sub[s].epoch0 <= sub[s].local0
    <3>1. "ring" # "queue"
      OBVIOUS
    <3> QED BY <2>1, <2>2, <3>1, SubKnown, Zenon DEF Behind, Ahead
  <2>4. sub[s].local0 \in Nat /\ sub[s].epoch0 \in Nat /\ sub[s].cursor \in Nat
    BY SubKnown, Zenon DEF Records
  <2> QED BY <2>3, <2>4
<1> QED BY <1>1, SubInvariant, PTL

\* If messages came over the ring only, data_available_from of the ring announces an
\* unread one to an idle subscription that was not overtaken or is alone.
LEMMA RingToldAvailable ==
  ASSUME SubInv, NEW s \in Subs, sub[s].alive, sub[s].take.pc = "idle", ~ Overtaken(s),
         arrived = 0,
         NEW q \in sub[s].local0 .. write_index - 1, \A t \in Taken(s, "ring") : t < q
  PROVE  RingAvailable(sub[s].cursor)
<1> DEFINE c == sub[s].cursor
<1>1. /\ c \in Nat /\ sub[s].local0 \in Nat /\ ToldByRing(sub[s]) /\ RingTyped
      /\ Alone(s) => Reread(c, sub[s].take)
  BY SubKnown, Zenon
<1>2. Len(ring) \in Nat /\ read_index \in 0..Len(ring) /\ RingDepth \in Nat
  BY <1>1, SubscriptionAssumption DEF RingTyped
<1>3. q \in Nat /\ sub[s].local0 <= q /\ q < Len(ring)
  BY <1>1, <1>2 DEF write_index
<1>4. c < Len(ring)
  <2>1. CASE c = sub[s].local0
    BY <1>1, <1>2, <1>3, <2>1
  <2>2. CASE TakenLast(sub[s], "ring")
    <3>1. c - 1 \in Taken(s, "ring")
      BY <2>2, Zenon DEF TakenLast, Taken
    <3>2. c - 1 < q
      BY <3>1, Zenon
    <3> QED BY <1>1, <1>2, <1>3, <3>2
  <2> QED BY <1>1, <2>1, <2>2, Zenon DEF ToldByRing
<1>5. CASE InWindow(c)
  BY <1>4, <1>5, Zenon DEF RingAvailable, write_index
<1>6. CASE ~ InWindow(c)
  <2>1. Lost(c)
    BY <1>1, <1>2, <1>4, <1>6 DEF InWindow, write_index, Lost
  <2>2. Alone(s)
    BY <2>1, Zenon DEF Overtaken, Lost, write_index, Alone
  <2>3. read_index < Len(ring)
    BY <1>1, <2>1, <2>2, Zenon DEF Reread
  <2>4. Len(ring) > read_index
    BY <1>2, <2>3
  <2> QED BY <1>4, <2>4, Zenon DEF RingAvailable, write_index
<1> QED BY <1>5, <1>6, Zenon

\* A message of the queue has arrived, and its number is at most that of the newest.
LEMMA QueueEntry ==
  ASSUME QueueTyped, Numbered, NEW i \in DOMAIN messages
  PROVE  /\ messages # <<>> /\ messages[i].id < arrived /\ messages[i].id \in Nat
         /\ messages[i].seq \in Nat
         /\ messages[i].seq <= Newest /\ Newest \in Nat /\ next_seq # NoQueue
         /\ messages[i].id - arrived = messages[i].seq - next_seq
<1>1. /\ messages # <<>> /\ Len(messages) \in DOMAIN messages /\ 1 \in DOMAIN messages
      /\ i \in 1..Len(messages)
      /\ messages[i] \in Queued /\ messages[Len(messages)] \in Queued /\ messages[1] \in Queued
      /\ arrived \in Nat /\ next_seq \in Nat \cup {NoQueue} /\ Len(messages) \in Nat
  BY DEF QueueTyped
<1>2. /\ messages[i].id \in Nat /\ messages[i].seq \in Nat /\ messages[1].seq \in Nat
      /\ messages[Len(messages)].seq \in Nat
  BY <1>1, Zenon DEF Queued
<1>3. /\ messages[i].seq = messages[1].seq + (i - 1)
      /\ messages[Len(messages)].seq = messages[1].seq + (Len(messages) - 1)
      /\ messages[i].id - arrived = messages[i].seq - next_seq
      /\ messages[i].seq < next_seq
  BY <1>1, Zenon DEF Numbered
<1>4. next_seq # NoQueue /\ next_seq \in Nat
  BY <1>1, <1>2, <1>3 DEF NoQueue
<1>5. \A x, y, n, m \in Nat : x - n = y - m /\ y < m => x < n
  OBVIOUS
<1>6. messages[i].id < arrived
  BY <1>1, <1>2, <1>3, <1>4, <1>5, Zenon
<1>7. messages[i].seq <= messages[Len(messages)].seq
  <2>1. \A x, n \in Nat : \A k \in 1..n : x + (k - 1) <= x + (n - 1)
    OBVIOUS
  <2> QED BY <1>1, <1>2, <1>3, <2>1, Zenon
<1> QED BY <1>1, <1>2, <1>3, <1>4, <1>6, <1>7, Zenon DEF Newest

\* If messages came over QUIC only, data_available_from of the queue announces an unread
\* one.
LEMMA QueueToldAvailable ==
  ASSUME SubInv, NEW s \in Subs, sub[s].alive, ring = <<>>,
         NEW i \in DOMAIN messages, \A t \in Taken(s, "queue") : t < messages[i].id
  PROVE  QueueAvailable(sub[s].cursor)
<1> DEFINE c == sub[s].cursor
<1>1. c \in Nat /\ QueueTyped /\ Numbered /\ arrived \in Nat
  BY SubKnown, Zenon DEF QueueTyped
<1>2. /\ messages # <<>> /\ messages[i].id \in Nat /\ messages[i].seq \in Nat
      /\ messages[i].seq <= Newest /\ Newest \in Nat /\ next_seq # NoQueue
      /\ messages[i].id - arrived = messages[i].seq - next_seq
  BY <1>1, QueueEntry, Zenon
<1>3. next_seq = arrived /\ ToldByQueue(sub[s])
  BY <1>2, Zenon DEF SubInv, FromQueue
<1>4. messages[i].id = messages[i].seq
  <2>1. messages[i].id - arrived = messages[i].seq - arrived
    BY <1>2, <1>3, Zenon
  <2> QED BY <1>1, <1>2, <2>1
<1>5. c <= Newest
  <2>1. CASE c = 0
    BY <1>2, <2>1
  <2>2. CASE messages # <<>> /\ c <= messages[Len(messages)].seq
    BY <2>2, Zenon DEF Newest
  <2>3. CASE TakenLast(sub[s], "queue")
    <3>1. c - 1 \in Taken(s, "queue")
      BY <2>3, Zenon DEF TakenLast, Taken
    <3>2. c - 1 < messages[i].id
      BY <3>1, Zenon
    <3> QED BY <1>1, <1>2, <1>4, <3>2
  <2> QED BY <1>3, <2>1, <2>2, <2>3, Zenon DEF ToldByQueue
<1> QED BY <1>2, <1>5, Zenon DEF QueueAvailable

\* A message that a subscription has not taken and that is still there is announced by
\* data_available_from between two takes, unless both sources have had messages or the
\* ring has overtaken the cursor while others read it.
THEOREM UnreadIsAvailableUnlessMixedHolds == Spec => []UnreadIsAvailableUnlessMixed
<1>1. SubInv => UnreadIsAvailableUnlessMixed
  <2> SUFFICES ASSUME SubInv, ~ (ring # <<>> /\ arrived > 0),
                      NEW s \in Subs, At(s, "idle"), HasUnread(s), ~ Overtaken(s)
               PROVE  Available(s)
    BY Zenon DEF UnreadIsAvailableUnlessMixed
  <2>1. sub[s].alive /\ sub[s].take.pc = "idle"
    BY Zenon DEF At
  <2>2. RingTyped /\ QueueTyped /\ Numbered
    BY SubKnown, Zenon
  <2>3. ring = <<>> \/ arrived = 0
    BY <2>2 DEF QueueTyped
  <2>4. ASSUME NEW q \in sub[s].local0 .. write_index - 1, \A t \in Taken(s, "ring") : t < q
        PROVE  Available(s)
    <3>1. ring # <<>>
      <4>1. sub[s].local0 \in Nat
        BY SubKnown, Zenon
      <4> QED BY <4>1 DEF write_index
    <3> QED BY <2>1, <2>3, <2>4, <3>1, RingToldAvailable, Zenon DEF Available
  <2>5. ASSUME NEW i \in DOMAIN messages, \A t \in Taken(s, "queue") : t < messages[i].id
        PROVE  Available(s)
    <3>1. messages[i].id < arrived /\ messages[i].id \in Nat
      BY <2>2, QueueEntry, Zenon
    <3>2. arrived # 0
      BY <3>1
    <3> QED BY <2>1, <2>3, <2>5, <3>2, QueueToldAvailable, Zenon DEF Available
  <2> QED BY <2>4, <2>5, Zenon DEF HasUnread
<1> QED BY <1>1, SubInvariant, PTL

\* The variables have their types, and the SubscriberQueue never holds more than its
\* capacity.
THEOREM TypeCorrect == Spec => []TypeOK
<1>1. SubInv => TypeOK
  <2> SUFFICES ASSUME SubInv
               PROVE  TypeOK
    BY Zenon
  <2>1. RingTyped /\ QueueTyped /\ RestTyped /\ SubsTyped
    BY Zenon DEF SubInv
  <2>2. read_index \in Nat /\ epoch \in Nat
    BY <2>1 DEF RingTyped
  <2>3. ASSUME NEW s \in Subs
        PROVE  /\ sub[s].alive \in BOOLEAN
               /\ {sub[s].cursor, sub[s].local0, sub[s].remote0, sub[s].epoch0} \subseteq Nat
               /\ sub[s].got \in Seq(Messages)
               /\ sub[s].take.actual \in Nat
               /\ sub[s].take.retries \in 0 .. MaxRetries
               /\ sub[s].take.found \in Messages \cup {NoMessage}
    BY SubKnown, Zenon DEF Records
  <2> QED BY <2>1, <2>2, <2>3, Zenon DEF TypeOK, RingTyped, QueueTyped, RestTyped, Slots, Queued
<1> QED BY <1>1, SubInvariant, PTL

=============================================================================
