---------------------------- MODULE Subscription ----------------------------
(***************************************************************************)
(* How the subscriptions of one session take the messages of one topic:    *)
(* rmw_take, axon_session_take_next and Session::receive_next over the two  *)
(* sources of a topic,                                                     *)
(*   - the shared-memory ring, which the publishers of this host write     *)
(*     (LocalPubSub), and                                                  *)
(*   - the SubscriberQueue, which the QUIC receiver of this session fills  *)
(*     with the messages of other hosts.                                   *)
(* Each subscription has one cursor, next_seq, for both.                   *)
(*                                                                         *)
(* Operations of the ring are atomic here; ShmRing models their steps.  A  *)
(* write still takes two steps, because a slot is reserved before it is    *)
(* filled.  Time is abstract: a message expires at any moment.             *)
(***************************************************************************)
EXTENDS Integers, Sequences, FiniteSets

CONSTANTS
  RingDepth,    \* slot_count of the ring
  QueueDepth,   \* capacity of the SubscriberQueue
  KeepAlls,     \* may the history policy of a subscription be KeepAll?
  Latched,      \* is the durability of the subscriptions TransientLocal?
  Compatible,   \* are the local endpoints' QoS profiles compatible?
  Lifespan,     \* does the QoS profile set a lifespan?
  Subs,         \* subscriptions
  MaxWriters,   \* bound on concurrent writes to the ring
  MaxCrashes,   \* bound on writers that die while they write
  MaxLocal,     \* bound on the messages written to the ring
  MaxRemote,    \* bound on the messages received over QUIC
  Sizes,        \* sizes of messages
  FirstCap      \* size of the buffer that rmw_take starts with

ASSUME SubscriptionAssumption ==
  /\ {RingDepth, QueueDepth, MaxWriters, FirstCap} \subseteq Nat \ {0}
  /\ {MaxCrashes, MaxLocal, MaxRemote} \subseteq Nat
  /\ KeepAlls \subseteq BOOLEAN
  /\ {Latched, Compatible, Lifespan} \subseteq BOOLEAN
  /\ Sizes \subseteq Nat \ {0}

VARIABLES
  ring,       \* every message written to the ring: its size and its state
  read_index, \* the consumer watermark of the ring
  epoch,      \* the publisher generation, RingBufferHeader::epoch
  messages,   \* SubscriberQueue::messages
  keep_all,   \* SubscriberQueue::keep_all
  next_seq,   \* SubscriberQueue::next_seq; NoQueue before it is created
  arrived,    \* history: the number of messages received over QUIC
  expired,    \* the messages whose lifespan has passed
  refused,    \* history: was a push refused that nobody would have missed?
  sub         \* each subscription: cursor, rmw_take in progress, history

vars == <<ring, read_index, epoch, messages, keep_all, next_seq, arrived,
          expired, refused, sub>>

----------------------------------------------------------------------------
NoQueue == -1
MaxRetries == 4   \* of receive_next

max(a, b) == IF a >= b THEN a ELSE b

NoMessage == [src |-> "none", id |-> 0, size |-> 0, len |-> 0]

\* No rmw_take is in progress.  The fields of a take: where it is, the size of
\* its buffer, the write index it loaded, the sequence number it tries, its
\* retries, whether the message at the cursor was there when it began (had,
\* history only) and the message it found.
Idle == [pc |-> "idle", cap |-> FirstCap, widx |-> 0, actual |-> 0,
         retries |-> 0, had |-> FALSE, found |-> NoMessage]

NoSub == [alive |-> FALSE, cursor |-> 0, local0 |-> 0, remote0 |-> 0,
          epoch0 |-> 0, take |-> Idle, got |-> <<>>]

Init ==
  /\ ring = <<>>
  /\ read_index = 0
  /\ epoch = 0
  /\ messages = <<>>
  /\ keep_all = FALSE
  /\ next_seq = NoQueue
  /\ arrived = 0
  /\ expired = {}
  /\ refused = FALSE
  /\ sub = [s \in Subs |-> NoSub]

----------------------------------------------------------------------------
(* The ring, operation by operation *)

write_index == Len(ring)
oldest_OffByOne == max(write_index - RingDepth + 1, 0)
oldest_available_seq == max(write_index - RingDepth, 0)
InWindow(q) == q < write_index /\ write_index - q <= RingDepth
Written(q) == InWindow(q) /\ ring[q + 1].state = "written"

InState(state) == {i \in DOMAIN ring : ring[i].state = state}

\* RingBuffer::write up to the marker: the slot is reserved, the watermark
\* follows if readers lag.  A writer that is lapped is outside this model.
Reserve(size) ==
  /\ write_index < MaxLocal
  /\ Cardinality(InState("writing")) < MaxWriters
  /\ \A i \in DOMAIN ring :
       ring[i].state = "writing" => write_index - (i - 1) < RingDepth
  /\ ring' = Append(ring, [size |-> size, state |-> "writing"])
  /\ read_index' = IF write_index - read_index >= RingDepth
                   THEN write_index - (RingDepth - 1) ELSE read_index
  /\ UNCHANGED <<epoch, messages, keep_all, next_seq, arrived, expired, refused,
                 sub>>

\* The final store of the marker.
Finish(i) ==
  /\ ring[i].state = "writing"
  /\ ring' = [ring EXCEPT ![i].state = "written"]
  /\ UNCHANGED <<read_index, epoch, messages, keep_all, next_seq, arrived,
                 expired, refused, sub>>

\* The writing process dies before it.
Die(i) ==
  /\ ring[i].state = "writing"
  /\ Cardinality(InState("dead")) < MaxCrashes
  /\ ring' = [ring EXCEPT ![i].state = "dead"]
  /\ UNCHANGED <<read_index, epoch, messages, keep_all, next_seq, arrived,
                 expired, refused, sub>>

\* What slot_data_size and read_slot can find.  A slot that is reused while
\* they look at it may be found unwritten as well as overwritten.
Lookup(q) ==
  CASE q >= write_index                -> {"no data"}
    [] write_index - q > RingDepth     -> {"overwritten", "not yet written"}
    [] InWindow(q) /\ ~Written(q)      -> {"not yet written"}
    [] OTHER                           -> {"ok"}

RingAvailable_NoFallback(q) == InWindow(q)
RingAvailable_Inclusive(q) ==
  /\ q <= write_index
  /\ InWindow(q) \/ write_index >= read_index

\* RingBuffer::data_available_from.
RingAvailable(q) ==
  /\ q < write_index
  /\ InWindow(q) \/ write_index > read_index

\* create_publisher by the first publisher of some session: mark_generation.
MarkGeneration ==
  /\ epoch # write_index
  /\ epoch' = write_index
  /\ UNCHANGED <<ring, read_index, messages, keep_all, next_seq, arrived,
                 expired, refused, sub>>

----------------------------------------------------------------------------
(* The SubscriberQueue *)

Oldest == Head(messages).seq
Newest == messages[Len(messages)].seq

\* Bytes in the queue: a prefix of one byte, or a compressed payload.
StoredSize(m) == IF m.packed THEN 1 ELSE m.size + 1

Resolve_Clamped(seq) ==
  IF messages = <<>> THEN {}
  ELSE LET actual == IF seq < Oldest \/ seq > Newest THEN Newest ELSE seq
       IN {[seq |-> actual, msg |-> messages[actual - Oldest + 1]] :
             i \in {j \in {actual - Oldest} : j < Len(messages)}}

\* The message that read_at and peek_prefix resolve a cursor to: none, or the
\* sequence number they report and the entry they use.
Resolve(seq) ==
  IF messages = <<>> \/ seq > Newest THEN {}
  ELSE LET actual == IF seq < Oldest THEN Newest ELSE seq
           offset == actual - Oldest
       IN IF offset < Len(messages)
          THEN {[seq |-> actual, msg |-> messages[offset + 1]]} ELSE {}

QueueAvailable_OffByOne(seq) == messages # <<>> /\ seq < Newest

\* SubscriberQueue::data_available_from (an empty queue was never active).
QueueAvailable(seq) == messages # <<>> /\ seq <= Newest

\* Has s still to see the newest message of the queue?
Unread(s) == sub[s].alive /\ QueueAvailable(sub[s].cursor)

\* A full KeepLast queue loses its oldest message.
MakeRoom == Tail(messages)

\* The QUIC receiver task: queue.push.
Push(size, packed) ==
  LET m == [seq |-> next_seq, id |-> arrived, size |-> size, packed |-> packed]
      full == Len(messages) >= QueueDepth
  IN /\ next_seq # NoQueue
     /\ arrived < MaxRemote
     /\ arrived' = arrived + 1
     /\ next_seq' = next_seq + 1
     /\ \/ /\ full /\ keep_all
           /\ refused' = (refused \/ ~\E s \in Subs : Unread(s))
           /\ UNCHANGED messages
        \/ /\ ~(full /\ keep_all)
           /\ messages' = Append(IF full THEN MakeRoom ELSE messages, m)
           /\ UNCHANGED refused
     /\ UNCHANGED <<ring, read_index, epoch, keep_all, expired, sub>>

\* The lifespan of a message passes.
Expire(src, id) ==
  /\ Lifespan
  /\ expired' = expired \cup {<<src, id>>}
  /\ expired' # expired
  /\ UNCHANGED <<ring, read_index, epoch, messages, keep_all, next_seq, arrived,
                 refused, sub>>

----------------------------------------------------------------------------
(* create_subscription *)

InitialSeq_NoEpoch == IF Latched THEN oldest_available_seq ELSE write_index

\* Where the cursor of a new subscription starts.
InitialSeq == IF Latched THEN max(oldest_available_seq, epoch) ELSE write_index

\* The first subscription creates the queue and registers the receiver.
Create(s) ==
  /\ ~sub[s].alive
  /\ sub' = [sub EXCEPT ![s] = [NoSub EXCEPT !.alive = TRUE,
                                             !.cursor = InitialSeq,
                                             !.local0 = InitialSeq,
                                             !.remote0 = arrived,
                                             !.epoch0 = epoch]]
  /\ \/ /\ next_seq = NoQueue
        /\ next_seq' = InitialSeq
        /\ keep_all' \in KeepAlls
     \/ next_seq # NoQueue /\ UNCHANGED <<next_seq, keep_all>>
  /\ UNCHANGED <<ring, read_index, epoch, messages, arrived, expired, refused>>

----------------------------------------------------------------------------
(* rmw_take, with axon_session_take_next and receive_next inlined *)

\* receive_next holds the lock on Session::subscriptions in its ring part.
Locked == {"oldest", "ring", "overwritten", "unwritten", "lifespan"}
LockFree == \A s \in Subs : sub[s].take.pc \notin Locked
                              \/ sub[s].take.found.src = "queue"

At(s, pc) == sub[s].alive /\ sub[s].take.pc = pc
Set(s, take) == sub' = [sub EXCEPT ![s].take = take]
Goto(s, pc) == sub' = [sub EXCEPT ![s].take.pc = pc]

Environment == <<ring, epoch, messages, keep_all, next_seq, arrived, expired,
                 refused>>

\* take_next returned -2: the cursor moves to seq, and rmw_take tries again
\* with a larger buffer if that is what was missing.
TooSmall(s, size, seq) ==
  sub' = [sub EXCEPT
            ![s].cursor = seq,
            ![s].take = IF size > sub[s].take.cap
                        THEN [Idle EXCEPT !.pc = "peek", !.cap = size]
                        ELSE Idle]

Available(s) == QueueAvailable(sub[s].cursor) \/ RingAvailable(sub[s].cursor)

\* axon_session_data_available, on entry and after a filtered message.
CheckAvailable(s) ==
  /\ At(s, "idle") \/ At(s, "filtered")
  /\ LockFree
  /\ \/ Available(s) /\ Goto(s, "peek")
     \/ ~Available(s) /\ At(s, "filtered") /\ Set(s, Idle)
  /\ UNCHANGED <<Environment, read_index>>

\* peek_prefix, so that the buffer can be resized before anything is read.
PeekQueue(s) ==
  LET found == Resolve(sub[s].cursor)
  IN /\ At(s, "peek")
     /\ \/ \E f \in found : /\ f.msg.size > sub[s].take.cap
                            /\ TooSmall(s, f.msg.size, f.seq)
        \/ /\ \A f \in found : f.msg.size <= sub[s].take.cap
           /\ Goto(s, "read")
     /\ UNCHANGED <<Environment, read_index>>

\* read_at, and the truncating copy of the decompressed payload.
ReadQueue(s) ==
  LET found == Resolve(sub[s].cursor)
      cap == sub[s].take.cap
      min(a, b) == IF a <= b THEN a ELSE b
  IN /\ At(s, "read")
     /\ \/ \E f \in found : /\ StoredSize(f.msg) > cap
                            /\ TooSmall(s, StoredSize(f.msg), f.seq)
        \/ \E f \in found :
             /\ StoredSize(f.msg) <= cap
             /\ Set(s, [sub[s].take EXCEPT
                          !.pc = "lifespan", !.actual = f.seq,
                          !.found = [src |-> "queue", id |-> f.msg.id,
                                     size |-> f.msg.size,
                                     len |-> min(f.msg.size, cap)]])
        \/ found = {} /\ Goto(s, "load")
     /\ UNCHANGED <<Environment, read_index>>

\* current_seq, under the lock.
LoadWriteIndex(s) ==
  /\ At(s, "load")
  /\ LockFree
  /\ Set(s, [sub[s].take EXCEPT !.pc = "oldest", !.widx = write_index,
                                !.had = Written(sub[s].cursor)])
  /\ UNCHANGED <<Environment, read_index>>

\* oldest_available_seq, and the checks before the ring is read.
LoadOldest(s) ==
  LET cursor == sub[s].cursor
      widx == sub[s].take.widx
  IN /\ At(s, "oldest")
     /\ \/ (cursor >= widx \/ ~Compatible) /\ Goto(s, "fail")
        \/ /\ cursor < widx /\ Compatible
           /\ Set(s, [sub[s].take EXCEPT
                        !.pc = "ring",
                        !.actual = IF cursor >= oldest_available_seq
                                   THEN cursor ELSE widx - 1])
     /\ UNCHANGED <<Environment, read_index>>

\* RingBuffer::read: one turn of the retry loop.
ReadRing(s) ==
  LET q == sub[s].take.actual
      retry == sub[s].take.retries < MaxRetries
  IN /\ At(s, "ring")
     /\ \E result \in Lookup(q) :
          \/ /\ result = "ok"
             /\ ring[q + 1].size <= sub[s].take.cap
             /\ read_index' = IF q >= read_index THEN q + 1 ELSE read_index
             /\ Set(s, [sub[s].take EXCEPT
                          !.pc = "lifespan",
                          !.found = [src |-> "ring", id |-> q,
                                     size |-> ring[q + 1].size,
                                     len |-> ring[q + 1].size]])
          \/ /\ result = "ok" /\ ring[q + 1].size > sub[s].take.cap
             /\ Goto(s, "fail")
             /\ UNCHANGED read_index
          \/ /\ result = "overwritten" /\ retry
             /\ Goto(s, "overwritten")
             /\ UNCHANGED read_index
          \/ /\ result = "not yet written" /\ retry
             /\ Goto(s, "unwritten")
             /\ UNCHANGED read_index
          \/ /\ result # "ok" /\ (result = "no data" \/ ~retry)
             /\ Goto(s, "fail")
             /\ UNCHANGED read_index
     /\ UNCHANGED Environment

\* The next turn tries the latest message, current_seq() - 1.
Retry(s) ==
  LET latest == write_index - 1
      take == sub[s].take
  IN /\ At(s, "overwritten") \/ At(s, "unwritten")
     /\ Set(s, IF take.pc = "overwritten" /\ latest = take.actual
               THEN [take EXCEPT !.pc = "fail"]
               ELSE [take EXCEPT !.pc = "ring", !.actual = max(@, latest),
                                 !.retries = @ + 1])
     /\ UNCHANGED <<Environment, read_index>>

\* Can the lifespan check reject f?  The timestamp of a message that is no
\* longer retained may have been removed.
Verdicts(f) ==
  IF ~Lifespan \/ <<f.src, f.id>> \notin expired THEN {"fresh"}
  ELSE IF \/ f.src = "ring" /\ InWindow(f.id)
          \/ f.src = "queue" /\ \E i \in DOMAIN messages : messages[i].id = f.id
       THEN {"expired"} ELSE {"fresh", "expired"}

\* The lifespan check.  A fresh message is the result of take_next; rmw_take
\* returns it, or goes on if it does not pass the content filter.
CheckLifespan(s) ==
  LET f == sub[s].take.found
  IN /\ At(s, "lifespan")
     /\ \/ "expired" \in Verdicts(f) /\ Goto(s, "fail")
        \/ /\ "fresh" \in Verdicts(f)
           /\ \E next \in {Idle, [Idle EXCEPT !.pc = "filtered",
                                              !.cap = sub[s].take.cap]} :
                sub' = [sub EXCEPT ![s].cursor = sub[s].take.actual + 1,
                                   ![s].got = Append(@, f),
                                   ![s].take = next]
     /\ UNCHANGED <<Environment, read_index>>

\* peek_next_message_size, after receive_next returned an error.
PeekNext(s) ==
  LET cursor == sub[s].cursor
      found == Resolve(cursor)
      latest == write_index - 1
      actual == IF cursor >= oldest_available_seq THEN cursor ELSE latest
  IN /\ At(s, "fail")
     /\ LockFree
     /\ \/ \E f \in found : TooSmall(s, f.msg.size, f.seq)
        \/ /\ found = {} /\ cursor < write_index /\ Written(actual)
           /\ TooSmall(s, ring[actual + 1].size, actual)
        \/ /\ found = {} /\ ~(cursor < write_index /\ Written(actual))
           /\ Set(s, Idle)
     /\ UNCHANGED <<Environment, read_index>>

TakeStep(s) ==
  \/ CheckAvailable(s) \/ PeekQueue(s) \/ ReadQueue(s) \/ LoadWriteIndex(s)
  \/ LoadOldest(s) \/ ReadRing(s) \/ Retry(s) \/ CheckLifespan(s)
  \/ PeekNext(s)

Next ==
  \/ \E size \in Sizes : Reserve(size)
  \/ \E i \in DOMAIN ring : Finish(i) \/ Die(i)
  \/ MarkGeneration
  \/ \E size \in Sizes, packed \in BOOLEAN : Push(size, packed)
  \/ \E id \in 0 .. write_index - 1 : Expire("ring", id)
  \/ \E id \in 0 .. arrived - 1 : Expire("queue", id)
  \/ \E s \in Subs : Create(s) \/ TakeStep(s)

Spec == Init /\ [][Next]_vars

\* A write that does not crash comes to its end, and an executor goes on taking
\* from a subscription that has something to take.
FairSpec ==
  /\ Spec
  /\ \A s \in Subs : WF_vars(TakeStep(s))
  /\ WF_vars(\E i \in DOMAIN ring : Finish(i))

----------------------------------------------------------------------------
(* Properties *)

Messages == [src : {"ring", "queue"}, id : Nat, size : Sizes, len : Nat]

\* The types of the variables; the queue never exceeds its capacity.
TypeOK ==
  /\ ring \in Seq([size : Sizes, state : {"writing", "written", "dead"}])
  /\ read_index \in Nat /\ epoch \in Nat /\ arrived \in Nat
  /\ next_seq \in Nat \cup {NoQueue} /\ keep_all \in BOOLEAN
  /\ messages \in Seq([seq : Nat, id : Nat, size : Sizes, packed : BOOLEAN])
  /\ Len(messages) <= QueueDepth
  /\ expired \subseteq ({"ring", "queue"} \X Nat)
  /\ refused \in BOOLEAN
  /\ \A s \in Subs :
       /\ sub[s].alive \in BOOLEAN
       /\ {sub[s].cursor, sub[s].local0, sub[s].remote0, sub[s].epoch0}
            \subseteq Nat
       /\ sub[s].got \in Seq(Messages)
       /\ sub[s].take.actual \in Nat
       /\ sub[s].take.retries \in 0 .. MaxRetries
       /\ sub[s].take.found \in Messages \cup {NoMessage}

\* The ids of the messages of a source that s took.
Taken(s, src) == {m.id : m \in {sub[s].got[i] :
                    i \in {j \in DOMAIN sub[s].got : sub[s].got[j].src = src}}}

\* Every subscription takes the messages of a source in the order in which they
\* were published and none of them twice, whatever happens to the ring and the
\* queue while receive_next skips, retries or fails (read_at: "Do not clamp it
\* back to `newest`: doing so re-delivers the last message").
InOrderOnce ==
  \A s \in Subs : \A i, j \in DOMAIN sub[s].got :
    i < j /\ sub[s].got[i].src = sub[s].got[j].src
      => sub[s].got[i].id < sub[s].got[j].id

\* A message came after the subscription, the ring or the queue still holds it,
\* and the subscription has neither taken nor passed it.
HasUnread(s) ==
  \/ \E q \in sub[s].local0 .. write_index - 1 :
       Written(q) /\ \A t \in Taken(s, "ring") : t < q
  \/ \E i \in DOMAIN messages :
       /\ messages[i].id >= sub[s].remote0
       /\ \A t \in Taken(s, "queue") : t < messages[i].id

\* The ring has overtaken the cursor of s, and s is not its only reader.
Overtaken(s) ==
  /\ write_index - sub[s].cursor > RingDepth
  /\ \E r \in Subs \ {s} : sub[r].alive

\* Such a message is announced between two takes: data_available_from answers
\* true for the cursor ("every subscription must observe the same sample
\* stream", SubscriberQueue::read_at).  It does not hold if messages come from
\* both sources, because the cursor numbers those of both; nor for a cursor that
\* was overtaken, if another reader has raised read_index past all messages.
UnreadIsAvailableUnlessMixed ==
  \/ ring # <<>> /\ arrived > 0
  \/ \A s \in Subs : At(s, "idle") /\ HasUnread(s) /\ ~Overtaken(s) => Available(s)

\* A take that has read message q of the ring while the cursor was behind it.
Skips(s) == /\ At(s, "lifespan") /\ sub[s].take.found.src = "ring"
            /\ sub[s].take.actual > sub[s].cursor

\* receive_next passes over a message that was there when it began only if the
\* ring has overwritten it since.
SkipOnlyLost == \A s \in Subs :
  Skips(s) /\ sub[s].take.had => ~InWindow(sub[s].cursor)

\* "If the consumer's requested sequence is still in the ring buffer, reads
\* from there" (receive_next): it passes over no message that the ring holds.
\* It does not hold: a retry that finds the slot unwritten goes to the newest.
ReadsRetained == \A s \in Subs : Skips(s) => ~Written(sub[s].cursor)

\* A latched subscription takes no message of an earlier publisher generation
\* ("a reused (orphaned) SHM segment may still hold the previous run's frames,
\* which must not resurface", create_subscription).
NoEarlierGeneration ==
  Latched => \A s \in Subs : \A q \in Taken(s, "ring") : q >= sub[s].epoch0

\* What take_next hands out is the whole message ("This prevents consuming a
\* message whose decompressed data would overflow the caller's buffer - the
\* caller can resize and retry", receive_next).  It does not hold: a push may
\* drop the message whose size was checked before another one is copied.
NoTruncation ==
  \A s \in Subs : \A i \in DOMAIN sub[s].got :
    sub[s].got[i].len = sub[s].got[i].size

\* The KeepAll queue refuses a message only while some subscription has not
\* caught up with it ("each subscription's next_seq is the cursor that
\* determines when it has consumed a sample", SubscriberQueue::read_at).  It does
\* not hold: read_at removes nothing, so a full queue stays full.
RefusedOnlyIfUnread == ~refused

\* A subscription catches up again and again with the messages of the ring and
\* of the queue: the retries, the resizing and the filter lose no wake-up.  Only
\* a writer that died keeps it, until its slot is overwritten.  With a lifespan it
\* does not hold: an expired message is not passed over.
CatchesUp ==
  \A s \in Subs :
    []<>(sub[s].alive => ~Available(s) \/ \E i \in InState("dead") : InWindow(i - 1))
=============================================================================
