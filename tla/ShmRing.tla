------------------------------ MODULE ShmRing ------------------------------
(***************************************************************************)
(* The shared-memory ring of axon_core/src/local.rs, one step per access   *)
(* to the shared mapping.                                                  *)
(*                                                                         *)
(* The mapping holds a header (write_index, read_index) and N slots, each  *)
(* with a sequence marker, a length and a payload.  Any number of          *)
(* processes map it: Writers run RingBuffer::write, Readers run            *)
(* RingBuffer::read, read_without_consuming or data_available_from.        *)
(* Nothing but single atomic loads, stores and read-modify-writes orders   *)
(* them, so every such access is an action and the payload is copied one   *)
(* chunk at a time, in any order.                                          *)
(*                                                                         *)
(* A payload is abstracted to the identity of its message: every chunk of  *)
(* message m holds m, so a buffer whose chunks differ is a torn read.      *)
(* Memory is sequentially consistent.                                      *)
(***************************************************************************)
EXTENDS Integers, FiniteSets

CONSTANTS
  N,        \* slot_count
  SlotCap,  \* payload capacity of a slot, in chunks
  Lens,     \* lengths of the messages that are written, in chunks
  Caps,     \* lengths of the buffers that readers pass, in chunks
  Writers,
  Readers,
  MaxSeq    \* bound on the number of reservations

ASSUME RingAssumption ==
  /\ N \in Nat \ {0}
  /\ SlotCap \in Nat
  /\ Lens \subseteq Nat
  /\ Caps \subseteq Nat
  /\ MaxSeq \in Nat

VARIABLES
  write_index, read_index,      \* the header
  slotSeq, slotLen, slotData,   \* the slots
  wr,                           \* each writer's locals
  rd,                           \* each reader's locals and last result
  log,                          \* history: messages whose marker was stored
  lapped                        \* history: was a busy writer lapped?

memory == <<write_index, read_index, slotSeq, slotLen, slotData>>
vars == <<memory, wr, rd, log, lapped>>

----------------------------------------------------------------------------
Slots  == 0 .. N - 1
Chunks == 1 .. SlotCap
SlotOf(seq) == seq % N

\* u64::MAX, the marker of a slot that is being written.
Writing == -1

\* What a freshly mapped, zeroed payload holds: no message.
Blank == [seq |-> -1, len |-> 0]
Messages == [seq : Nat, len : 0 .. SlotCap]

\* Two threads' reservations collide when the later one is N or more ahead.
Busy(w) == wr[w].pc # "idle"
Laps(w, reserved) == Busy(w) /\ reserved - wr[w].msg.seq > N

Ops == {"read", "peek", "probe"}
Errors == {"no data", "overwritten", "not yet written", "too small"}
Results == Errors \cup {"none", "ok", "ready", "not ready"}

IdleWriter == [pc |-> "idle", msg |-> Blank, ridx |-> 0, left |-> {}]
IdleReader ==
  [pc |-> "idle", op |-> "read", seq |-> 0, cap |-> 0, seen |-> {},
   widx |-> 0, left |-> {}, len |-> 0,
   buf |-> [k \in Chunks |-> Blank], res |-> "none"]

\* The ring as create_with_fd leaves it: indices and slots are zero.
Init ==
  /\ write_index = 0
  /\ read_index = 0
  /\ slotSeq  = [i \in Slots |-> 0]
  /\ slotLen  = [i \in Slots |-> 0]
  /\ slotData = [i \in Slots |-> [k \in Chunks |-> Blank]]
  /\ wr = [w \in Writers |-> IdleWriter]
  /\ rd = [r \in Readers |-> IdleReader]
  /\ log = {}
  /\ lapped = FALSE

----------------------------------------------------------------------------
(* RingBuffer::write *)

\* The size check and write_index.fetch_add.
Reserve(w, len) ==
  /\ wr[w].pc = "idle"
  /\ write_index < MaxSeq
  /\ len <= SlotCap
  /\ write_index' = write_index + 1
  /\ wr' = [wr EXCEPT ![w] =
              [pc |-> "load", msg |-> [seq |-> write_index, len |-> len],
               ridx |-> 0, left |-> {}]]
  /\ lapped' = (lapped \/ \E v \in Writers : Laps(v, write_index + 1))
  /\ UNCHANGED <<read_index, slotSeq, slotLen, slotData, rd, log>>

\* read_index.load; the checked_sub that decides whether readers lag.
LoadReadIndex(w) ==
  /\ wr[w].pc = "load"
  /\ wr' = [wr EXCEPT
              ![w].ridx = read_index,
              ![w].pc = IF wr[w].msg.seq - read_index >= N
                        THEN "cas" ELSE "invalidate"]
  /\ UNCHANGED <<memory, rd, log, lapped>>

\* read_index.compare_exchange(read_idx, write_idx - (slot_count - 1)).
AdvanceReadIndex(w) ==
  /\ wr[w].pc = "cas"
  /\ read_index' = IF read_index = wr[w].ridx
                   THEN wr[w].msg.seq - (N - 1) ELSE read_index
  /\ wr' = [wr EXCEPT ![w].pc = "invalidate"]
  /\ UNCHANGED <<write_index, slotSeq, slotLen, slotData, rd, log, lapped>>

Invalidate_NoStore(w) ==
  /\ wr[w].pc = "invalidate"
  /\ wr' = [wr EXCEPT ![w].pc = "clear"]
  /\ UNCHANGED <<memory, rd, log, lapped>>

\* seq_atomic.store(u64::MAX).
Invalidate(w) ==
  /\ wr[w].pc = "invalidate"
  /\ slotSeq' = [slotSeq EXCEPT ![SlotOf(wr[w].msg.seq)] = Writing]
  /\ wr' = [wr EXCEPT ![w].pc = "clear"]
  /\ UNCHANGED <<write_index, read_index, slotLen, slotData, rd, log, lapped>>

\* len_atomic.store(0).
ClearLen(w) ==
  /\ wr[w].pc = "clear"
  /\ slotLen' = [slotLen EXCEPT ![SlotOf(wr[w].msg.seq)] = 0]
  /\ wr' = [wr EXCEPT ![w].pc = "copy", ![w].left = 1 .. wr[w].msg.len]
  /\ UNCHANGED <<write_index, read_index, slotSeq, slotData, rd, log, lapped>>

\* One chunk of copy_nonoverlapping into the slot.
CopyIn(w, k) ==
  /\ wr[w].pc = "copy"
  /\ k \in wr[w].left
  /\ slotData' = [slotData EXCEPT ![SlotOf(wr[w].msg.seq)][k] = wr[w].msg]
  /\ wr' = [wr EXCEPT ![w].left = @ \ {k}]
  /\ UNCHANGED <<write_index, read_index, slotSeq, slotLen, rd, log, lapped>>

StoreLen_Forgotten(w) ==
  /\ wr[w].pc = "copy"
  /\ wr[w].left = {}
  /\ wr' = [wr EXCEPT ![w].pc = "publish"]
  /\ UNCHANGED <<memory, rd, log, lapped>>

\* len_atomic.store(data.len()).
StoreLen(w) ==
  /\ wr[w].pc = "copy"
  /\ wr[w].left = {}
  /\ slotLen' = [slotLen EXCEPT ![SlotOf(wr[w].msg.seq)] = wr[w].msg.len]
  /\ wr' = [wr EXCEPT ![w].pc = "publish"]
  /\ UNCHANGED <<write_index, read_index, slotSeq, slotData, rd, log, lapped>>

\* seq_atomic.store(write_idx): the message is readable from here on.
Publish(w) ==
  /\ wr[w].pc = "publish"
  /\ slotSeq' = [slotSeq EXCEPT ![SlotOf(wr[w].msg.seq)] = wr[w].msg.seq]
  /\ wr' = [wr EXCEPT ![w] = IdleWriter]
  /\ log' = log \cup {wr[w].msg}
  /\ UNCHANGED <<write_index, read_index, slotLen, slotData, rd, lapped>>

\* The writing process is killed between two steps.  The mapping outlives
\* it, and the publisher that replaces it opens the same mapping.
Crash(w) ==
  /\ Busy(w)
  /\ wr' = [wr EXCEPT ![w] = IdleWriter]
  /\ UNCHANGED <<memory, rd, log, lapped>>

----------------------------------------------------------------------------
(* RingBuffer::read, read_without_consuming and data_available_from, which *)
(* share the checks of read_slot and slot_data_size.                       *)

\* The reader's locals once its operation has returned.
Return(r, result) ==
  [rd[r] EXCEPT !.pc = "idle", !.res = result, !.left = {}, !.widx = 0]

\* An early return of read_slot, or of slot_data_size: data_available_from
\* goes on to its fallback.
Fail(r, error) ==
  IF rd[r].op = "probe"
  THEN [rd[r] EXCEPT !.pc = IF error = "not yet written"
                            THEN "unwritten" ELSE "behind"]
  ELSE Return(r, error)

\* The call, with its arguments.  seen records, for the properties, which
\* messages at or after seq were in the ring before the call.  (A length of
\* 0 is the code's sign of an unwritten slot: an empty message is never seen.)
Begin(r, op, seq, cap) ==
  /\ rd[r].pc = "idle"
  /\ rd' = [rd EXCEPT ![r] =
              [IdleReader EXCEPT !.pc = "index", !.op = op, !.seq = seq,
                 !.cap = cap,
                 !.seen = {m \in log : m.seq >= seq /\ m.len > 0}]]
  /\ UNCHANGED <<memory, wr, log, lapped>>

\* write_index.load and the two range checks.
LoadWriteIndex(r) ==
  /\ rd[r].pc = "index"
  /\ rd' = [rd EXCEPT ![r] =
              CASE rd[r].seq >= write_index    -> Fail(r, "no data")
                [] write_index - rd[r].seq > N -> Fail(r, "overwritten")
                [] OTHER                       -> [@ EXCEPT !.pc = "seq"]]
  /\ UNCHANGED <<memory, wr, log, lapped>>

\* The first seq_atomic.load.
LoadSeq(r) ==
  /\ rd[r].pc = "seq"
  /\ rd' = [rd EXCEPT ![r] =
              IF slotSeq[SlotOf(rd[r].seq)] # rd[r].seq
              THEN Fail(r, "not yet written")
              ELSE [@ EXCEPT !.pc = "len"]]
  /\ UNCHANGED <<memory, wr, log, lapped>>

\* len_atomic.load and the checks on it.
LoadLen(r) ==
  LET n == slotLen[SlotOf(rd[r].seq)]
  IN /\ rd[r].pc = "len"
     /\ rd' = [rd EXCEPT ![r] =
                 CASE n = 0              -> Fail(r, "not yet written")
                   [] n # 0 /\ rd[r].op = "probe" -> Return(r, "ready")
                   [] n > rd[r].cap /\ rd[r].op # "probe" ->
                                            Return(r, "too small")
                   [] OTHER -> [@ EXCEPT !.pc = "copy", !.len = n,
                                         !.left = 1 .. n]]
     /\ UNCHANGED <<memory, wr, log, lapped>>

\* One chunk of copy_nonoverlapping out of the slot.
CopyOut(r, k) ==
  /\ rd[r].pc = "copy"
  /\ k \in rd[r].left
  /\ rd' = [rd EXCEPT ![r].left = @ \ {k},
                      ![r].buf[k] = slotData[SlotOf(rd[r].seq)][k]]
  /\ UNCHANGED <<memory, wr, log, lapped>>

Recheck_Trusting(r) ==
  /\ rd[r].pc = "copy"
  /\ rd[r].left = {}
  /\ rd' = [rd EXCEPT ![r] = IF rd[r].op = "peek" THEN Return(r, "ok")
                             ELSE [@ EXCEPT !.pc = "load"]]
  /\ UNCHANGED <<memory, wr, log, lapped>>

\* The second seq_atomic.load.
Recheck(r) ==
  /\ rd[r].pc = "copy"
  /\ rd[r].left = {}
  /\ rd' = [rd EXCEPT ![r] =
              CASE slotSeq[SlotOf(rd[r].seq)] # rd[r].seq ->
                     Return(r, "overwritten")
                [] slotSeq[SlotOf(rd[r].seq)] = rd[r].seq
                     /\ rd[r].op = "peek" -> Return(r, "ok")
                [] OTHER -> [@ EXCEPT !.pc = "load"]]
  /\ UNCHANGED <<memory, wr, log, lapped>>

\* read: read_index.load and the comparison with the sequence.
LoadWatermark(r) ==
  /\ rd[r].pc = "load"
  /\ rd' = [rd EXCEPT ![r] = IF rd[r].seq >= read_index
                             THEN [@ EXCEPT !.pc = "store"]
                             ELSE Return(r, "ok")]
  /\ UNCHANGED <<memory, wr, log, lapped>>

\* read: read_index.store(sequence_number + 1).
StoreWatermark(r) ==
  /\ rd[r].pc = "store"
  /\ read_index' = rd[r].seq + 1
  /\ rd' = [rd EXCEPT ![r] = Return(r, "ok")]
  /\ UNCHANGED <<write_index, slotSeq, slotLen, slotData, wr, log, lapped>>

\* data_available_from on "slot not yet written": ready if it was reserved.
ProbeUnwritten(r) ==
  /\ rd[r].pc = "unwritten"
  /\ rd' = [rd EXCEPT ![r] = Return(r, IF rd[r].seq < write_index
                                       THEN "ready" ELSE "not ready")]
  /\ UNCHANGED <<memory, wr, log, lapped>>

\* data_available_from on the other errors: write_index.load ...
ProbeWriteIndex(r) ==
  /\ rd[r].pc = "behind"
  /\ rd' = [rd EXCEPT ![r].pc = "compare", ![r].widx = write_index]
  /\ UNCHANGED <<memory, wr, log, lapped>>

\* ... and read_index.load.
ProbeReadIndex(r) ==
  /\ rd[r].pc = "compare"
  /\ rd' = [rd EXCEPT ![r] =
              Return(r, IF rd[r].seq < rd[r].widx /\ rd[r].widx > read_index
                        THEN "ready" ELSE "not ready")]
  /\ UNCHANGED <<memory, wr, log, lapped>>

----------------------------------------------------------------------------
WriterStep(w) ==
  \/ \E len \in Lens : Reserve(w, len)
  \/ LoadReadIndex(w)
  \/ AdvanceReadIndex(w)
  \/ Invalidate(w)
  \/ ClearLen(w)
  \/ \E k \in Chunks : CopyIn(w, k)
  \/ StoreLen(w)
  \/ Publish(w)
  \/ Crash(w)

ReaderStep(r) ==
  \/ \E op \in Ops, seq \in 0 .. MaxSeq, cap \in Caps : Begin(r, op, seq, cap)
  \/ LoadWriteIndex(r)
  \/ LoadSeq(r)
  \/ LoadLen(r)
  \/ \E k \in Chunks : CopyOut(r, k)
  \/ Recheck(r)
  \/ LoadWatermark(r)
  \/ StoreWatermark(r)
  \/ ProbeUnwritten(r)
  \/ ProbeWriteIndex(r)
  \/ ProbeReadIndex(r)

Next ==
  \/ \E w \in Writers : WriterStep(w)
  \/ \E r \in Readers : ReaderStep(r)

Spec == Init /\ [][Next]_vars

----------------------------------------------------------------------------
WriterPcs == {"idle", "load", "cas", "invalidate", "clear", "copy", "publish"}
ReaderPcs == {"idle", "index", "seq", "len", "copy", "load", "store",
              "unwritten", "behind", "compare"}

WriterLocals ==
  [pc : WriterPcs, msg : Messages \cup {Blank}, ridx : Nat,
   left : SUBSET Chunks]
ReaderLocals ==
  [pc : ReaderPcs, op : Ops, seq : Nat, cap : Nat, seen : SUBSET Messages,
   widx : Nat, left : SUBSET Chunks, len : 0 .. SlotCap,
   buf : [Chunks -> Messages \cup {Blank}], res : Results]

\* Type invariant: the shape of the shared mapping and of the locals.
TypeOK ==
  /\ write_index \in Nat
  /\ read_index \in Nat
  /\ slotSeq \in [Slots -> Nat \cup {Writing}]
  /\ slotLen \in [Slots -> 0 .. SlotCap]
  /\ slotData \in [Slots -> [Chunks -> Messages \cup {Blank}]]
  /\ wr \in [Writers -> WriterLocals]
  /\ \A w \in Writers :
       /\ Busy(w) => wr[w].msg \in Messages
       /\ wr[w].pc = "cas" => wr[w].msg.seq - wr[w].ridx >= N
  /\ rd \in [Readers -> ReaderLocals]
  /\ log \subseteq Messages
  /\ lapped \in BOOLEAN

\* A read that returned "ok" (RingBuffer::read, read_slot) delivered one
\* message, whole: all chunks are those of a message that some writer
\* finished, stored under the sequence number the reader asked for.  It holds of
\* one writer; two that write the same slot at a time can break it.
NoTornRead ==
  \A r \in Readers :
    rd[r].res = "ok" =>
      \E m \in log : /\ m.seq = rd[r].seq
                     /\ m.len = rd[r].len
                     /\ \A k \in 1 .. m.len : rd[r].buf[k] = m

\* The use the comment on RingBuffer describes: one thread writes.
SingleProducer == \A v, w \in Writers : v = w

\* With several producers, read can deliver a torn message only after some
\* writer was lapped: N further slots were reserved while it was in write.
TornOnlyIfLapped == lapped \/ NoTornRead

\* The slot i holds all of message m.
Holds(i, m) ==
  /\ slotLen[i] = m.len
  /\ \A k \in 1 .. m.len : slotData[i][k] = m

\* The ring retains the last N messages: while fewer than N slots have been
\* reserved after a finished message, its slot holds its marker, its length
\* and all its chunks, whatever the other writers do or wherever they die.
Retention ==
  lapped \/ \A m \in log :
    write_index - m.seq <= N =>
      slotSeq[SlotOf(m.seq)] = m.seq /\ Holds(SlotOf(m.seq), m)

\* The message a call was about, if it was in the ring before the call, is
\* still one of the last N.
StillThere(r) ==
  /\ \E m \in rd[r].seen : m.seq = rd[r].seq
  /\ write_index - rd[r].seq <= N

\* read and read_without_consuming fail only for a reason: a message that was
\* there before the call and is still among the last N is never missed.
ReadFindsRetained ==
  lapped \/ \A r \in Readers :
    rd[r].res \in {"no data", "overwritten", "not yet written"}
      => ~StillThere(r)

\* data_available_from never calls a cursor idle whose message was there
\* before the call and is still among the last N.
ProbeFindsRetained ==
  lapped \/ \A r \in Readers : rd[r].res = "not ready" => ~StillThere(r)

\* The ring keeps its last N messages whole, and who looks for one of them finds it:
\* neither a read nor data_available_from misses a message that was there before
\* the call and is still among them, although they look at write_index, the marker
\* and the length one after the other.
RetainedIsFound == Retention /\ ReadFindsRetained /\ ProbeFindsRetained

\* What the comment on data_available_from promises: it is also true for a
\* cursor that fell behind while the ring still holds newer messages.  It does
\* not hold: it looks at one slot, whose stamp is then that of a later message.
ProbeFindsNewer ==
  \A r \in Readers :
    rd[r].res = "not ready" =>
      \A m \in rd[r].seen : write_index - m.seq > N

\* What the comment in write and its test ask for: read_index never moves
\* backwards, so consumed slots are not exposed again.  write keeps to it, its
\* compare_exchange fails then; read does not: it stores after a load, and another
\* process may have moved read_index further in between.
ReadIndexMonotone == [][read_index' >= read_index]_read_index

----------------------------------------------------------------------------
(* The inductive invariant behind the properties above. *)

\* Sequence numbers are handed out once: two busy writers, a busy writer and
\* a finished message, or two finished messages never share one.
NumbersDistinct ==
  /\ \A w \in Writers : Busy(w) => wr[w].msg.seq < write_index
  /\ \A v, w \in Writers :
       Busy(v) /\ Busy(w) /\ v # w => wr[v].msg.seq # wr[w].msg.seq
  /\ \A m \in log : m.seq < write_index
  /\ \A m \in log, w \in Writers : Busy(w) => m.seq # wr[w].msg.seq
  /\ \A m, o \in log : m.seq = o.seq => m = o

\* Until a writer is lapped, busy writers are within N of each other, hence
\* in different slots.
WithinWindow ==
  lapped \/ \A w \in Writers : Busy(w) => write_index - wr[w].msg.seq <= N

\* What a busy writer has done to its slot so far.  A slot that was never
\* written has marker 0 as well: the zero length keeps readers away from it.
SlotOfWriter(w) ==
  LET m == wr[w].msg
      i == SlotOf(m.seq)
  IN /\ wr[w].pc \in {"clear", "copy", "publish"} => slotSeq[i] = Writing
     /\ wr[w].pc = "copy" =>
          /\ slotLen[i] = 0
          /\ \A k \in 1 .. m.len : k \in wr[w].left \/ slotData[i][k] = m
     /\ wr[w].pc = "publish" => Holds(i, m)
     /\ wr[w].pc \in {"load", "cas", "invalidate", "clear"} /\ m.seq = 0
          => slotLen[i] = 0

\* A marker other than Writing means that the slot holds the message of that
\* number, or that it was never written.
MarkedSlot(i) ==
  \/ slotSeq[i] = Writing
  \/ \E m \in log : slotSeq[i] = m.seq /\ i = SlotOf(m.seq) /\ Holds(i, m)
  \/ /\ slotSeq[i] = 0
     /\ slotLen[i] = 0
     /\ i = SlotOf(0) => \A m \in log : m.seq # 0

SlotsInv ==
  lapped \/ /\ \A w \in Writers : Busy(w) => SlotOfWriter(w)
            /\ \A i \in Slots : MarkedSlot(i)
            /\ Retention
            /\ write_index = 0 => \A i \in Slots : slotLen[i] = 0

\* The chunks that reader r has copied so far are those of m.
Copied(r, m) ==
  /\ m.seq = rd[r].seq
  /\ m.len = rd[r].len
  /\ \A k \in 1 .. m.len : k \in rd[r].left \/ rd[r].buf[k] = m

\* If the second check of the marker is going to succeed, what the reader has
\* copied so far is part of the message it asked for: of the one in the slot,
\* or of the one whose writer only has its marker left to store.
ReaderInv(r) ==
  /\ rd[r].seen \subseteq log
  /\ \A m \in rd[r].seen : m.len > 0
  /\ rd[r].pc # "idle" => rd[r].res = "none"
  /\ rd[r].pc \in {"seq", "len", "copy"} => rd[r].seq < write_index
  /\ rd[r].pc = "len" =>
       rd[r].seq = 0 \/ \E m \in log : m.seq = rd[r].seq
  /\ rd[r].pc = "copy" =>
       /\ rd[r].len > 0
       /\ slotSeq[SlotOf(rd[r].seq)] = rd[r].seq => \E m \in log : Copied(r, m)
       /\ \A w \in Writers :
            Busy(w) /\ wr[w].msg.seq = rd[r].seq
              => wr[w].pc = "publish" /\ Copied(r, wr[w].msg)
  /\ rd[r].pc \in {"load", "store"} \/ rd[r].res = "ok"
       => rd[r].left = {} /\ \E m \in log : Copied(r, m)
  /\ rd[r].pc \in {"unwritten", "behind", "compare"}
       \/ rd[r].res \in {"no data", "overwritten", "not yet written",
                         "not ready"}
       => ~StillThere(r)

ReadersInv == lapped \/ \A r \in Readers : ReaderInv(r)

IInv == TypeOK /\ NumbersDistinct /\ WithinWindow /\ SlotsInv /\ ReadersInv

============================================================================
