--------------------------- MODULE ShmRingProofs ---------------------------
(***************************************************************************)
(* Proofs about the shared-memory ring, for every number of slots,         *)
(* writers, readers and messages: the inductive invariant IInv of ShmRing  *)
(* and what follows from it; and that the ring implements the log of       *)
(* TopicLog (ShmRingLog).  The initial state maps to an initial state, and *)
(* every step of write, read and data_available_from to an operation of    *)
(* the log or to a stutter, until a producer is lapped.                    *)
(*                                                                         *)
(* And about its segment, for every number of processes and faults:        *)
(* processes that call create_or_open meet in one segment unless the name  *)
(* has been unlinked while it was in use.  The property looks at the       *)
(* processes that have a ring.  It follows from what they use before: a    *)
(* process uses the segment that it builds, looks at or has mapped, and as *)
(* long as no exception has happened, all segments of use that anybody     *)
(* uses are the one the name stands for (OneInUse).  That a message stays  *)
(* there needs that nobody is about to zero the slots (Kept).              *)
(***************************************************************************)
EXTENDS ShmRingLog, RingSegment, TLAPS

----------------------------------------------------------------------------
(* Slots of sequence numbers *)

\* The slot index that write and read compute is an index of the ring.
LEMMA SlotInRange == \A seq \in Nat : SlotOf(seq) \in Slots
  BY RingAssumption DEF SlotOf, Slots

\* Sequence numbers less than N apart fall into different slots.
LEMMA SlotsDiffer ==
  ASSUME NEW a \in Nat, NEW b \in Nat, a # b, a - b < N, b - a < N
  PROVE  SlotOf(a) # SlotOf(b)
<1>1. ASSUME NEW x \in Nat, NEW y \in Nat, x < y, y - x < N
      PROVE  SlotOf(x) # SlotOf(y)
  <2>1. /\ x = N * (x \div N) + (x % N)
        /\ y = N * (y \div N) + (y % N)
    BY RingAssumption
  <2>2. x \div N \in Int /\ y \div N \in Int /\ x % N \in Int /\ y % N \in Int
    BY RingAssumption
  <2> SUFFICES ASSUME x % N = y % N PROVE FALSE
    BY Zenon DEF SlotOf
  <2> DEFINE q == (y \div N) - (x \div N)
  <2>3. y - x = N * (y \div N) - N * (x \div N)
    BY <2>1, <2>2, RingAssumption
  <2>4. q \in Int
    BY <2>2
  <2>5. y - x = N * q
    BY <2>2, <2>3, RingAssumption
  <2> HIDE DEF q
  <2>6. CASE q >= 1
    <3>1. N * q >= N
      BY <2>4, <2>6, RingAssumption
    <3> QED
      BY <1>1, <2>4, <2>5, <3>1, RingAssumption
  <2>7. CASE q <= 0
    <3>1. N * q <= 0
      BY <2>4, <2>7, RingAssumption
    <3> QED
      BY <1>1, <2>4, <2>5, <3>1, RingAssumption
  <2> QED
    BY <2>4, <2>6, <2>7
<1>2. CASE a < b
  BY <1>1, <1>2, Zenon
<1>3. CASE b < a
  BY <1>1, <1>3, Zenon
<1> QED
  BY <1>2, <1>3

----------------------------------------------------------------------------
(* Type correctness *)

USE DEF memory, Busy

\* The locals of a reader that has made no call are well-formed.
LEMMA IdleReaderType == IdleReader \in ReaderLocals
<1>1. [k \in Chunks |-> Blank] \in [Chunks -> Messages \cup {Blank}]
  BY Zenon
<1> QED
  BY <1>1, RingAssumption DEF IdleReader, ReaderLocals, ReaderPcs, Ops, Results

\* The locals that a returning or a failing call leaves are well-formed.
LEMMA ReturnType ==
  ASSUME TypeOK, NEW r \in Readers
  PROVE  /\ \A result \in Results : Return(r, result) \in ReaderLocals
         /\ \A error \in Errors : Fail(r, error) \in ReaderLocals
<1>1. rd[r] \in ReaderLocals
  BY Zenon DEF TypeOK
<1>2. ASSUME NEW result \in Results
      PROVE  Return(r, result) \in ReaderLocals
  BY <1>1, Zenon DEF Return, ReaderLocals, ReaderPcs
<1>3. ASSUME NEW error \in Errors, rd[r].op = "probe"
      PROVE  Fail(r, error) \in ReaderLocals
  <2> DEFINE pc == IF error = "not yet written" THEN "unwritten" ELSE "behind"
  <2>1. pc \in ReaderPcs
    BY Zenon DEF ReaderPcs
  <2>2. Fail(r, error) = [rd[r] EXCEPT !.pc = pc]
    BY <1>3, Zenon DEF Fail
  <2> HIDE DEF pc
  <2> QED
    BY <1>1, <2>1, <2>2, Zenon DEF ReaderLocals
<1>4. ASSUME NEW error \in Errors, rd[r].op # "probe"
      PROVE  Fail(r, error) \in ReaderLocals
  BY <1>2, <1>4, Zenon DEF Fail, Results
<1> QED
  BY <1>2, <1>3, <1>4, Zenon

\* A step of a reader preserves TypeOK if it leaves its locals well-formed.
LEMMA ReaderStepType ==
  ASSUME TypeOK, NEW r \in Readers, NEW X \in ReaderLocals,
         rd' = [rd EXCEPT ![r] = X], read_index' \in Nat,
         UNCHANGED <<write_index, slotSeq, slotLen, slotData, wr, log, lapped>>
  PROVE  TypeOK'
  BY Zenon DEF TypeOK

\* Locals stay well-formed when the caller moves on to another step.
LEMMA MoveOnType ==
  /\ \A x \in ReaderLocals, pc \in ReaderPcs :
       [x EXCEPT !.pc = pc] \in ReaderLocals
  /\ \A x \in WriterLocals, pc \in WriterPcs :
       /\ [x EXCEPT !.pc = pc] \in WriterLocals
       /\ [x EXCEPT !.pc = pc].pc = pc
       /\ [x EXCEPT !.pc = pc].msg = x.msg
  BY Zenon DEF ReaderLocals, WriterLocals

\* A step of a busy writer preserves TypeOK if what it stores is well-formed
\* and it goes on with its message.
LEMMA WriterStepType ==
  ASSUME TypeOK, NEW w \in Writers, Busy(w), NEW X \in WriterLocals,
         X.msg = wr[w].msg, X.pc # "cas",
         wr' = [wr EXCEPT ![w] = X], read_index' \in Nat,
         slotSeq' \in [Slots -> Nat \cup {Writing}],
         slotLen' \in [Slots -> 0 .. SlotCap],
         slotData' \in [Slots -> [Chunks -> Messages \cup {Blank}]],
         UNCHANGED <<write_index, rd, log, lapped>>
  PROVE  TypeOK'
  BY Zenon DEF TypeOK

\* The message of a busy writer, and the locals it has.
LEMMA BusyType ==
  ASSUME TypeOK, NEW w \in Writers, Busy(w)
  PROVE  /\ wr[w] \in WriterLocals
         /\ wr[w].msg \in Messages
         /\ wr[w].msg.seq \in Nat
         /\ wr[w].msg.len \in 0 .. SlotCap
         /\ SlotOf(wr[w].msg.seq) \in Slots
  BY SlotInRange, Zenon DEF TypeOK, Messages

\* TypeOK is inductive: every step of write, read and data_available_from
\* leaves the mapping and the locals well-formed.
LEMMA TypeInductive == TypeOK /\ [Next]_vars => TypeOK'
<1> SUFFICES ASSUME TypeOK, [Next]_vars
             PROVE  TypeOK'
  BY Zenon
<1> USE RingAssumption, SlotInRange DEF TypeOK
<1>1. ASSUME NEW w \in Writers, NEW len \in Lens, Reserve(w, len)
      PROVE  TypeOK'
  BY SMTT(20), <1>1 DEF Reserve, Messages, WriterLocals, WriterPcs
<1>2. ASSUME NEW w \in Writers, LoadReadIndex(w)
      PROVE  TypeOK'
  <2> DEFINE pc == IF wr[w].msg.seq - read_index >= N
                   THEN "cas" ELSE "invalidate"
  <2>0. pc \in WriterPcs
    BY Zenon DEF WriterPcs
  <2> HIDE DEF pc
  <2>1. wr' \in [Writers -> WriterLocals]
    BY <1>2, <2>0 DEF LoadReadIndex, WriterLocals, pc
  <2>2. ASSUME NEW v \in Writers
        PROVE  /\ Busy(v)' => wr'[v].msg \in Messages
               /\ wr'[v].pc = "cas" => wr'[v].msg.seq - wr'[v].ridx >= N
    BY <1>2 DEF LoadReadIndex, WriterLocals
  <2> QED
    BY <1>2, <2>1, <2>2, Zenon DEF LoadReadIndex
<1>3. ASSUME NEW w \in Writers, AdvanceReadIndex(w)
      PROVE  TypeOK'
  <2> DEFINE X == [wr[w] EXCEPT !.pc = "invalidate"]
  <2>1. /\ Busy(w) /\ wr' = [wr EXCEPT ![w] = X]
        /\ wr[w].msg.seq - wr[w].ridx >= N
        /\ UNCHANGED <<write_index, slotSeq, slotLen, slotData, rd, log, lapped>>
    BY <1>3, Zenon DEF AdvanceReadIndex
  <2>2. X \in WriterLocals /\ X.pc # "cas" /\ X.msg = wr[w].msg
    BY <2>1, BusyType, MoveOnType, Zenon DEF WriterPcs
  <2>3. wr[w].msg.seq \in Nat /\ wr[w].ridx \in Nat
    BY <2>1, BusyType, Zenon DEF WriterLocals
  <2>4. read_index' \in Nat
    BY <1>3, <2>1, <2>3 DEF AdvanceReadIndex
  <2> HIDE DEF X
  <2> QED
    BY <2>1, <2>2, <2>4, WriterStepType, Zenon
<1>4. ASSUME NEW w \in Writers, Invalidate(w)
      PROVE  TypeOK'
  <2> DEFINE X == [wr[w] EXCEPT !.pc = "clear"]
  <2>1. /\ Busy(w) /\ wr' = [wr EXCEPT ![w] = X]
        /\ UNCHANGED <<write_index, read_index, slotLen, slotData, rd, log, lapped>>
    BY <1>4, Zenon DEF Invalidate
  <2>2. X \in WriterLocals /\ X.pc # "cas" /\ X.msg = wr[w].msg
    BY <2>1, BusyType, MoveOnType, Zenon DEF WriterPcs
  <2>3. slotSeq' \in [Slots -> Nat \cup {Writing}]
    BY <1>4, Zenon DEF Invalidate
  <2> HIDE DEF X
  <2> QED
    BY <2>1, <2>2, <2>3, WriterStepType, Zenon
<1>5. ASSUME NEW w \in Writers, ClearLen(w)
      PROVE  TypeOK'
  <2> DEFINE X == [wr[w] EXCEPT !.pc = "copy", !.left = 1 .. wr[w].msg.len]
  <2>1. /\ Busy(w) /\ wr' = [wr EXCEPT ![w] = X]
        /\ UNCHANGED <<write_index, read_index, slotSeq, slotData, rd, log, lapped>>
    BY <1>5, Zenon DEF ClearLen
  <2>2. wr[w] \in WriterLocals /\ 1 .. wr[w].msg.len \in SUBSET Chunks
    <3>1. wr[w] \in WriterLocals /\ wr[w].msg.len \in 0 .. SlotCap
      BY <2>1, BusyType, Zenon
    <3> QED
      BY <3>1 DEF Chunks
  <2>3. X \in WriterLocals /\ X.pc # "cas" /\ X.msg = wr[w].msg
    BY <2>2, Zenon DEF WriterLocals, WriterPcs
  <2>4. slotLen' \in [Slots -> 0 .. SlotCap]
    <3>1. 0 \in 0 .. SlotCap
      OBVIOUS
    <3> QED
      BY <1>5, <3>1, Zenon DEF ClearLen
  <2> HIDE DEF X
  <2> QED
    BY <2>1, <2>3, <2>4, WriterStepType, Zenon
<1>6. ASSUME NEW w \in Writers, NEW k \in Chunks, CopyIn(w, k)
      PROVE  TypeOK'
  <2> DEFINE X == [wr[w] EXCEPT !.left = wr[w].left \ {k}]
  <2>1. /\ Busy(w) /\ wr[w].pc = "copy" /\ wr' = [wr EXCEPT ![w] = X]
        /\ UNCHANGED <<write_index, read_index, slotSeq, slotLen, rd, log, lapped>>
    BY <1>6, Zenon DEF CopyIn
  <2>2. X \in WriterLocals /\ X.pc # "cas" /\ X.msg = wr[w].msg
    BY <2>1, BusyType, Zenon DEF WriterLocals
  <2>3. slotData' \in [Slots -> [Chunks -> Messages \cup {Blank}]]
    BY <1>6, <2>1, BusyType, Zenon DEF CopyIn
  <2> HIDE DEF X
  <2> QED
    BY <2>1, <2>2, <2>3, WriterStepType, Zenon
<1>7. ASSUME NEW w \in Writers, StoreLen(w)
      PROVE  TypeOK'
  <2> DEFINE X == [wr[w] EXCEPT !.pc = "publish"]
  <2>1. /\ Busy(w) /\ wr' = [wr EXCEPT ![w] = X]
        /\ UNCHANGED <<write_index, read_index, slotSeq, slotData, rd, log, lapped>>
    BY <1>7, Zenon DEF StoreLen
  <2>2. X \in WriterLocals /\ X.pc # "cas" /\ X.msg = wr[w].msg
    BY <2>1, BusyType, MoveOnType, Zenon DEF WriterPcs
  <2>3. slotLen' \in [Slots -> 0 .. SlotCap]
    BY <1>7, <2>1, BusyType, Zenon DEF StoreLen
  <2> HIDE DEF X
  <2> QED
    BY <2>1, <2>2, <2>3, WriterStepType, Zenon
<1>8. ASSUME NEW w \in Writers, Publish(w)
      PROVE  TypeOK'
  BY <1>8, Zenon DEF Publish, IdleWriter, WriterLocals, WriterPcs, Messages
<1>9. ASSUME NEW w \in Writers, Crash(w)
      PROVE  TypeOK'
  BY <1>9, Zenon DEF Crash, IdleWriter, WriterLocals, WriterPcs
<1>10. ASSUME NEW r \in Readers, NEW op \in Ops, NEW seq \in 0 .. MaxSeq,
              NEW cap \in Caps, Begin(r, op, seq, cap)
       PROVE  TypeOK'
  <2> DEFINE seen == {m \in log : m.seq >= seq /\ m.len > 0}
             X == [IdleReader EXCEPT !.pc = "index", !.op = op, !.seq = seq,
                                     !.cap = cap, !.seen = seen]
  <2>1. seen \in SUBSET Messages /\ seq \in Nat /\ cap \in Nat
    OBVIOUS
  <2> HIDE DEF seen
  <2>3. X \in ReaderLocals
    BY <2>1, IdleReaderType, Zenon DEF ReaderLocals, ReaderPcs
  <2>4. rd' = [rd EXCEPT ![r] = X]
    BY <1>10, Zenon DEF Begin, seen
  <2> HIDE DEF X
  <2> QED
    BY <1>10, <2>3, <2>4, ReaderStepType, Zenon DEF Begin
<1>11. ASSUME NEW r \in Readers, LoadWriteIndex(r)
       PROVE  TypeOK'
  <2> DEFINE X == CASE rd[r].seq >= write_index    -> Fail(r, "no data")
                    [] write_index - rd[r].seq > N -> Fail(r, "overwritten")
                    [] OTHER -> [rd[r] EXCEPT !.pc = "seq"]
  <2>1. [rd[r] EXCEPT !.pc = "seq"] \in ReaderLocals
    BY MoveOnType, Zenon DEF ReaderPcs
  <2>2. X \in ReaderLocals
    BY <2>1, ReturnType, Zenon DEF Errors
  <2> QED
    BY <1>11, <2>2, ReaderStepType, Zenon DEF LoadWriteIndex
<1>12. ASSUME NEW r \in Readers, LoadSeq(r)
       PROVE  TypeOK'
  <2> DEFINE X == IF slotSeq[SlotOf(rd[r].seq)] # rd[r].seq
                  THEN Fail(r, "not yet written")
                  ELSE [rd[r] EXCEPT !.pc = "len"]
  <2>1. [rd[r] EXCEPT !.pc = "len"] \in ReaderLocals
    BY MoveOnType, Zenon DEF ReaderPcs
  <2>2. X \in ReaderLocals
    BY <2>1, ReturnType, Zenon DEF Errors
  <2> QED
    BY <1>12, <2>2, ReaderStepType, Zenon DEF LoadSeq
<1>13. ASSUME NEW r \in Readers, LoadLen(r)
       PROVE  TypeOK'
  <2> DEFINE n == slotLen[SlotOf(rd[r].seq)]
             Y == [rd[r] EXCEPT !.pc = "copy", !.len = n, !.left = 1 .. n]
             X == CASE n = 0 -> Fail(r, "not yet written")
                    [] n # 0 /\ rd[r].op = "probe" -> Return(r, "ready")
                    [] n > rd[r].cap /\ rd[r].op # "probe" ->
                         Return(r, "too small")
                    [] OTHER -> Y
  <2>1. rd[r] \in ReaderLocals /\ SlotOf(rd[r].seq) \in Slots
    BY Zenon DEF ReaderLocals
  <2>2. n \in 0 .. SlotCap
    BY <2>1, Zenon
  <2>3. 1 .. n \in SUBSET Chunks
    BY <2>2 DEF Chunks
  <2> HIDE DEF n
  <2>4. Y \in ReaderLocals
    BY <2>1, <2>2, <2>3, Zenon DEF ReaderLocals, ReaderPcs
  <2> HIDE DEF Y
  <2>5. X \in ReaderLocals
    BY <2>4, ReturnType, Zenon DEF Errors, Results
  <2>6. rd' = [rd EXCEPT ![r] = X]
    BY <1>13, Zenon DEF LoadLen, n, Y
  <2> QED
    BY <1>13, <2>5, <2>6, ReaderStepType, Zenon DEF LoadLen
<1>14. ASSUME NEW r \in Readers, NEW k \in Chunks, CopyOut(r, k)
       PROVE  TypeOK'
  <2> DEFINE c == slotData[SlotOf(rd[r].seq)][k]
             b == [rd[r].buf EXCEPT ![k] = c]
             X == [rd[r] EXCEPT !.left = rd[r].left \ {k}, !.buf = b]
  <2>1. rd[r] \in ReaderLocals /\ SlotOf(rd[r].seq) \in Slots
    BY Zenon DEF ReaderLocals
  <2>2. c \in Messages \cup {Blank}
    BY <2>1, Zenon
  <2> HIDE DEF c
  <2>3. b \in [Chunks -> Messages \cup {Blank}]
    BY <2>1, <2>2, Zenon DEF ReaderLocals
  <2>4. rd' = [rd EXCEPT ![r] = X]
    BY <1>14, <2>1, Zenon DEF CopyOut, c, ReaderLocals
  <2> HIDE DEF b
  <2>5. X \in ReaderLocals
    BY <2>1, <2>3, Zenon DEF ReaderLocals
  <2> HIDE DEF X
  <2> QED
    BY <1>14, <2>4, <2>5, ReaderStepType, Zenon DEF CopyOut
<1>15. ASSUME NEW r \in Readers, Recheck(r)
       PROVE  TypeOK'
  <2> DEFINE X == CASE slotSeq[SlotOf(rd[r].seq)] # rd[r].seq ->
                         Return(r, "overwritten")
                    [] slotSeq[SlotOf(rd[r].seq)] = rd[r].seq
                         /\ rd[r].op = "peek" -> Return(r, "ok")
                    [] OTHER -> [rd[r] EXCEPT !.pc = "load"]
  <2>1. [rd[r] EXCEPT !.pc = "load"] \in ReaderLocals
    BY MoveOnType, Zenon DEF ReaderPcs
  <2>2. X \in ReaderLocals
    BY <2>1, ReturnType, Zenon DEF Errors, Results
  <2> QED
    BY <1>15, <2>2, ReaderStepType, Zenon DEF Recheck
<1>16. ASSUME NEW r \in Readers, LoadWatermark(r)
       PROVE  TypeOK'
  <2> DEFINE X == IF rd[r].seq >= read_index
                  THEN [rd[r] EXCEPT !.pc = "store"] ELSE Return(r, "ok")
  <2>1. [rd[r] EXCEPT !.pc = "store"] \in ReaderLocals
    BY MoveOnType, Zenon DEF ReaderPcs
  <2>2. X \in ReaderLocals
    BY <2>1, ReturnType, Zenon DEF Results
  <2> QED
    BY <1>16, <2>2, ReaderStepType, Zenon DEF LoadWatermark
<1>17. ASSUME NEW r \in Readers, StoreWatermark(r)
       PROVE  TypeOK'
  <2>1. Return(r, "ok") \in ReaderLocals
    BY ReturnType, Zenon DEF Results
  <2>2. read_index' \in Nat
    BY <1>17 DEF StoreWatermark, ReaderLocals
  <2> QED
    BY <1>17, <2>1, <2>2, ReaderStepType, Zenon DEF StoreWatermark
<1>18. ASSUME NEW r \in Readers, ProbeUnwritten(r)
       PROVE  TypeOK'
  <2> DEFINE result == IF rd[r].seq < write_index THEN "ready" ELSE "not ready"
  <2>1. result \in Results
    BY Zenon DEF Results
  <2>2. Return(r, result) \in ReaderLocals
    BY <2>1, ReturnType, Zenon
  <2> QED
    BY <1>18, <2>2, ReaderStepType, Zenon DEF ProbeUnwritten
<1>19. ASSUME NEW r \in Readers, ProbeWriteIndex(r)
       PROVE  TypeOK'
  <2> DEFINE X == [rd[r] EXCEPT !.pc = "compare", !.widx = write_index]
  <2>1. X \in ReaderLocals
    <3>1. rd[r] \in ReaderLocals /\ write_index \in Nat
      BY Zenon
    <3>2. "compare" \in ReaderPcs
      BY Zenon DEF ReaderPcs
    <3> QED
      BY <3>1, <3>2, Zenon DEF ReaderLocals
  <2>2. rd' = [rd EXCEPT ![r] = X]
    BY <1>19, Zenon DEF ProbeWriteIndex
  <2> HIDE DEF X
  <2> QED
    BY <1>19, <2>1, <2>2, ReaderStepType, Zenon DEF ProbeWriteIndex
<1>20. ASSUME NEW r \in Readers, ProbeReadIndex(r)
       PROVE  TypeOK'
  <2> DEFINE result == IF rd[r].seq < rd[r].widx /\ rd[r].widx > read_index
                       THEN "ready" ELSE "not ready"
  <2>1. result \in Results
    BY Zenon DEF Results
  <2>2. Return(r, result) \in ReaderLocals
    BY <2>1, ReturnType, Zenon
  <2> QED
    BY <1>20, <2>2, ReaderStepType, Zenon DEF ProbeReadIndex
<1>21. CASE UNCHANGED vars
  BY <1>21, Zenon DEF vars
<1> QED
  BY <1>1, <1>2, <1>3, <1>4, <1>5, <1>6, <1>7, <1>8, <1>9, <1>10, <1>11,
     <1>12, <1>13, <1>14, <1>15, <1>16, <1>17, <1>18, <1>19, <1>20, <1>21, Zenon
  DEF Next, WriterStep, ReaderStep

\* The zeroed mapping and idle callers are well-formed.
LEMMA TypeInit == Init => TypeOK
<1> SUFFICES ASSUME Init PROVE TypeOK
  BY Zenon
<1>1. IdleWriter \in WriterLocals
  BY Zenon DEF IdleWriter, WriterLocals, WriterPcs
<1>2. [k \in Chunks |-> Blank] \in [Chunks -> Messages \cup {Blank}]
  BY Zenon
<1>3. IdleReader \in ReaderLocals
  BY IdleReaderType, Zenon
<1>4. ASSUME NEW w \in Writers
      PROVE  wr[w].pc = "idle"
  BY Zenon DEF Init, IdleWriter
<1>5. 0 \in 0 .. SlotCap
  BY RingAssumption
<1> QED
  BY <1>1, <1>2, <1>3, <1>4, <1>5, Zenon DEF Init, TypeOK

\* The mapping and the locals are always well-formed.
THEOREM TypeCorrect == Spec => []TypeOK
<1> QED
  BY TypeInit, TypeInductive, PTL DEF Spec

----------------------------------------------------------------------------
(* Sequence numbers and the window of N *)

\* Only Reserve and Publish touch the numbers: the other steps leave the
\* indices and the log alone, and a writer that is busy after such a step
\* was busy with the same message before.
LEMMA OtherSteps ==
  ASSUME TypeOK, [Next]_vars,
         ~ \E w \in Writers, len \in Lens : Reserve(w, len),
         ~ \E w \in Writers : Publish(w)
  PROVE  /\ UNCHANGED <<write_index, log, lapped>>
         /\ \A v \in Writers : Busy(v)' => Busy(v) /\ wr'[v].msg = wr[v].msg
<1>1. ASSUME NEW w \in Writers,
             \/ LoadReadIndex(w) \/ AdvanceReadIndex(w) \/ Invalidate(w)
             \/ ClearLen(w) \/ (\E k \in Chunks : CopyIn(w, k)) \/ StoreLen(w)
             \/ Crash(w)
      PROVE  /\ UNCHANGED <<write_index, log, lapped>>
             /\ \A v \in Writers : Busy(v)' => Busy(v) /\ wr'[v].msg = wr[v].msg
  <2> USE DEF TypeOK, WriterLocals
  <2>1. CASE LoadReadIndex(w)
    BY <2>1, Zenon DEF LoadReadIndex
  <2>2. CASE AdvanceReadIndex(w)
    BY <2>2, Zenon DEF AdvanceReadIndex
  <2>3. CASE Invalidate(w)
    BY <2>3, Zenon DEF Invalidate
  <2>4. CASE ClearLen(w)
    BY <2>4, Zenon DEF ClearLen
  <2>5. CASE \E k \in Chunks : CopyIn(w, k)
    BY <2>5 DEF CopyIn
  <2>6. CASE StoreLen(w)
    BY <2>6, Zenon DEF StoreLen
  <2>7. CASE Crash(w)
    BY <2>7, Zenon DEF Crash, IdleWriter
  <2> QED
    BY <1>1, <2>1, <2>2, <2>3, <2>4, <2>5, <2>6, <2>7, Zenon
<1>2. ASSUME NEW r \in Readers, ReaderStep(r)
      PROVE  UNCHANGED <<write_index, log, lapped, wr>>
  BY <1>2, Zenon
  DEF ReaderStep, Begin, LoadWriteIndex, LoadSeq, LoadLen, CopyOut, Recheck,
      LoadWatermark, StoreWatermark, ProbeUnwritten, ProbeWriteIndex,
      ProbeReadIndex
<1>3. CASE UNCHANGED vars
  BY <1>3, Zenon DEF vars
<1> QED
  BY <1>1, <1>2, <1>3, Zenon DEF Next, WriterStep

\* fetch_add hands out every sequence number once.
LEMMA NumbersInductive ==
  TypeOK /\ NumbersDistinct /\ [Next]_vars => NumbersDistinct'
<1> SUFFICES ASSUME TypeOK, NumbersDistinct, [Next]_vars
             PROVE  NumbersDistinct'
  BY Zenon
<1>1. ASSUME NEW w \in Writers, NEW len \in Lens, Reserve(w, len)
      PROVE  NumbersDistinct'
  <2>1. /\ write_index' = write_index + 1
        /\ log' = log
        /\ wr'[w].msg.seq = write_index
        /\ \A v \in Writers \ {w} : wr'[v] = wr[v]
    BY <1>1, Zenon DEF Reserve, TypeOK
  <2>2. /\ write_index \in Nat
        /\ \A m \in log : m.seq \in Nat
        /\ \A v \in Writers : Busy(v) => wr[v].msg.seq \in Nat
    BY Zenon DEF TypeOK, Messages
  <2> QED
    BY <2>1, <2>2 DEF NumbersDistinct
<1>2. ASSUME NEW w \in Writers, Publish(w)
      PROVE  NumbersDistinct'
  <2>1. /\ write_index' = write_index
        /\ log' = log \cup {wr[w].msg}
        /\ Busy(w) /\ ~Busy(w)'
        /\ \A v \in Writers \ {w} : wr'[v] = wr[v]
    BY <1>2, Zenon DEF Publish, TypeOK, IdleWriter
  <2> QED
    BY <2>1 DEF NumbersDistinct
<1>3. CASE /\ ~ \E w \in Writers, len \in Lens : Reserve(w, len)
           /\ ~ \E w \in Writers : Publish(w)
  BY <1>3, OtherSteps, Zenon DEF NumbersDistinct
<1> QED
  BY <1>1, <1>2, <1>3, Zenon

\* lapped records every reservation that reaches the slot of a busy writer.
LEMMA WindowInductive ==
  TypeOK /\ WithinWindow /\ [Next]_vars => WithinWindow'
<1> SUFFICES ASSUME TypeOK, WithinWindow, [Next]_vars
             PROVE  WithinWindow'
  BY Zenon
<1>1. ASSUME NEW w \in Writers, NEW len \in Lens, Reserve(w, len)
      PROVE  WithinWindow'
  <2>1. /\ write_index' = write_index + 1
        /\ wr'[w].msg.seq = write_index
        /\ \A v \in Writers \ {w} : wr'[v] = wr[v]
        /\ lapped \in BOOLEAN
    BY <1>1, Zenon DEF Reserve, TypeOK
  <2>3. lapped' = (lapped \/ \E v \in Writers : Laps(v, write_index + 1))
    BY <1>1, Zenon DEF Reserve
  <2>2. /\ write_index \in Nat
        /\ \A v \in Writers : Busy(v) => wr[v].msg.seq \in Nat
    BY Zenon DEF TypeOK, Messages
  <2> SUFFICES ASSUME ~lapped', NEW v \in Writers, Busy(v)'
               PROVE  write_index' - wr'[v].msg.seq <= N
    BY Zenon DEF WithinWindow
  <2>4. \A u \in Writers : ~Laps(u, write_index + 1)
    BY <2>3, Zenon
  <2>5. CASE v = w
    BY <2>1, <2>2, <2>5, RingAssumption
  <2>6. CASE v # w
    BY <2>1, <2>2, <2>4, <2>6, RingAssumption DEF Laps
  <2> QED
    BY <2>5, <2>6, Zenon
<1>2. ASSUME NEW w \in Writers, Publish(w)
      PROVE  WithinWindow'
  BY <1>2, Zenon DEF Publish, TypeOK, IdleWriter, WithinWindow
<1>3. CASE /\ ~ \E w \in Writers, len \in Lens : Reserve(w, len)
           /\ ~ \E w \in Writers : Publish(w)
  BY <1>3, OtherSteps, Zenon DEF WithinWindow
<1> QED
  BY <1>1, <1>2, <1>3, Zenon

----------------------------------------------------------------------------
(* Slots *)

\* Until a writer is lapped, busy writers are in different slots, and in
\* other slots than the messages of the last N numbers.
LEMMA BusySlots ==
  ASSUME TypeOK, NumbersDistinct, WithinWindow, ~lapped,
         NEW w \in Writers, Busy(w)
  PROVE  /\ \A v \in Writers :
              Busy(v) /\ v # w => SlotOf(wr[v].msg.seq) # SlotOf(wr[w].msg.seq)
         /\ \A m \in log :
              write_index - m.seq <= N => SlotOf(m.seq) # SlotOf(wr[w].msg.seq)
<1>1. /\ write_index \in Nat
      /\ \A m \in log : m.seq \in Nat /\ m.seq < write_index
      /\ \A v \in Writers : Busy(v) =>
           /\ wr[v].msg.seq \in Nat
           /\ wr[v].msg.seq < write_index
           /\ write_index - wr[v].msg.seq <= N
  BY Zenon DEF TypeOK, Messages, NumbersDistinct, WithinWindow
<1>2. ASSUME NEW v \in Writers, Busy(v), v # w
      PROVE  SlotOf(wr[v].msg.seq) # SlotOf(wr[w].msg.seq)
  <2>1. wr[v].msg.seq # wr[w].msg.seq
    BY <1>2, Zenon DEF NumbersDistinct
  <2> QED
    BY <1>1, <1>2, <2>1, SlotsDiffer, RingAssumption
<1>3. ASSUME NEW m \in log, write_index - m.seq <= N
      PROVE  SlotOf(m.seq) # SlotOf(wr[w].msg.seq)
  <2>1. m.seq # wr[w].msg.seq
    BY <1>3, Zenon DEF NumbersDistinct
  <2> QED
    BY <1>1, <1>3, <2>1, SlotsDiffer, RingAssumption
<1> QED
  BY <1>2, <1>3, Zenon

\* A step that leaves slot j alone.
Same(j) ==
  /\ slotSeq'[j] = slotSeq[j]
  /\ slotLen'[j] = slotLen[j]
  /\ slotData'[j] = slotData[j]

\* Nothing has changed for a writer that takes no step and whose slot is the
\* same as before.
LEMMA WaitingWriter ==
  ASSUME NEW v \in Writers, NEW j, j = SlotOf(wr[v].msg.seq), Same(j),
         wr'[v] = wr[v], SlotOfWriter(v)
  PROVE  SlotOfWriter(v)'
<1> DEFINE m == wr[v].msg
<1>1. /\ slotSeq'[j] = slotSeq[j]
      /\ slotLen'[j] = slotLen[j]
      /\ slotData'[j] = slotData[j]
  BY Zenon DEF Same
<1>2. Holds(j, m) => (slotLen'[j] = m.len
                       /\ \A k \in 1 .. m.len : slotData'[j][k] = m)
  BY <1>1, Zenon DEF Holds
<1>3. wr[v].pc = "publish" => Holds(j, m)
  BY Zenon DEF SlotOfWriter
<1>4. wr[v].pc = "copy" =>
        /\ slotLen'[j] = 0
        /\ \A k \in 1 .. m.len : k \in wr[v].left \/ slotData'[j][k] = m
  BY <1>1, Zenon DEF SlotOfWriter
<1>5. /\ wr[v].pc \in {"clear", "copy", "publish"} => slotSeq'[j] = Writing
      /\ wr[v].pc \in {"load", "cas", "invalidate", "clear"} /\ m.seq = 0
           => slotLen'[j] = 0
  BY <1>1, Zenon DEF SlotOfWriter
<1> QED
  BY <1>2, <1>3, <1>4, <1>5, Zenon DEF SlotOfWriter, Holds

\* A step of a busy writer in its own slot leaves the others as they were,
\* so it is enough to look at that slot.
LEMMA OwnSlotStep ==
  ASSUME TypeOK, NumbersDistinct, WithinWindow, SlotsInv, ~lapped,
         NEW w \in Writers, Busy(w), NEW i, i = SlotOf(wr[w].msg.seq),
         UNCHANGED <<write_index, log>>,
         \A v \in Writers \ {w} : wr'[v] = wr[v],
         \A j \in Slots \ {i} : Same(j),
         Busy(w)' => SlotOfWriter(w)',
         MarkedSlot(i)'
  PROVE  SlotsInv'
<1>1. ASSUME NEW v \in Writers, v # w, Busy(v)'
      PROVE  SlotOfWriter(v)'
  <2>1. Busy(v) /\ wr'[v] = wr[v]
    BY <1>1, Zenon
  <2>2. SlotOf(wr[v].msg.seq) \in Slots
    BY <2>1, SlotInRange, Zenon DEF TypeOK, Messages
  <2>3. Same(SlotOf(wr[v].msg.seq))
    BY <1>1, <2>1, <2>2, BusySlots, Zenon
  <2>4. SlotOfWriter(v)
    BY <2>1, Zenon DEF SlotsInv
  <2> QED
    BY <2>1, <2>3, <2>4, WaitingWriter, Zenon
<1>2. ASSUME NEW j \in Slots, j # i
      PROVE  MarkedSlot(j)'
  <2>1. MarkedSlot(j) /\ Same(j)
    BY <1>2, Zenon DEF SlotsInv
  <2> QED
    BY SMTT(20), <2>1 DEF MarkedSlot, Holds, Same
<1>3. ASSUME NEW m \in log, write_index - m.seq <= N
      PROVE  slotSeq'[SlotOf(m.seq)] = m.seq /\ Holds(SlotOf(m.seq), m)'
  <2>1. SlotOf(m.seq) \in Slots
    BY SlotInRange, Zenon DEF TypeOK, Messages
  <2>2. Same(SlotOf(m.seq))
    BY <1>3, <2>1, BusySlots, Zenon
  <2>3. slotSeq[SlotOf(m.seq)] = m.seq /\ Holds(SlotOf(m.seq), m)
    BY <1>3, Zenon DEF SlotsInv, Retention
  <2> QED
    BY <2>2, <2>3, Zenon DEF Holds, Same
<1>4. write_index' # 0
  <2>1. wr[w].msg.seq \in Nat /\ write_index \in Nat
    BY BusyType, Zenon DEF TypeOK
  <2>2. wr[w].msg.seq < write_index
    BY Zenon DEF NumbersDistinct
  <2> QED
    BY <2>1, <2>2
<1> QED
  BY <1>1, <1>2, <1>3, <1>4, Zenon DEF SlotsInv, Retention

\* A step that touches no slot and starts no writer keeps what the slots hold.
LEMMA NoSlotStep ==
  ASSUME TypeOK, SlotsInv, ~lapped,
         UNCHANGED <<write_index, log, slotSeq, slotLen, slotData>>,
         \A v \in Writers : Busy(v)' =>
           /\ Busy(v) /\ wr'[v].msg = wr[v].msg
           /\ \/ wr'[v] = wr[v]
              \/ wr[v].pc \in {"load", "cas"} /\ wr'[v].pc \in {"cas", "invalidate"}
  PROVE  SlotsInv'
<1>1. ASSUME NEW v \in Writers, Busy(v)'
      PROVE  SlotOfWriter(v)'
  <2>1. SlotOfWriter(v)
    BY <1>1, Zenon DEF SlotsInv
  <2> QED
    BY <1>1, <2>1, Zenon DEF SlotOfWriter, Holds
<1> QED
  BY <1>1 DEF SlotsInv, MarkedSlot, Holds, Retention
\* Every step keeps the slots in order until a writer is lapped: a writer
\* marks its slot before it changes anything else there, and it is alone in it.
LEMMA SlotsInductive ==
  TypeOK /\ NumbersDistinct /\ WithinWindow /\ SlotsInv /\ [Next]_vars
    => SlotsInv'
<1> SUFFICES ASSUME TypeOK, NumbersDistinct, WithinWindow, SlotsInv,
                    [Next]_vars, ~lapped'
             PROVE  SlotsInv'
  BY Zenon DEF SlotsInv
<1>0. ~lapped
  <2>1. ASSUME NEW w \in Writers, NEW len \in Lens, Reserve(w, len)
        PROVE  ~lapped
    BY <2>1, Zenon DEF Reserve
  <2>2. ASSUME NEW w \in Writers, Publish(w)
        PROVE  ~lapped
    BY <2>2, Zenon DEF Publish
  <2> QED
    BY <2>1, <2>2, OtherSteps, Zenon
<1> DEFINE Slot(w) == SlotOf(wr[w].msg.seq)
<1>a. ASSUME NEW w \in Writers, Busy(w)
      PROVE  /\ Slot(w) \in Slots
             /\ SlotOfWriter(w)
             /\ MarkedSlot(Slot(w))
             /\ wr[w].msg.len \in 0 .. SlotCap
  BY <1>a, <1>0, SlotInRange, Zenon DEF TypeOK, Messages, SlotsInv
<1>1. ASSUME NEW w \in Writers, NEW len \in Lens, Reserve(w, len)
      PROVE  SlotsInv'
  <2>1. /\ write_index' = write_index + 1
        /\ UNCHANGED <<slotSeq, slotLen, slotData, log>>
        /\ wr'[w].msg.seq = write_index /\ wr'[w].pc = "load"
        /\ \A v \in Writers \ {w} : wr'[v] = wr[v]
        /\ write_index \in Nat
        /\ \A m \in log : m.seq \in Nat
    BY <1>1, Zenon DEF Reserve, TypeOK, Messages
  <2>2. ASSUME NEW v \in Writers, Busy(v)'
        PROVE  SlotOfWriter(v)'
    <3>1. CASE v = w
      <4>1. write_index = 0 => slotLen[SlotOf(write_index)] = 0
        BY <1>0, <2>1, SlotInRange, Zenon DEF SlotsInv
      <4> QED
        BY <2>1, <3>1, <4>1, Zenon DEF SlotOfWriter
    <3>2. CASE v # w
      <4>1. SlotOfWriter(v) /\ wr'[v] = wr[v]
        BY <1>0, <2>1, <2>2, <3>2, Zenon DEF SlotsInv
      <4> QED
        BY <2>1, <4>1, Zenon DEF SlotOfWriter, Holds
    <3> QED
      BY <3>1, <3>2, Zenon
  <2>3. \A i \in Slots : MarkedSlot(i)'
    BY <1>0, <2>1, Zenon DEF SlotsInv, MarkedSlot, Holds
  <2>4. Retention'
    <3> SUFFICES ASSUME NEW m \in log, write_index' - m.seq <= N
                 PROVE  (slotSeq[SlotOf(m.seq)] = m.seq /\ Holds(SlotOf(m.seq), m))'
      BY <2>1, Zenon DEF Retention
    <3>1. write_index - m.seq <= N
      BY <2>1, RingAssumption
    <3> QED
      BY <1>0, <2>1, <3>1, Zenon DEF SlotsInv, Retention, Holds
  <2>5. write_index' # 0
    BY <2>1
  <2> QED
    BY <2>2, <2>3, <2>4, <2>5, Zenon DEF SlotsInv
<1>2. ASSUME NEW w \in Writers, Invalidate(w)
      PROVE  SlotsInv'
  <2>1. /\ Busy(w)
        /\ UNCHANGED <<write_index, log, slotLen, slotData>>
        /\ wr'[w].pc = "clear" /\ wr'[w].msg = wr[w].msg
        /\ \A v \in Writers \ {w} : wr'[v] = wr[v]
    BY <1>2, Zenon DEF Invalidate, TypeOK, WriterLocals
  <2>2. /\ slotSeq'[Slot(w)] = Writing
        /\ \A j \in Slots \ {Slot(w)} : Same(j)
    BY <1>2, <1>a, <2>1, Zenon DEF Invalidate, TypeOK, Same
  <2>3. SlotOfWriter(w)'
    BY <1>2, <1>a, <2>1, <2>2, Zenon DEF SlotOfWriter, Invalidate
  <2>4. \A i : i = Slot(w) => MarkedSlot(i)'
    BY <2>2, Zenon DEF MarkedSlot
  <2> QED
    BY <1>0, <2>1, <2>2, <2>3, <2>4, OwnSlotStep, Zenon
<1>3. ASSUME NEW w \in Writers, ClearLen(w)
      PROVE  SlotsInv'
  <2>1. /\ Busy(w)
        /\ UNCHANGED <<write_index, log, slotSeq, slotData>>
        /\ wr'[w].pc = "copy" /\ wr'[w].msg = wr[w].msg
        /\ wr'[w].left = 1 .. wr[w].msg.len
        /\ \A v \in Writers \ {w} : wr'[v] = wr[v]
    BY <1>3, Zenon DEF ClearLen, TypeOK, WriterLocals
  <2>2. /\ slotLen'[Slot(w)] = 0
        /\ \A j \in Slots \ {Slot(w)} : Same(j)
    BY <1>3, <1>a, <2>1, Zenon DEF ClearLen, TypeOK, Same
  <2>3. slotSeq'[Slot(w)] = Writing
    BY <1>3, <1>a, <2>1, Zenon DEF ClearLen, SlotOfWriter
  <2>4. SlotOfWriter(w)'
    BY <2>1, <2>2, <2>3, Zenon DEF SlotOfWriter
  <2>5. \A i : i = Slot(w) => MarkedSlot(i)'
    BY <2>3, Zenon DEF MarkedSlot
  <2> QED
    BY <1>0, <2>1, <2>2, <2>4, <2>5, OwnSlotStep, Zenon
<1>4. ASSUME NEW w \in Writers, NEW k \in Chunks, CopyIn(w, k)
      PROVE  SlotsInv'
  <2>1. /\ Busy(w) /\ wr[w].pc = "copy"
        /\ UNCHANGED <<write_index, log, slotSeq, slotLen>>
        /\ wr'[w].pc = "copy" /\ wr'[w].msg = wr[w].msg
        /\ wr'[w].left = wr[w].left \ {k}
        /\ \A v \in Writers \ {w} : wr'[v] = wr[v]
    BY <1>4, Zenon DEF CopyIn, TypeOK, WriterLocals
  <2>2. /\ slotData'[Slot(w)] = [slotData[Slot(w)] EXCEPT ![k] = wr[w].msg]
        /\ \A j \in Slots \ {Slot(w)} : Same(j)
    BY <1>4, <1>a, <2>1, Zenon DEF CopyIn, TypeOK, Same
  <2>3. slotSeq[Slot(w)] = Writing /\ slotLen[Slot(w)] = 0
    BY <1>a, <2>1, Zenon DEF SlotOfWriter
  <2>4. slotData[Slot(w)] \in [Chunks -> Messages \cup {Blank}]
    BY <1>a, <2>1, Zenon DEF TypeOK
  <2>5. \A c \in 1 .. wr[w].msg.len :
          c \in wr'[w].left \/ slotData'[Slot(w)][c] = wr[w].msg
    <3> SUFFICES ASSUME NEW c \in 1 .. wr[w].msg.len, c \notin wr'[w].left
                 PROVE  slotData'[Slot(w)][c] = wr[w].msg
      BY Zenon
    <3>1. c \in Chunks
      BY <1>a, <2>1, RingAssumption DEF Chunks
    <3>2. CASE c = k
      BY <2>2, <2>4, <3>1, <3>2, Zenon
    <3>3. CASE c # k
      <4>1. slotData[Slot(w)][c] = wr[w].msg
        BY <1>a, <2>1, <3>3, Zenon DEF SlotOfWriter
      <4> QED
        BY <2>2, <2>4, <3>1, <3>3, <4>1, Zenon
    <3> QED
      BY <3>2, <3>3, Zenon
  <2>6. SlotOfWriter(w)'
    BY <2>1, <2>3, <2>5, Zenon DEF SlotOfWriter
  <2>7. \A i : i = Slot(w) => MarkedSlot(i)'
    BY <2>1, <2>3, Zenon DEF MarkedSlot
  <2> QED
    BY <1>0, <2>1, <2>2, <2>6, <2>7, OwnSlotStep, Zenon
<1>5. ASSUME NEW w \in Writers, StoreLen(w)
      PROVE  SlotsInv'
  <2>1. /\ Busy(w) /\ wr[w].pc = "copy" /\ wr[w].left = {}
        /\ UNCHANGED <<write_index, log, slotSeq, slotData>>
        /\ wr'[w].pc = "publish" /\ wr'[w].msg = wr[w].msg
        /\ \A v \in Writers \ {w} : wr'[v] = wr[v]
    BY <1>5, Zenon DEF StoreLen, TypeOK, WriterLocals
  <2>2. /\ slotLen'[Slot(w)] = wr[w].msg.len
        /\ \A j \in Slots \ {Slot(w)} : Same(j)
    BY <1>5, <1>a, <2>1, Zenon DEF StoreLen, TypeOK, Same
  <2>3. slotSeq[Slot(w)] = Writing
    BY <1>a, <2>1, Zenon DEF SlotOfWriter
  <2>4. SlotOfWriter(w)'
    BY <1>a, <2>1, <2>2, <2>3, Zenon DEF SlotOfWriter, Holds
  <2>5. \A i : i = Slot(w) => MarkedSlot(i)'
    BY <2>1, <2>3, Zenon DEF MarkedSlot
  <2> QED
    BY <1>0, <2>1, <2>2, <2>4, <2>5, OwnSlotStep, Zenon
<1>6. ASSUME NEW w \in Writers, Publish(w)
      PROVE  SlotsInv'
  <2> DEFINE m == wr[w].msg
  <2>1. /\ Busy(w) /\ wr[w].pc = "publish" /\ ~Busy(w)'
        /\ UNCHANGED <<write_index, slotLen, slotData>>
        /\ log' = log \cup {m}
        /\ \A v \in Writers \ {w} : wr'[v] = wr[v]
    BY <1>6, Zenon DEF Publish, TypeOK, IdleWriter
  <2>2. /\ slotSeq'[Slot(w)] = m.seq
        /\ \A j \in Slots \ {Slot(w)} : Same(j)
    BY <1>6, <1>a, <2>1, Zenon DEF Publish, TypeOK, Same
  <2>3. Holds(Slot(w), m) /\ m \in Messages
    BY <1>a, <2>1, Zenon DEF SlotOfWriter, TypeOK
  <2>4. ASSUME NEW v \in Writers, Busy(v)'
        PROVE  SlotOfWriter(v)'
    <3>1. v # w /\ Busy(v) /\ wr'[v] = wr[v]
      BY <2>1, <2>4, Zenon
    <3>2. Same(SlotOf(wr[v].msg.seq)) /\ SlotOfWriter(v)
      BY <1>0, <1>a, <2>1, <2>2, <3>1, BusySlots, Zenon
    <3> QED
      BY <3>1, <3>2, Zenon DEF SlotOfWriter, Holds, Same
  <2>5. ASSUME NEW j \in Slots
        PROVE  MarkedSlot(j)'
    <3>1. CASE j = Slot(w)
      BY <2>1, <2>2, <2>3, <3>1, Zenon DEF MarkedSlot, Holds
    <3>2. CASE j # Slot(w)
      <4>1. MarkedSlot(j) /\ Same(j)
        BY <1>0, <2>2, <3>2, Zenon DEF SlotsInv
      <4> QED
        BY <2>1, <3>2, <4>1, Zenon DEF MarkedSlot, Holds, Same
    <3> QED
      BY <3>1, <3>2, Zenon
  <2>6. ASSUME NEW o \in log', write_index' - o.seq <= N
        PROVE  slotSeq'[SlotOf(o.seq)] = o.seq /\ Holds(SlotOf(o.seq), o)'
    <3>1. CASE o = m
      BY <2>1, <2>2, <2>3, <3>1, Zenon DEF Holds
    <3>2. CASE o # m
      <4>1. o \in log /\ write_index - o.seq <= N
        BY <2>1, <2>6, <3>2, Zenon
      <4>2. slotSeq[SlotOf(o.seq)] = o.seq /\ Holds(SlotOf(o.seq), o)
        BY <1>0, <4>1, Zenon DEF SlotsInv, Retention
      <4>3. SlotOf(o.seq) \in Slots \ {Slot(w)}
        BY <1>0, <2>1, <4>1, BusySlots, SlotInRange, Zenon DEF TypeOK, Messages
      <4> QED
        BY <2>2, <4>2, <4>3, Zenon DEF Holds, Same
    <3> QED
      BY <3>1, <3>2, Zenon
  <2>7. write_index' # 0
    <3>1. m.seq < write_index
      BY <2>1, Zenon DEF NumbersDistinct
    <3> QED
      BY <2>1, <2>3, <3>1 DEF TypeOK, Messages
  <2> QED
    BY <2>4, <2>5, <2>6, <2>7, Zenon DEF SlotsInv, Retention
<1>7. ASSUME NEW w \in Writers,
             LoadReadIndex(w) \/ AdvanceReadIndex(w) \/ Crash(w)
      PROVE  SlotsInv'
  <2>1. UNCHANGED <<write_index, log, slotSeq, slotLen, slotData>>
    BY <1>7, Zenon DEF LoadReadIndex, AdvanceReadIndex, Crash
  <2>2. \A v \in Writers : Busy(v)' =>
          /\ Busy(v) /\ wr'[v].msg = wr[v].msg
          /\ \/ wr'[v] = wr[v]
             \/ /\ wr[v].pc \in {"load", "cas"}
                /\ wr'[v].pc \in {"cas", "invalidate"}
    <3> USE DEF TypeOK, WriterLocals
    <3>1. CASE LoadReadIndex(w)
      BY <3>1, Zenon DEF LoadReadIndex
    <3>2. CASE AdvanceReadIndex(w)
      BY <3>2, Zenon DEF AdvanceReadIndex
    <3>3. CASE Crash(w)
      BY <3>3, Zenon DEF Crash, IdleWriter
    <3> QED
      BY <1>7, <3>1, <3>2, <3>3, Zenon
  <2> QED
    BY <1>0, <2>1, <2>2, NoSlotStep, Zenon
<1>8. ASSUME NEW r \in Readers, ReaderStep(r)
      PROVE  SlotsInv'
  <2>1. UNCHANGED <<write_index, log, slotSeq, slotLen, slotData, wr>>
    BY <1>8, Zenon
    DEF ReaderStep, Begin, LoadWriteIndex, LoadSeq, LoadLen, CopyOut, Recheck,
        LoadWatermark, StoreWatermark, ProbeUnwritten, ProbeWriteIndex,
        ProbeReadIndex
  <2> QED
    BY <1>0, <2>1, NoSlotStep, Zenon
<1>9. CASE UNCHANGED vars
  BY <1>0, <1>9, NoSlotStep, Zenon DEF vars
<1> QED
  BY <1>1, <1>2, <1>3, <1>4, <1>5, <1>6, <1>7, <1>8, <1>9, Zenon DEF Next, WriterStep

----------------------------------------------------------------------------
(* Readers *)

\* What a step leaves alone of a reader that is copying: the marker is not
\* stored for its number, or by the writer of its chunks, and no writer starts
\* on its number.
Undisturbed(q) ==
  rd[q].pc = "copy" =>
    /\ slotSeq'[SlotOf(rd[q].seq)] = rd[q].seq =>
         \/ slotSeq[SlotOf(rd[q].seq)] = rd[q].seq
         \/ \E m \in log' : Copied(q, m)
    /\ \A w \in Writers :
         Busy(w)' /\ wr'[w].msg.seq = rd[q].seq => wr'[w] = wr[w]

\* A reader that takes no step keeps its invariant if it is undisturbed and
\* the log and write_index only grow.
LEMMA WaitingReader ==
  ASSUME TypeOK, NEW q \in Readers, ReaderInv(q), rd'[q] = rd[q],
         write_index' \in Nat, write_index' >= write_index, log \subseteq log',
         Undisturbed(q)
  PROVE  ReaderInv(q)'
<1>1. rd[q].seq \in Nat /\ write_index \in Nat /\ rd[q] \in ReaderLocals
  BY Zenon DEF TypeOK, ReaderLocals
<1>2. \A m : Copied(q, m)' <=> Copied(q, m)
  BY Zenon DEF Copied
<1>3. ~StillThere(q) => ~StillThere(q)'
  BY <1>1, RingAssumption DEF StillThere
<1>4. /\ rd'[q].seen \subseteq log'
      /\ \A m \in rd'[q].seen : m.len > 0
      /\ rd'[q].pc # "idle" => rd'[q].res = "none"
      /\ rd'[q].pc \in {"seq", "len", "copy"} => rd'[q].seq < write_index'
      /\ rd'[q].pc = "len" =>
           rd'[q].seq = 0 \/ \E m \in log' : m.seq = rd'[q].seq
  <2>1. /\ rd[q].seen \subseteq log
        /\ \A m \in rd[q].seen : m.len > 0
        /\ rd[q].pc # "idle" => rd[q].res = "none"
    BY Zenon DEF ReaderInv
  <2>2. rd[q].pc \in {"seq", "len", "copy"} => rd[q].seq < write_index
    BY Zenon DEF ReaderInv
  <2>3. rd[q].pc = "len" => rd[q].seq = 0 \/ \E m \in log : m.seq = rd[q].seq
    BY Zenon DEF ReaderInv
  <2> QED
    BY <1>1, <2>1, <2>2, <2>3
<1>5. ASSUME rd'[q].pc = "copy"
      PROVE  /\ rd'[q].len > 0
             /\ slotSeq'[SlotOf(rd'[q].seq)] = rd'[q].seq =>
                  \E m \in log' : Copied(q, m)'
             /\ \A w \in Writers :
                  Busy(w)' /\ wr'[w].msg.seq = rd'[q].seq
                    => wr'[w].pc = "publish" /\ Copied(q, wr[w].msg)'
  BY <1>2, <1>5, Zenon DEF ReaderInv, Undisturbed
<1>6. rd'[q].pc \in {"load", "store"} \/ rd'[q].res = "ok"
        => rd'[q].left = {} /\ \E m \in log' : Copied(q, m)'
  BY <1>2, Zenon DEF ReaderInv
<1>7. rd'[q].pc \in {"unwritten", "behind", "compare"}
        \/ rd'[q].res \in {"no data", "overwritten", "not yet written",
                           "not ready"}
        => ~StillThere(q)'
  BY <1>3, Zenon DEF ReaderInv
<1> QED
  BY <1>4, <1>5, <1>6, <1>7, Zenon DEF ReaderInv

\* A step of a writer disturbs no reader: it stores the marker a copying
\* reader is waiting for only if the reader's chunks are its own.
LEMMA WriterStepReaders ==
  ASSUME TypeOK, NumbersDistinct, NEW w \in Writers, WriterStep(w),
         NEW q \in Readers, ReaderInv(q)
  PROVE  ReaderInv(q)'
<1>0. /\ rd[q].seq \in Nat /\ write_index \in Nat
      /\ \A v \in Writers : Busy(v) => wr[v].msg.seq \in Nat
      /\ rd[q].pc = "copy" => rd[q].seq < write_index
  BY Zenon DEF TypeOK, ReaderLocals, Messages, ReaderInv
<1>i. SlotOf(rd[q].seq) \in Slots
  BY <1>0, SlotInRange, Zenon
<1>p. rd[q].pc = "copy" =>
        \A v \in Writers : Busy(v) /\ wr[v].msg.seq = rd[q].seq
          => wr[v].pc = "publish" /\ Copied(q, wr[v].msg)
  BY Zenon DEF ReaderInv
<1>1. ASSUME NEW len \in Lens, Reserve(w, len)
      PROVE  ReaderInv(q)'
  <2>1. /\ rd' = rd /\ log' = log /\ slotSeq' = slotSeq
        /\ write_index' = write_index + 1
        /\ wr'[w].msg.seq = write_index
        /\ \A v \in Writers \ {w} : wr'[v] = wr[v]
    BY <1>1, Zenon DEF Reserve, TypeOK
  <2>2. rd[q].pc = "copy" =>
          \A v \in Writers : wr'[v].msg.seq = rd[q].seq => wr'[v] = wr[v]
    BY <1>0, <2>1
  <2>3. Undisturbed(q)
    BY <2>1, <2>2, Zenon DEF Undisturbed
  <2> QED
    BY SMTT(20), <1>0, <2>1, <2>3, WaitingReader
<1>2. ASSUME LoadReadIndex(w) \/ AdvanceReadIndex(w) \/ ClearLen(w)
               \/ (\E k \in Chunks : CopyIn(w, k)) \/ StoreLen(w)
      PROVE  ReaderInv(q)'
  <2>1. /\ rd' = rd /\ log' = log /\ slotSeq' = slotSeq
        /\ write_index' = write_index
        /\ Busy(w) /\ wr[w].pc # "publish"
        /\ wr'[w].msg = wr[w].msg
        /\ \A v \in Writers \ {w} : wr'[v] = wr[v]
    <3> USE DEF TypeOK, WriterLocals
    <3>1. CASE LoadReadIndex(w)
      BY <3>1, Zenon DEF LoadReadIndex
    <3>2. CASE AdvanceReadIndex(w)
      BY <3>2, Zenon DEF AdvanceReadIndex
    <3>3. CASE ClearLen(w)
      BY <3>3, Zenon DEF ClearLen
    <3>4. CASE \E k \in Chunks : CopyIn(w, k)
      BY <3>4 DEF CopyIn
    <3>5. CASE StoreLen(w)
      BY <3>5, Zenon DEF StoreLen
    <3> QED
      BY <1>2, <3>1, <3>2, <3>3, <3>4, <3>5, Zenon
  <2>2. rd[q].pc = "copy" =>
          \A v \in Writers : wr'[v].msg.seq = rd[q].seq => wr'[v] = wr[v]
    BY <1>p, <2>1, Zenon
  <2>3. Undisturbed(q)
    BY <2>1, <2>2, Zenon DEF Undisturbed
  <2> QED
    BY <1>0, <2>1, <2>3, WaitingReader
<1>3. ASSUME Invalidate(w)
      PROVE  ReaderInv(q)'
  <2>1. /\ rd' = rd /\ log' = log
        /\ write_index' = write_index
        /\ Busy(w) /\ wr[w].pc # "publish"
        /\ wr'[w].msg = wr[w].msg
        /\ \A v \in Writers \ {w} : wr'[v] = wr[v]
    BY <1>3, Zenon DEF Invalidate, TypeOK, WriterLocals
  <2>2. rd[q].pc = "copy" =>
          \A v \in Writers : wr'[v].msg.seq = rd[q].seq => wr'[v] = wr[v]
    BY <1>p, <2>1, Zenon
  <2>3. slotSeq'[SlotOf(rd[q].seq)] = rd[q].seq =>
          slotSeq[SlotOf(rd[q].seq)] = rd[q].seq
    BY <1>0, <1>i, <1>3 DEF Invalidate, TypeOK, Writing
  <2>4. Undisturbed(q)
    BY <2>2, <2>3, Zenon DEF Undisturbed
  <2> QED
    BY <1>0, <2>1, <2>4, WaitingReader
<1>4. ASSUME Publish(w)
      PROVE  ReaderInv(q)'
  <2>1. /\ rd' = rd /\ log' = log \cup {wr[w].msg}
        /\ write_index' = write_index
        /\ Busy(w) /\ ~Busy(w)'
        /\ \A v \in Writers \ {w} : wr'[v] = wr[v]
    BY <1>4, Zenon DEF Publish, TypeOK, IdleWriter
  <2>2. \A v \in Writers : Busy(v)' => wr'[v] = wr[v]
    BY <2>1, Zenon
  <2>3. \/ slotSeq'[SlotOf(rd[q].seq)] = slotSeq[SlotOf(rd[q].seq)]
        \/ slotSeq'[SlotOf(rd[q].seq)] = wr[w].msg.seq
    BY <1>i, <1>4, Zenon DEF Publish, TypeOK
  <2>4. rd[q].pc = "copy" /\ wr[w].msg.seq = rd[q].seq
          => Copied(q, wr[w].msg)
    BY <1>p, <2>1, Zenon
  <2>5. Undisturbed(q)
    BY <2>1, <2>2, <2>3, <2>4, Zenon DEF Undisturbed
  <2> QED
    BY <1>0, <2>1, <2>5, WaitingReader
<1>5. ASSUME Crash(w)
      PROVE  ReaderInv(q)'
  <2>1. /\ rd' = rd /\ log' = log /\ slotSeq' = slotSeq
        /\ write_index' = write_index
        /\ ~Busy(w)'
        /\ \A v \in Writers \ {w} : wr'[v] = wr[v]
    BY <1>5, Zenon DEF Crash, TypeOK, IdleWriter
  <2>2. \A v \in Writers : Busy(v)' => wr'[v] = wr[v]
    BY <2>1, Zenon
  <2>3. Undisturbed(q)
    BY <2>1, <2>2, Zenon DEF Undisturbed
  <2> QED
    BY <1>0, <2>1, <2>3, WaitingReader
<1> QED
  BY <1>1, <1>2, <1>3, <1>4, <1>5, Zenon DEF WriterStep

\* A step of a reader keeps its own invariant: the markers it checks before
\* and after copying vouch for the chunks, and a check fails only if the
\* message is no longer one of the last N.
LEMMA OwnReaderStep ==
  ASSUME TypeOK, NumbersDistinct, SlotsInv, ~lapped,
         NEW r \in Readers, ReaderInv(r), ReaderStep(r)
  PROVE  ReaderInv(r)'
<1> DEFINE s == rd[r].seq
           i == SlotOf(s)
<1>0. /\ s \in Nat /\ write_index \in Nat /\ i \in Slots
      /\ rd[r] \in ReaderLocals
      /\ slotSeq[i] \in Nat \cup {Writing} /\ slotLen[i] \in 0 .. SlotCap
      /\ log \subseteq Messages
  BY SlotInRange, Zenon DEF TypeOK, ReaderLocals
<1>t. ASSUME StillThere(r)
      PROVE  s < write_index /\ slotSeq[i] = s /\ slotLen[i] # 0
  <2>1. PICK m \in rd[r].seen : m.seq = s
    BY <1>t, Zenon DEF StillThere
  <2>2. m \in log /\ m.len > 0 /\ write_index - m.seq <= N
    BY <1>t, <2>1, Zenon DEF StillThere, ReaderInv
  <2>3. slotSeq[i] = s /\ slotLen[i] = m.len
    BY <2>1, <2>2, Zenon DEF SlotsInv, Retention, Holds
  <2> QED
    BY <2>1, <2>2, <2>3 DEF NumbersDistinct
<1>m. ASSUME slotSeq[i] = s
      PROVE  \/ \E m \in log : m.seq = s /\ Holds(i, m)
             \/ s = 0 /\ slotLen[i] = 0 /\ \A m \in log : m.seq # 0
  <2>1. MarkedSlot(i)
    BY <1>0, Zenon DEF SlotsInv
  <2>2. slotSeq[i] # Writing
    BY <1>0, <1>m DEF Writing
  <2> QED
    BY <1>m, <2>1, <2>2, Zenon DEF MarkedSlot
<1>1. ASSUME NEW op \in Ops, NEW seq \in 0 .. MaxSeq, NEW cap \in Caps,
             Begin(r, op, seq, cap)
      PROVE  ReaderInv(r)'
  <2>1. /\ log' = log /\ rd'[r].pc = "index" /\ rd'[r].res = "none"
        /\ rd'[r].seen = {m \in log : m.seq >= seq /\ m.len > 0}
    BY <1>1, Zenon DEF Begin, IdleReader, TypeOK
  <2> QED
    BY <2>1, Zenon DEF ReaderInv
<1>f. ASSUME NEW error \in {"no data", "overwritten", "not yet written"},
             rd'[r] = Fail(r, error), rd[r].pc # "idle",
             log' = log, write_index' = write_index, ~StillThere(r)
      PROVE  ReaderInv(r)'
  <2>1. /\ rd'[r].seen = rd[r].seen /\ rd'[r].seq = rd[r].seq
        /\ \/ rd'[r].pc \in {"unwritten", "behind"} /\ rd'[r].res = rd[r].res
           \/ rd'[r].pc = "idle" /\ rd'[r].res = error
    BY <1>f, <1>0, Zenon DEF Fail, Return, ReaderLocals
  <2>2. ~StillThere(r)'
    BY <1>f, <2>1, Zenon DEF StillThere
  <2>3. /\ rd[r].res = "none" /\ rd[r].seen \subseteq log
        /\ \A m \in rd[r].seen : m.len > 0
    BY <1>f, Zenon DEF ReaderInv
  <2>4. error # "none" /\ error # "ok"
    BY Zenon
  <2> QED
    BY <1>f, <2>1, <2>2, <2>3, <2>4, Zenon DEF ReaderInv
<1>2. ASSUME LoadWriteIndex(r)
      PROVE  ReaderInv(r)'
  <2>1. UNCHANGED <<memory, wr, log>> /\ rd[r].pc = "index"
    BY <1>2, Zenon DEF LoadWriteIndex
  <2>2. CASE s >= write_index
    <3>1. rd'[r] = Fail(r, "no data")
      <4>1. ~(write_index - s > N)
        BY <1>0, <2>2, RingAssumption
      <4> QED
        BY <1>2, <2>2, <4>1, Zenon DEF LoadWriteIndex, TypeOK
    <3>2. ~StillThere(r)
      BY <1>0, <1>t, <2>2
    <3> QED
      BY <1>f, <2>1, <3>1, <3>2, Zenon
  <2>3. CASE ~(s >= write_index) /\ write_index - s > N
    <3>1. rd'[r] = Fail(r, "overwritten")
      BY <1>2, <2>3, Zenon DEF LoadWriteIndex, TypeOK
    <3>2. ~StillThere(r)
      BY <1>0, <2>3, RingAssumption DEF StillThere
    <3> QED
      BY <1>f, <2>1, <3>1, <3>2, Zenon
  <2>4. CASE ~(s >= write_index) /\ ~(write_index - s > N)
    <3>1. rd'[r] = [rd[r] EXCEPT !.pc = "seq"]
      BY <1>2, <2>4, Zenon DEF LoadWriteIndex, TypeOK
    <3>2. /\ rd'[r].pc = "seq" /\ rd'[r].res = "none" /\ rd'[r].seq = s
          /\ rd'[r].seen = rd[r].seen
      BY <1>0, <2>1, <3>1, Zenon DEF ReaderLocals, ReaderInv
    <3>3. s < write_index
      BY <1>0, <2>4
    <3> QED
      BY <2>1, <3>2, <3>3, Zenon DEF ReaderInv
  <2> QED
    BY <2>2, <2>3, <2>4, Zenon
<1>3. ASSUME LoadSeq(r)
      PROVE  ReaderInv(r)'
  <2>1. UNCHANGED <<memory, wr, log>> /\ rd[r].pc = "seq"
    BY <1>3, Zenon DEF LoadSeq
  <2>2. CASE slotSeq[i] # s
    <3>1. rd'[r] = Fail(r, "not yet written")
      BY <1>3, <2>2, Zenon DEF LoadSeq, TypeOK
    <3> QED
      BY <1>f, <1>t, <2>1, <2>2, <3>1, Zenon
  <2>3. CASE slotSeq[i] = s
    <3>1. rd'[r] = [rd[r] EXCEPT !.pc = "len"]
      BY <1>3, <2>3, Zenon DEF LoadSeq, TypeOK
    <3>2. /\ rd'[r].pc = "len" /\ rd'[r].res = "none" /\ rd'[r].seq = s
          /\ rd'[r].seen = rd[r].seen /\ s < write_index
      BY <1>0, <2>1, <3>1, Zenon DEF ReaderLocals, ReaderInv
    <3>3. s = 0 \/ \E m \in log : m.seq = s
      BY <1>m, <2>3, Zenon
    <3> QED
      BY <2>1, <3>2, <3>3, Zenon DEF ReaderInv
  <2> QED
    BY <2>2, <2>3, Zenon
<1>c. ASSUME rd[r].pc = "copy"
      PROVE  /\ rd[r].res = "none" /\ s < write_index /\ rd[r].len > 0
             /\ slotSeq[i] = s => \E m \in log : Copied(r, m)
             /\ \A w \in Writers : Busy(w) /\ wr[w].msg.seq = s
                  => wr[w].pc = "publish" /\ Copied(r, wr[w].msg)
  BY <1>c, Zenon DEF ReaderInv
<1>4. ASSUME LoadLen(r)
      PROVE  ReaderInv(r)'
  <2> DEFINE n == slotLen[i]
  <2>1. /\ UNCHANGED <<memory, wr, log>> /\ rd[r].pc = "len"
        /\ s < write_index /\ rd[r].res = "none"
        /\ s = 0 \/ \E m \in log : m.seq = s
        /\ rd[r].seen \subseteq log /\ \A m \in rd[r].seen : m.len > 0
    BY <1>4, Zenon DEF LoadLen, ReaderInv
  <2>2. CASE n = 0
    <3>1. rd'[r] = Fail(r, "not yet written")
      <4>1. rd[r].cap \in Nat
        BY <1>0, Zenon DEF ReaderLocals
      <4>2. ~(n > rd[r].cap)
        BY <2>2, <4>1
      <4> QED
        BY <1>4, <2>2, <4>2, Zenon DEF LoadLen, TypeOK
    <3> QED
      BY <1>f, <1>t, <2>1, <2>2, <3>1, Zenon
  <2>3. CASE n # 0 /\ rd[r].op = "probe"
    <3>1. rd'[r] = Return(r, "ready")
      BY <1>4, <2>3, Zenon DEF LoadLen, TypeOK
    <3>2. rd'[r].pc = "idle" /\ rd'[r].res = "ready" /\ rd'[r].seen = rd[r].seen
      BY <1>0, <3>1, Zenon DEF Return, ReaderLocals
    <3> QED
      BY <2>1, <3>2, Zenon DEF ReaderInv
  <2>4. CASE n # 0 /\ rd[r].op # "probe" /\ n > rd[r].cap
    <3>1. rd'[r] = Return(r, "too small")
      BY <1>4, <2>4, Zenon DEF LoadLen, TypeOK
    <3>2. /\ rd'[r].pc = "idle" /\ rd'[r].res = "too small"
          /\ rd'[r].seen = rd[r].seen
      BY <1>0, <3>1, Zenon DEF Return, ReaderLocals
    <3> QED
      BY <2>1, <3>2, Zenon DEF ReaderInv
  <2>5. CASE n # 0 /\ rd[r].op # "probe" /\ ~(n > rd[r].cap)
    <3>1. rd'[r] = [rd[r] EXCEPT !.pc = "copy", !.len = n, !.left = 1 .. n]
      BY <1>4, <2>5, Zenon DEF LoadLen, TypeOK
    <3>2. /\ rd'[r].pc = "copy" /\ rd'[r].len = n /\ rd'[r].left = 1 .. n
          /\ rd'[r].seq = s /\ rd'[r].seen = rd[r].seen /\ rd'[r].res = "none"
      BY <1>0, <2>1, <3>1, Zenon DEF ReaderLocals
    <3>3. \A m : m.seq = s /\ m.len = n => Copied(r, m)'
      BY <3>2, Zenon DEF Copied
    <3>4. slotSeq[i] = s => \E m \in log : Copied(r, m)'
      BY <1>m, <2>5, <3>3, Zenon DEF Holds
    <3>5. ASSUME NEW w \in Writers, Busy(w), wr[w].msg.seq = s
          PROVE  wr[w].pc = "publish" /\ wr[w].msg.len = n
      <4>1. SlotOfWriter(w) /\ wr[w].pc \in WriterPcs
        BY <3>5, Zenon DEF SlotsInv, TypeOK, WriterLocals
      <4>2. s = 0
        BY <2>1, <3>5, Zenon DEF NumbersDistinct
      <4>3. wr[w].pc = "publish"
        BY <2>5, <3>5, <4>1, <4>2, Zenon DEF SlotOfWriter, WriterPcs
      <4> QED
        BY <3>5, <4>1, <4>3, Zenon DEF SlotOfWriter, Holds
    <3>6. \A w \in Writers : Busy(w)' /\ wr'[w].msg.seq = s
            => wr'[w].pc = "publish" /\ Copied(r, wr[w].msg)'
      BY <2>1, <3>3, <3>5, Zenon
    <3>7. n > 0
      BY <1>0, <2>5
    <3> QED
      BY <2>1, <3>2, <3>4, <3>6, <3>7, Zenon DEF ReaderInv
  <2> QED
    BY <2>2, <2>3, <2>4, <2>5, Zenon
<1>5. ASSUME NEW k \in Chunks, CopyOut(r, k)
      PROVE  ReaderInv(r)'
  <2>1. /\ UNCHANGED <<memory, wr, log>> /\ rd[r].pc = "copy"
        /\ rd[r].seen \subseteq log /\ \A m \in rd[r].seen : m.len > 0
    BY <1>5, Zenon DEF CopyOut, ReaderInv
  <2>2. /\ rd'[r].pc = "copy" /\ rd'[r].len = rd[r].len
        /\ rd'[r].seq = s /\ rd'[r].seen = rd[r].seen
        /\ rd'[r].res = rd[r].res
        /\ rd'[r].left = rd[r].left \ {k}
        /\ rd'[r].buf = [rd[r].buf EXCEPT ![k] = slotData[i][k]]
    BY <1>5, <2>1, <1>0, Zenon DEF CopyOut, TypeOK, ReaderLocals
  <2>3. ASSUME NEW m, Copied(r, m), Holds(i, m)
        PROVE  Copied(r, m)'
    <3>1. rd[r].buf \in [Chunks -> Messages \cup {Blank}]
      BY <1>0, Zenon DEF ReaderLocals
    <3>2. m.len \in 0 .. SlotCap
      BY <1>0, <2>3, Zenon DEF Copied, ReaderLocals
    <3>3. ASSUME NEW c \in 1 .. m.len, c \notin rd'[r].left
          PROVE  rd'[r].buf[c] = m
      <4>1. c \in Chunks
        BY <3>2, RingAssumption DEF Chunks
      <4>2. CASE c = k
        BY <2>2, <2>3, <3>1, <4>1, <4>2, Zenon DEF Holds
      <4>3. CASE c # k
        BY <2>2, <2>3, <3>1, <3>3, <4>1, <4>3, Zenon DEF Copied
      <4> QED
        BY <4>2, <4>3, Zenon
    <3> QED
      BY <2>2, <2>3, <3>3, Zenon DEF Copied
  <2>4. ASSUME slotSeq[i] = s
        PROVE  \E m \in log : Copied(r, m)'
    <3>1. PICK m \in log : Copied(r, m)
      BY <1>c, <2>1, <2>4, Zenon
    <3>2. Holds(i, m)
      <4>1. m.seq = s
        BY <3>1, Zenon DEF Copied
      <4>2. PICK o \in log : o.seq = s /\ Holds(i, o)
        BY <1>m, <2>4, <4>1, Zenon
      <4> QED
        BY <4>1, <4>2, Zenon DEF NumbersDistinct
    <3> QED
      BY <2>3, <3>1, <3>2, Zenon
  <2>5. ASSUME NEW w \in Writers, Busy(w), wr[w].msg.seq = s
        PROVE  wr[w].pc = "publish" /\ \A m : m = wr[w].msg => Copied(r, m)'
    <3>1. wr[w].pc = "publish" /\ Copied(r, wr[w].msg)
      BY <1>c, <2>1, <2>5, Zenon
    <3>2. Holds(i, wr[w].msg)
      BY <2>5, <3>1, Zenon DEF SlotsInv, SlotOfWriter
    <3> QED
      BY <2>3, <3>1, <3>2, Zenon
  <2>6. \A w \in Writers : Busy(w)' /\ wr'[w].msg.seq = s
          => wr'[w].pc = "publish" /\ Copied(r, wr[w].msg)'
    BY <2>1, <2>5, Zenon
  <2> QED
    BY <1>c, <2>1, <2>2, <2>4, <2>6, Zenon DEF ReaderInv
<1>o. ASSUME rd[r].pc \in {"copy", "load", "store"}, rd[r].left = {},
             NEW m \in log, Copied(r, m), log' = log,
             \/ rd'[r] = Return(r, "ok")
             \/ rd'[r] = [rd[r] EXCEPT !.pc = "load"]
             \/ rd'[r] = [rd[r] EXCEPT !.pc = "store"]
      PROVE  ReaderInv(r)'
  <2>1. /\ rd'[r].len = rd[r].len /\ rd'[r].seq = s /\ rd'[r].left = {}
        /\ rd'[r].seen = rd[r].seen /\ rd'[r].buf = rd[r].buf
        /\ \/ rd'[r].pc = "idle" /\ rd'[r].res = "ok"
           \/ rd'[r].pc \in {"load", "store"} /\ rd'[r].res = rd[r].res
    BY <1>0, <1>o, Zenon DEF Return, ReaderLocals
  <2>2. Copied(r, m)'
    BY <1>o, <2>1, Zenon DEF Copied
  <2>3. /\ rd[r].res = "none" /\ rd[r].seen \subseteq log
        /\ \A x \in rd[r].seen : x.len > 0
    BY <1>o, Zenon DEF ReaderInv
  <2> QED
    BY <1>o, <2>1, <2>2, <2>3, Zenon DEF ReaderInv
<1>6. ASSUME Recheck(r)
      PROVE  ReaderInv(r)'
  <2>1. /\ UNCHANGED <<memory, wr, log>> /\ rd[r].pc = "copy"
        /\ rd[r].left = {}
    BY <1>6, Zenon DEF Recheck
  <2>2. CASE slotSeq[i] # s
    <3>1. rd'[r] = Return(r, "overwritten") /\ ~StillThere(r)
      BY <1>6, <1>t, <2>2, Zenon DEF Recheck, TypeOK
    <3>2. /\ rd'[r].pc = "idle" /\ rd'[r].res = "overwritten"
          /\ rd'[r].seen = rd[r].seen /\ rd'[r].seq = s
      BY <1>0, <3>1, Zenon DEF Return, ReaderLocals
    <3>3. ~StillThere(r)'
      BY <2>1, <3>1, <3>2, Zenon DEF StillThere
    <3> QED
      BY <2>1, <3>2, <3>3, Zenon DEF ReaderInv
  <2>3. CASE slotSeq[i] = s
    <3>1. PICK m \in log : Copied(r, m)
      BY <1>c, <2>1, <2>3, Zenon
    <3>2. \/ rd'[r] = Return(r, "ok")
          \/ rd'[r] = [rd[r] EXCEPT !.pc = "load"]
      BY <1>6, <2>3, Zenon DEF Recheck, TypeOK
    <3> QED
      BY <1>o, <2>1, <3>1, <3>2, Zenon
  <2> QED
    BY <2>2, <2>3, Zenon
<1>7. ASSUME LoadWatermark(r) \/ StoreWatermark(r)
      PROVE  ReaderInv(r)'
  <2>1. log' = log /\ rd[r].pc \in {"load", "store"}
    BY <1>7, Zenon DEF LoadWatermark, StoreWatermark
  <2>2. \/ rd'[r] = Return(r, "ok")
        \/ rd'[r] = [rd[r] EXCEPT !.pc = "store"]
    BY <1>7, Zenon DEF LoadWatermark, StoreWatermark, TypeOK
  <2>3. rd[r].left = {} /\ \E m \in log : Copied(r, m)
    BY <2>1, Zenon DEF ReaderInv
  <2> QED
    BY <1>o, <2>1, <2>2, <2>3, Zenon
<1>8. ASSUME ProbeUnwritten(r) \/ ProbeWriteIndex(r) \/ ProbeReadIndex(r)
      PROVE  ReaderInv(r)'
  <2>1. /\ log' = log /\ write_index' = write_index
        /\ rd[r].pc \in {"unwritten", "behind", "compare"}
    BY <1>8, Zenon DEF ProbeUnwritten, ProbeWriteIndex, ProbeReadIndex
  <2>2. /\ ~StillThere(r) /\ rd[r].res = "none"
        /\ rd[r].seen \subseteq log /\ \A m \in rd[r].seen : m.len > 0
    BY <2>1, Zenon DEF ReaderInv
  <2>3. \/ rd'[r] = Return(r, "ready")
        \/ rd'[r] = Return(r, "not ready")
        \/ rd'[r] = [rd[r] EXCEPT !.pc = "compare", !.widx = write_index]
    BY <1>8, Zenon DEF ProbeUnwritten, ProbeWriteIndex, ProbeReadIndex, TypeOK
  <2>4. /\ rd'[r].seen = rd[r].seen /\ rd'[r].seq = s
        /\ \/ rd'[r].pc = "idle" /\ rd'[r].res \in {"ready", "not ready"}
           \/ rd'[r].pc = "compare" /\ rd'[r].res = "none"
    BY <1>0, <2>2, <2>3, Zenon DEF Return, ReaderLocals
  <2>5. ~StillThere(r)'
    BY <2>1, <2>2, <2>4, Zenon DEF StillThere
  <2> QED
    BY <2>1, <2>2, <2>4, <2>5, Zenon DEF ReaderInv
<1> QED
  BY <1>1, <1>2, <1>3, <1>4, <1>5, <1>6, <1>7, <1>8, Zenon DEF ReaderStep

\* Every step keeps every reader's invariant until a writer is lapped.
LEMMA ReadersInductive ==
  TypeOK /\ NumbersDistinct /\ SlotsInv /\ ReadersInv /\ [Next]_vars
    => ReadersInv'
<1> SUFFICES ASSUME TypeOK, NumbersDistinct, SlotsInv, ReadersInv,
                    [Next]_vars, ~lapped', NEW q \in Readers
             PROVE  ReaderInv(q)'
  BY Zenon DEF ReadersInv
<1>0. ~lapped
  <2>1. ASSUME NEW w \in Writers, NEW len \in Lens, Reserve(w, len)
        PROVE  ~lapped
    BY <2>1, Zenon DEF Reserve
  <2>2. ASSUME NEW w \in Writers, Publish(w)
        PROVE  ~lapped
    BY <2>2, Zenon DEF Publish
  <2> QED
    BY <2>1, <2>2, OtherSteps, Zenon
<1>q. ReaderInv(q)
  BY <1>0, Zenon DEF ReadersInv
<1>1. ASSUME NEW w \in Writers, WriterStep(w)
      PROVE  ReaderInv(q)'
  BY <1>1, <1>q, WriterStepReaders, Zenon
<1>2. ASSUME ReaderStep(q)
      PROVE  ReaderInv(q)'
  BY <1>2, <1>0, <1>q, OwnReaderStep, Zenon
<1>3. ASSUME NEW r \in Readers, r # q, ReaderStep(r)
      PROVE  ReaderInv(q)'
  <2>1. /\ UNCHANGED <<write_index, slotSeq, wr, log>>
        /\ rd'[q] = rd[q]
    BY <1>3, Zenon
    DEF ReaderStep, Begin, LoadWriteIndex, LoadSeq, LoadLen, CopyOut, Recheck,
        LoadWatermark, StoreWatermark, ProbeUnwritten, ProbeWriteIndex,
        ProbeReadIndex, TypeOK
  <2>2. write_index \in Nat
    BY Zenon DEF TypeOK
  <2>3. Undisturbed(q)
    BY <2>1, Zenon DEF Undisturbed
  <2> QED
    BY <1>q, <2>1, <2>2, <2>3, WaitingReader
<1>4. CASE UNCHANGED vars
  <2>1. write_index \in Nat
    BY Zenon DEF TypeOK
  <2>2. UNCHANGED <<write_index, slotSeq, wr, rd, log>>
    BY <1>4, Zenon DEF vars
  <2>3. Undisturbed(q)
    BY <2>2, Zenon DEF Undisturbed
  <2> QED
    BY <1>q, <2>1, <2>2, <2>3, WaitingReader
<1> QED
  BY <1>1, <1>2, <1>3, <1>4, Zenon DEF Next

----------------------------------------------------------------------------
(* The results *)

\* The invariant holds of a ring that create_with_fd has just zeroed.
LEMMA IInvInit == Init => IInv
<1> SUFFICES ASSUME Init PROVE IInv
  BY Zenon
<1>1. TypeOK
  BY TypeInit, Zenon
<1>2. NumbersDistinct /\ WithinWindow
  BY Zenon DEF Init, NumbersDistinct, WithinWindow, IdleWriter
<1>3. SlotsInv
  BY Zenon DEF Init, SlotsInv, MarkedSlot, Retention, IdleWriter
<1>4. ReadersInv
  BY Zenon DEF Init, ReadersInv, ReaderInv, IdleReader
<1> QED
  BY <1>1, <1>2, <1>3, <1>4, Zenon DEF IInv

\* IInv is an invariant of the ring.
THEOREM InvariantHolds == Spec => []IInv
<1>1. IInv /\ [Next]_vars => IInv'
  BY TypeInductive, NumbersInductive, WindowInductive, SlotsInductive,
     ReadersInductive, Zenon DEF IInv
<1> QED
  BY <1>1, IInvInit, PTL DEF Spec

\* Reads are torn only after a writer was lapped.
THEOREM TornOnlyIfLappedHolds == Spec => []TornOnlyIfLapped
<1>1. IInv => TornOnlyIfLapped
  <2> SUFFICES ASSUME ReadersInv, ~lapped, NEW r \in Readers, rd[r].res = "ok"
               PROVE  \E m \in log :
                        /\ m.seq = rd[r].seq
                        /\ m.len = rd[r].len
                        /\ \A k \in 1 .. m.len : rd[r].buf[k] = m
    BY Zenon DEF IInv, TornOnlyIfLapped, NoTornRead
  <2>1. rd[r].left = {} /\ \E m \in log : Copied(r, m)
    BY Zenon DEF ReadersInv, ReaderInv
  <2> QED
    BY <2>1, Zenon DEF Copied
<1> QED
  BY <1>1, InvariantHolds, PTL

\* The ring retains the last N finished messages until a writer is lapped.
THEOREM RetentionHolds == Spec => []Retention
<1>1. IInv => Retention
  BY Zenon DEF IInv, SlotsInv, Retention
<1> QED
  BY <1>1, InvariantHolds, PTL

\* read misses no message that was there before the call and is still one of
\* the last N.
THEOREM ReadFindsRetainedHolds == Spec => []ReadFindsRetained
<1>1. IInv => ReadFindsRetained
  BY Zenon DEF IInv, ReadersInv, ReaderInv, ReadFindsRetained
<1> QED
  BY <1>1, InvariantHolds, PTL

\* data_available_from reports every cursor whose message was there before the
\* call and is still one of the last N.
THEOREM ProbeFindsRetainedHolds == Spec => []ProbeFindsRetained
<1>1. IInv => ProbeFindsRetained
  BY Zenon DEF IInv, ReadersInv, ReaderInv, ProbeFindsRetained
<1> QED
  BY <1>1, InvariantHolds, PTL

\* The last N messages stay whole, and neither a read nor data_available_from misses
\* one of them that was there before the call.
THEOREM RetainedIsFoundHolds == Spec => []RetainedIsFound
<1>1. Retention /\ ReadFindsRetained /\ ProbeFindsRetained => RetainedIsFound
  BY Zenon DEF RetainedIsFound
<1> QED
  BY <1>1, RetentionHolds, ReadFindsRetainedHolds, ProbeFindsRetainedHolds, PTL

\* A single producer is never lapped: it is the only one to reserve slots.
LEMMA SingleNotLapped ==
  ASSUME SingleProducer
  PROVE  Spec => []~lapped
<1>1. Init => ~lapped
  BY Zenon DEF Init
<1>2. TypeOK /\ ~lapped /\ [Next]_vars => ~lapped'
  <2> SUFFICES ASSUME TypeOK, ~lapped, [Next]_vars
               PROVE  ~lapped'
    BY Zenon
  <2>1. ASSUME NEW w \in Writers, NEW len \in Lens, Reserve(w, len)
        PROVE  ~lapped'
    <3>1. \A v \in Writers : ~Laps(v, write_index + 1)
      BY <2>1, Zenon DEF Reserve, Laps, SingleProducer
    <3> QED
      BY <2>1, <3>1, Zenon DEF Reserve
  <2>2. ASSUME NEW w \in Writers, Publish(w)
        PROVE  ~lapped'
    BY <2>2, Zenon DEF Publish
  <2> QED
    BY <2>1, <2>2, OtherSteps, Zenon
<1> QED
  BY <1>1, <1>2, TypeCorrect, PTL DEF Spec

\* With a single producer, and any number of readers, no read is torn: this
\* is the case the comment on RingBuffer supports.
THEOREM NoTornReadSingle ==
  ASSUME SingleProducer
  PROVE  Spec => []NoTornRead
<1>1. TornOnlyIfLapped /\ ~lapped => NoTornRead
  BY Zenon DEF TornOnlyIfLapped
<1> QED
  BY <1>1, SingleNotLapped, TornOnlyIfLappedHolds, PTL

-----------------------------------------------------------------------------
(* The refinement of TopicLog *)

\* What the refinement needs beside IInv: a buffer that is being filled is large enough,
\* and the fallback of data_available_from compares with an index that was handed out ...
ReaderCall(x, index) ==
  /\ x.pc \in {"copy", "load", "store"} => x.op # "probe" /\ x.len <= x.cap
  /\ x.pc \in {"unwritten", "behind", "compare"} => x.op = "probe"
  /\ x.pc = "compare" => x.widx <= index

\* ... and a message that is on its way has a number and a length of the log.
CallsInv ==
  /\ write_index <= MaxSeq
  /\ \A w \in Writers : Busy(w) => wr[w].msg.len \in Lens
  /\ \A r \in Readers : ReaderCall(rd[r], write_index)

----------------------------------------------------------------------------
(* CallsInv is inductive *)

USE DEF memory, Busy

\* How the range checks on write_index end: their conditions exclude each other.
LEMMA LoadWriteIndexCases ==
  ASSUME TypeOK, NEW r \in Readers, LoadWriteIndex(r)
  PROVE  \/ rd' = [rd EXCEPT ![r] = Fail(r, "no data")]
         \/ rd' = [rd EXCEPT ![r] = Fail(r, "overwritten")]
         \/ rd' = [rd EXCEPT ![r] = [rd[r] EXCEPT !.pc = "seq"]]
<1>1. rd[r].seq \in Nat /\ write_index \in Nat
  BY Zenon DEF TypeOK, ReaderLocals
<1>2. CASE rd[r].seq >= write_index
  <2>1. ~(write_index - rd[r].seq > N)
    BY <1>1, <1>2, RingAssumption
  <2> QED
    BY <1>2, <2>1, Zenon DEF LoadWriteIndex
<1>3. CASE ~(rd[r].seq >= write_index) /\ write_index - rd[r].seq > N
  BY <1>3, Zenon DEF LoadWriteIndex
<1>4. CASE ~(rd[r].seq >= write_index) /\ ~(write_index - rd[r].seq > N)
  BY <1>4, Zenon DEF LoadWriteIndex
<1> QED
  BY <1>2, <1>3, <1>4, Zenon

\* How the checks on the length end.
LEMMA LoadLenCases ==
  ASSUME TypeOK, NEW r \in Readers, LoadLen(r), NEW n, n = slotLen[SlotOf(rd[r].seq)]
  PROVE  /\ n \in 0 .. SlotCap
         /\ \/ rd' = [rd EXCEPT ![r] = Fail(r, "not yet written")]
            \/ rd[r].op = "probe" /\ rd' = [rd EXCEPT ![r] = Return(r, "ready")]
            \/ rd[r].op # "probe" /\ rd' = [rd EXCEPT ![r] = Return(r, "too small")]
            \/ /\ rd[r].op # "probe" /\ n <= rd[r].cap
               /\ rd' = [rd EXCEPT ![r] = [rd[r] EXCEPT !.pc = "copy", !.len = n, !.left = 1 .. n]]
<1>1. n \in 0 .. SlotCap /\ n \in Nat /\ rd[r].cap \in Nat
  BY SlotInRange, RingAssumption DEF TypeOK, ReaderLocals
<1>2. CASE n = 0
  <2>1. ~(n > rd[r].cap)
    BY <1>1, <1>2
  <2> QED
    BY <1>1, <1>2, <2>1, Zenon DEF LoadLen
<1>3. CASE n # 0 /\ rd[r].op = "probe"
  BY <1>1, <1>3, Zenon DEF LoadLen
<1>4. CASE n # 0 /\ rd[r].op # "probe" /\ n > rd[r].cap
  BY <1>1, <1>4, Zenon DEF LoadLen
<1>5. CASE n # 0 /\ rd[r].op # "probe" /\ ~(n > rd[r].cap)
  <2>1. n <= rd[r].cap
    BY <1>1, <1>5
  <2> QED
    BY <1>1, <1>5, <2>1, Zenon DEF LoadLen
<1> QED
  BY <1>2, <1>3, <1>4, <1>5, Zenon

\* A reader that has returned, or goes on to the fallback, satisfies its part.
LEMMA ReturnCall ==
  ASSUME TypeOK, NEW r \in Readers, NEW index
  PROVE  /\ \A result : ReaderCall(Return(r, result), index)
         /\ \A error : ReaderCall(Fail(r, error), index)
<1>1. rd[r] \in ReaderLocals
  BY Zenon DEF TypeOK
<1>2. ASSUME NEW result
      PROVE  ReaderCall(Return(r, result), index)
  BY <1>1, Zenon DEF Return, ReaderCall, ReaderLocals
<1>3. ASSUME NEW error, rd[r].op = "probe"
      PROVE  ReaderCall(Fail(r, error), index)
  <2> DEFINE pc == IF error = "not yet written" THEN "unwritten" ELSE "behind"
  <2>1. pc \in {"unwritten", "behind"}
    BY Zenon
  <2>2. Fail(r, error) = [rd[r] EXCEPT !.pc = pc]
    BY <1>3, Zenon DEF Fail
  <2> HIDE DEF pc
  <2> QED
    BY <1>1, <1>3, <2>1, <2>2, Zenon DEF ReaderCall, ReaderLocals
<1>4. ASSUME NEW error, rd[r].op # "probe"
      PROVE  ReaderCall(Fail(r, error), index)
  BY <1>2, <1>4, Zenon DEF Fail
<1> QED
  BY <1>2, <1>3, <1>4, Zenon

\* A step that gives one reader the locals X preserves CallsInv if X satisfies its part.
LEMMA ReaderCallStep ==
  ASSUME TypeOK, CallsInv, NEW r \in Readers, NEW X, ReaderCall(X, write_index),
         rd' = [rd EXCEPT ![r] = X], UNCHANGED <<write_index, wr>>
  PROVE  CallsInv'
<1>1. \A q \in Readers : rd'[q] = IF q = r THEN X ELSE rd[q]
  BY Zenon DEF TypeOK
<1>2. \A q \in Readers : ReaderCall(rd'[q], write_index)
  BY <1>1, Zenon DEF CallsInv
<1> QED
  BY <1>2, Zenon DEF CallsInv, ReaderCall

\* Every step of a writer preserves CallsInv: only Reserve hands out a number, which is
\* within the bound, and takes a message, which has a length of the log.
LEMMA WriterCallStep ==
  ASSUME TypeOK, CallsInv, NEW w \in Writers, WriterStep(w)
  PROVE  CallsInv'
<1>1. /\ write_index \in Nat
      /\ write_index' = write_index \/ (write_index < MaxSeq /\ write_index' = write_index + 1)
      /\ UNCHANGED rd
  BY Zenon
  DEF TypeOK, WriterStep, Reserve, LoadReadIndex, AdvanceReadIndex, Invalidate,
      ClearLen, CopyIn, StoreLen, Publish, Crash
<1>2. \A r \in Readers : rd[r].widx \in Nat
  BY Zenon DEF TypeOK, ReaderLocals
<1>3. \A r \in Readers : ReaderCall(rd'[r], write_index')
  BY <1>1, <1>2 DEF CallsInv, ReaderCall
<1>4. \A v \in Writers : wr'[v].pc # "idle" => wr'[v].msg.len \in Lens
  <2> USE DEF TypeOK, CallsInv, WriterLocals
  <2>1. CASE \E len \in Lens : Reserve(w, len)
    BY <2>1 DEF Reserve
  <2>2. CASE Publish(w) \/ Crash(w)
    BY <2>2 DEF Publish, Crash, IdleWriter
  <2>3. CASE LoadReadIndex(w)
    BY <2>3, Zenon DEF LoadReadIndex
  <2>4. CASE AdvanceReadIndex(w)
    BY <2>4, Zenon DEF AdvanceReadIndex
  <2>5. CASE Invalidate(w)
    BY <2>5, Zenon DEF Invalidate
  <2>6. CASE ClearLen(w)
    BY <2>6, Zenon DEF ClearLen
  <2>7. CASE \E k \in Chunks : CopyIn(w, k)
    BY <2>7 DEF CopyIn
  <2>8. CASE StoreLen(w)
    BY <2>8, Zenon DEF StoreLen
  <2> QED
    BY <2>1, <2>2, <2>3, <2>4, <2>5, <2>6, <2>7, <2>8, Zenon DEF WriterStep
<1>5. write_index' <= MaxSeq
  BY <1>1, RingAssumption DEF CallsInv
<1> QED
  BY <1>3, <1>4, <1>5, Zenon DEF CallsInv, ReaderCall

\* The locals that the steps of a reader leave satisfy its part of CallsInv.
LEMMA OwnReaderCall ==
  ASSUME TypeOK, CallsInv, NEW r \in Readers, ReaderStep(r)
  PROVE  CallsInv'
<1>1. rd[r] \in ReaderLocals /\ ReaderCall(rd[r], write_index) /\ write_index \in Nat
  BY Zenon DEF TypeOK, CallsInv
<1>2. CASE \E op \in Ops, seq \in 0 .. MaxSeq, cap \in Caps : Begin(r, op, seq, cap)
  <2>1. PICK op \in Ops, seq \in 0 .. MaxSeq, cap \in Caps : Begin(r, op, seq, cap)
    BY <1>2, Zenon
  <2> DEFINE X == [IdleReader EXCEPT !.pc = "index", !.op = op, !.seq = seq, !.cap = cap,
                     !.seen = {m \in log : m.seq >= seq /\ m.len > 0}]
  <2>2. ReaderCall(X, write_index)
    BY Zenon DEF IdleReader, ReaderCall
  <2>3. rd' = [rd EXCEPT ![r] = X] /\ UNCHANGED <<write_index, wr>>
    BY <2>1, Zenon DEF Begin
  <2> HIDE DEF X
  <2> QED
    BY <2>2, <2>3, ReaderCallStep, Zenon
<1>3. CASE LoadWriteIndex(r)
  <2>1. \/ rd' = [rd EXCEPT ![r] = Fail(r, "no data")]
        \/ rd' = [rd EXCEPT ![r] = Fail(r, "overwritten")]
        \/ rd' = [rd EXCEPT ![r] = [rd[r] EXCEPT !.pc = "seq"]]
    BY <1>3, LoadWriteIndexCases, Zenon
  <2>2. ReaderCall([rd[r] EXCEPT !.pc = "seq"], write_index)
    BY <1>3, <1>1, Zenon DEF ReaderCall, ReaderLocals, LoadWriteIndex
  <2>3. ASSUME NEW X, ReaderCall(X, write_index), rd' = [rd EXCEPT ![r] = X]
        PROVE  CallsInv'
    BY <1>3, <2>3, ReaderCallStep, Zenon DEF LoadWriteIndex
  <2> QED
    BY <2>1, <2>2, <2>3, ReturnCall, Zenon
<1>4. CASE LoadSeq(r)
  <2>1. \/ rd' = [rd EXCEPT ![r] = Fail(r, "not yet written")]
        \/ rd' = [rd EXCEPT ![r] = [rd[r] EXCEPT !.pc = "len"]]
    BY <1>4, Zenon DEF LoadSeq
  <2>2. ReaderCall([rd[r] EXCEPT !.pc = "len"], write_index)
    BY <1>4, <1>1, Zenon DEF ReaderCall, ReaderLocals, LoadSeq
  <2>3. ASSUME NEW X, ReaderCall(X, write_index), rd' = [rd EXCEPT ![r] = X]
        PROVE  CallsInv'
    BY <1>4, <2>3, ReaderCallStep, Zenon DEF LoadSeq
  <2> QED
    BY <2>1, <2>2, <2>3, ReturnCall, Zenon
<1>5. CASE LoadLen(r)
  <2> DEFINE n == slotLen[SlotOf(rd[r].seq)]
             filling == [rd[r] EXCEPT !.pc = "copy", !.len = n, !.left = 1 .. n]
  <2>1. \/ rd' = [rd EXCEPT ![r] = Fail(r, "not yet written")]
        \/ rd' = [rd EXCEPT ![r] = Return(r, "ready")]
        \/ rd' = [rd EXCEPT ![r] = Return(r, "too small")]
        \/ rd[r].op # "probe" /\ n <= rd[r].cap /\ rd' = [rd EXCEPT ![r] = filling]
    BY <1>5, LoadLenCases, Zenon
  <2>2. ASSUME rd[r].op # "probe", n <= rd[r].cap
        PROVE  ReaderCall(filling, write_index)
    BY <1>1, <2>2, Zenon DEF ReaderCall, ReaderLocals
  <2>3. ASSUME NEW X, ReaderCall(X, write_index), rd' = [rd EXCEPT ![r] = X]
        PROVE  CallsInv'
    BY <1>5, <2>3, ReaderCallStep, Zenon DEF LoadLen
  <2> HIDE DEF n, filling
  <2> QED
    BY <2>1, <2>2, <2>3, ReturnCall, Zenon
<1>6. CASE \E k \in Chunks : CopyOut(r, k)
  <2>1. PICK k \in Chunks : CopyOut(r, k)
    BY <1>6, Zenon
  <2> DEFINE X == [rd[r] EXCEPT !.left = @ \ {k},
                                !.buf = [@ EXCEPT ![k] = slotData[SlotOf(rd[r].seq)][k]]]
  <2>2. ReaderCall(X, write_index)
    BY <1>1, Zenon DEF ReaderCall, ReaderLocals
  <2>3. rd' = [rd EXCEPT ![r] = X] /\ UNCHANGED <<write_index, wr>>
    BY <2>1, Zenon DEF CopyOut, TypeOK, ReaderLocals
  <2> HIDE DEF X
  <2> QED
    BY <2>2, <2>3, ReaderCallStep, Zenon
<1>7. CASE Recheck(r)
  <2>1. \/ rd' = [rd EXCEPT ![r] = Return(r, "overwritten")]
        \/ rd' = [rd EXCEPT ![r] = Return(r, "ok")]
        \/ rd' = [rd EXCEPT ![r] = [rd[r] EXCEPT !.pc = "load"]]
    BY <1>7, Zenon DEF Recheck
  <2>2. ReaderCall([rd[r] EXCEPT !.pc = "load"], write_index)
    BY <1>7, <1>1, Zenon DEF ReaderCall, ReaderLocals, Recheck
  <2>3. ASSUME NEW X, ReaderCall(X, write_index), rd' = [rd EXCEPT ![r] = X]
        PROVE  CallsInv'
    BY <1>7, <2>3, ReaderCallStep, Zenon DEF Recheck
  <2> QED
    BY <2>1, <2>2, <2>3, ReturnCall, Zenon
<1>8. CASE LoadWatermark(r)
  <2>1. \/ rd' = [rd EXCEPT ![r] = Return(r, "ok")]
        \/ rd' = [rd EXCEPT ![r] = [rd[r] EXCEPT !.pc = "store"]]
    BY <1>8, Zenon DEF LoadWatermark
  <2>2. ReaderCall([rd[r] EXCEPT !.pc = "store"], write_index)
    BY <1>8, <1>1, Zenon DEF ReaderCall, ReaderLocals, LoadWatermark
  <2>3. ASSUME NEW X, ReaderCall(X, write_index), rd' = [rd EXCEPT ![r] = X]
        PROVE  CallsInv'
    BY <1>8, <2>3, ReaderCallStep, Zenon DEF LoadWatermark
  <2> QED
    BY <2>1, <2>2, <2>3, ReturnCall, Zenon
<1>9. CASE StoreWatermark(r)
  <2>1. \/ rd' = [rd EXCEPT ![r] = Return(r, "ok")]
    BY <1>9, Zenon DEF StoreWatermark
  <2>3. ASSUME NEW X, ReaderCall(X, write_index), rd' = [rd EXCEPT ![r] = X]
        PROVE  CallsInv'
    BY <1>9, <2>3, ReaderCallStep, Zenon DEF StoreWatermark
  <2> QED
    BY <2>1, <2>3, ReturnCall, Zenon
<1>10. CASE ProbeUnwritten(r)
  <2>1. \/ rd' = [rd EXCEPT ![r] = Return(r, "ready")]
        \/ rd' = [rd EXCEPT ![r] = Return(r, "not ready")]
    BY <1>10, Zenon DEF ProbeUnwritten
  <2>3. ASSUME NEW X, ReaderCall(X, write_index), rd' = [rd EXCEPT ![r] = X]
        PROVE  CallsInv'
    BY <1>10, <2>3, ReaderCallStep, Zenon DEF ProbeUnwritten
  <2> QED
    BY <2>1, <2>3, ReturnCall, Zenon
<1>11. CASE ProbeWriteIndex(r)
  <2> DEFINE X == [rd[r] EXCEPT !.pc = "compare", !.widx = write_index]
  <2>1. ReaderCall(X, write_index)
    BY <1>1, <1>11 DEF ReaderCall, ReaderLocals, ProbeWriteIndex
  <2>2. rd' = [rd EXCEPT ![r] = X] /\ UNCHANGED <<write_index, wr>>
    BY <1>11, Zenon DEF ProbeWriteIndex, TypeOK
  <2> HIDE DEF X
  <2> QED
    BY <2>1, <2>2, ReaderCallStep, Zenon
<1>12. CASE ProbeReadIndex(r)
  <2>1. \/ rd' = [rd EXCEPT ![r] = Return(r, "ready")]
        \/ rd' = [rd EXCEPT ![r] = Return(r, "not ready")]
    BY <1>12, Zenon DEF ProbeReadIndex
  <2>3. ASSUME NEW X, ReaderCall(X, write_index), rd' = [rd EXCEPT ![r] = X]
        PROVE  CallsInv'
    BY <1>12, <2>3, ReaderCallStep, Zenon DEF ProbeReadIndex
  <2> QED
    BY <2>1, <2>3, ReturnCall, Zenon
<1> QED
  BY <1>2, <1>3, <1>4, <1>5, <1>6, <1>7, <1>8, <1>9, <1>10, <1>11, <1>12, Zenon DEF ReaderStep

\* CallsInv is inductive relative to the types.
LEMMA CallsInductive == TypeOK /\ CallsInv /\ [Next]_vars => CallsInv'
<1>1. ASSUME CallsInv, UNCHANGED vars
      PROVE  CallsInv'
  BY <1>1, Zenon DEF CallsInv, ReaderCall, vars
<1> QED
  BY <1>1, WriterCallStep, OwnReaderCall, Zenon DEF Next

\* It holds initially.
LEMMA CallsInit == Init => CallsInv
  BY RingAssumption DEF Init, CallsInv, ReaderCall, IdleWriter, IdleReader

----------------------------------------------------------------------------
(* Steps of readers and what they are to the log *)

\* What the reader has to show for its call once it has returned.
GotOf(r, result) ==
  IF result = "ok" THEN [k \in 1 .. rd[r].len |-> rd[r].buf[k]] ELSE <<>>

\* A step inside a call is a stutter of the log.
LEMMA SilentStep ==
  ASSUME TypeOK, NEW r \in Readers, rd[r].pc # "idle", rd[r].res = "none",
         NEW X, X.pc # "idle", X.op = rd[r].op, X.seq = rd[r].seq, X.cap = rd[r].cap,
         X.seen = rd[r].seen, X.res = "none",
         rd' = [rd EXCEPT ![r] = X], UNCHANGED <<write_index, log, lapped>>
  PROVE  UNCHANGED Log!vars
<1>1. \A q \in Readers : rd'[q] = IF q = r THEN X ELSE rd[q]
  BY Zenon DEF TypeOK
<1>2. ASSUME NEW q \in Readers
      PROVE  CallOf(q)' = CallOf(q)
  <2>1. CASE q = r
    BY <1>1, <2>1, Zenon DEF CallOf
  <2>2. CASE q # r
    BY <1>1, <2>2 DEF CallOf
  <2> QED
    BY <2>1, <2>2, Zenon
<1>3. [q \in Readers |-> CallOf(q)]' = [q \in Readers |-> CallOf(q)]
  BY <1>2, Zenon
<1> QED
  BY <1>3, Zenon DEF Log!vars

\* The return of a call is an answer of the log.
LEMMA AnswerStep ==
  ASSUME TypeOK, NEW r \in Readers, rd[r].pc # "idle", NEW result,
         rd' = [rd EXCEPT ![r] = Return(r, result)], UNCHANGED <<write_index, log>>
  PROVE  Log!Answer(r, result, GotOf(r, result))
<1> DEFINE calls == [q \in Readers |-> CallOf(q)]
<1>1. rd[r] \in ReaderLocals
  BY Zenon DEF TypeOK
<1>2. \A q \in Readers : rd'[q] = IF q = r THEN Return(r, result) ELSE rd[q]
  BY Zenon DEF TypeOK
<1>3. ASSUME NEW q \in Readers, q # r
      PROVE  CallOf(q)' = CallOf(q)
  BY <1>2, <1>3 DEF CallOf
<1> DEFINE got == GotOf(r, result)
           new == [active |-> FALSE, op |-> rd[r].op, seq |-> rd[r].seq, cap |-> rd[r].cap,
                   seen |-> rd[r].seen, res |-> result, got |-> got]
<1>4. CallOf(r)' = new
  <2> DEFINE X == Return(r, result)
             copied(n, f) == [k \in 1 .. n |-> f[k]]
  <2>1. /\ X.pc = "idle" /\ X.res = result /\ X.op = rd[r].op /\ X.seq = rd[r].seq
        /\ X.cap = rd[r].cap /\ X.seen = rd[r].seen /\ X.len = rd[r].len /\ X.buf = rd[r].buf
    BY <1>1, Zenon DEF Return, ReaderLocals
  <2>2. rd'[r] = X
    BY <1>2, Zenon
  <2> HIDE DEF X
  <2>3. /\ rd'[r].res = result /\ rd'[r].op = rd[r].op /\ rd'[r].seq = rd[r].seq
        /\ rd'[r].cap = rd[r].cap /\ rd'[r].seen = rd[r].seen /\ rd'[r].len = rd[r].len
        /\ rd'[r].buf = rd[r].buf /\ rd'[r].pc = "idle"
    BY <2>1, <2>2, Zenon
  <2>4. copied(rd'[r].len, rd'[r].buf) = copied(rd[r].len, rd[r].buf)
    <3> HIDE DEF copied
    <3> QED
      BY <2>3, Zenon
  <2>5. (IF rd'[r].res = "ok" THEN copied(rd'[r].len, rd'[r].buf) ELSE <<>>) = got
    BY <2>3, <2>4, Zenon DEF GotOf
  <2>6. (rd'[r].pc # "idle") = FALSE
    BY <2>3, Zenon
  <2> QED
    BY <2>3, <2>5, <2>6, Zenon DEF CallOf
<1> HIDE DEF got
<1>5. calls' = [calls EXCEPT ![r] = new]
  BY <1>3, <1>4, Zenon
<1>6. /\ calls[r].active /\ calls[r].op = rd[r].op /\ calls[r].seq = rd[r].seq
      /\ calls[r].cap = rd[r].cap /\ calls[r].seen = rd[r].seen
  BY Zenon DEF CallOf
<1>7. calls' = [calls EXCEPT ![r] = [active |-> FALSE, op |-> @.op, seq |-> @.seq, cap |-> @.cap,
                                     seen |-> @.seen, res |-> result, got |-> got]]
  BY <1>5, <1>6, Zenon
<1> QED
  BY <1>6, <1>7, Zenon DEF Log!Answer, got

\* A message is retained for the log if it is still there in the ring.
LEMMA RetainedIsStillThere ==
  ASSUME NEW r \in Readers
  PROVE  /\ Log!Retained(r) <=> StillThere(r)
         /\ [q \in Readers |-> CallOf(q)][r].op = rd[r].op
         /\ [q \in Readers |-> CallOf(q)][r].seq = rd[r].seq
         /\ [q \in Readers |-> CallOf(q)][r].cap = rd[r].cap
  BY Zenon DEF Log!Retained, StillThere, CallOf

\* The operations of the log, as steps of Log!Next.
LEMMA LogSteps ==
  ASSUME ~lapped', NEW r \in Readers,
         Log!Call(r) \/ Log!Hit(r) \/ Log!TooSmall(r) \/ Log!Miss(r) \/ Log!Ready(r)
           \/ Log!NotReady(r)
  PROVE  Log!Next
  BY Zenon DEF Log!Next, Log!Operate

\* A call that returns an error has missed nothing; data_available_from goes on.
LEMMA FailRefines ==
  ASSUME TypeOK, ReadersInv, ReadersInv', ~lapped, ~lapped', NEW r \in Readers, rd[r].pc # "idle",
         NEW error \in {"no data", "overwritten", "not yet written"},
         rd' = [rd EXCEPT ![r] = Fail(r, error)], UNCHANGED <<write_index, log, lapped>>
  PROVE  Log!Next \/ UNCHANGED Log!vars
<1>1. rd[r] \in ReaderLocals /\ rd[r].res = "none"
  BY Zenon DEF TypeOK, ReadersInv, ReaderInv
<1>2. CASE rd[r].op = "probe"
  <2> DEFINE pc == IF error = "not yet written" THEN "unwritten" ELSE "behind"
             X == [rd[r] EXCEPT !.pc = pc]
  <2>1. Fail(r, error) = X
    BY <1>2, Zenon DEF Fail
  <2>2. pc # "idle"
    BY Zenon
  <2> HIDE DEF pc
  <2>3. /\ X.pc # "idle" /\ X.op = rd[r].op /\ X.seq = rd[r].seq /\ X.cap = rd[r].cap
        /\ X.seen = rd[r].seen /\ X.res = "none"
    BY <1>1, <2>2, Zenon DEF ReaderLocals
  <2> HIDE DEF X
  <2> QED
    BY <1>1, <2>1, <2>3, SilentStep, Zenon
<1>3. CASE rd[r].op # "probe"
  <2>1. rd' = [rd EXCEPT ![r] = Return(r, error)]
    BY <1>3, Zenon DEF Fail
  <2>2. Log!Answer(r, error, <<>>)
    <3>1. GotOf(r, error) = <<>>
      BY Zenon DEF GotOf
    <3>2. Log!Answer(r, error, GotOf(r, error))
      BY <2>1, AnswerStep, Zenon
    <3> QED
      BY <3>1, <3>2, Zenon
  <2>3. rd'[r].res = error /\ rd'[r].seen = rd[r].seen /\ rd'[r].seq = rd[r].seq
    <3>1. rd'[r] = Return(r, error)
      BY <2>1, Zenon DEF TypeOK
    <3> DEFINE X == Return(r, error)
    <3>2. X.res = error /\ X.seen = rd[r].seen /\ X.seq = rd[r].seq
      BY <1>1, Zenon DEF Return, ReaderLocals
    <3> HIDE DEF X
    <3> QED
      BY <3>1, <3>2, Zenon DEF X
  <2>4. ~StillThere(r)'
    BY <2>3, Zenon DEF ReadersInv, ReaderInv
  <2>5. ~StillThere(r)
    BY <2>3, <2>4, Zenon DEF StillThere
  <2>6. Log!Miss(r)
    BY <1>3, <2>2, <2>5, RetainedIsStillThere, Zenon DEF Log!Miss
  <2> QED
    BY <2>6, LogSteps, Zenon
<1> QED
  BY <1>2, <1>3, Zenon

\* A read that returns "ok" is a hit: it has copied a whole message of the log.
LEMMA HitRefines ==
  ASSUME TypeOK, CallsInv, ~lapped', NEW r \in Readers, rd[r].pc \in {"copy", "load", "store"},
         rd[r].left = {}, NEW m \in log, Copied(r, m),
         rd' = [rd EXCEPT ![r] = Return(r, "ok")], UNCHANGED <<write_index, log>>
  PROVE  Log!Next
<1>1. rd[r].op # "probe" /\ m.len <= rd[r].cap /\ m.seq = rd[r].seq
  BY Zenon DEF CallsInv, ReaderCall, Copied
<1>2. GotOf(r, "ok") = [k \in 1 .. m.len |-> m]
  BY Zenon DEF GotOf, Copied
<1>3. Log!Answer(r, "ok", [k \in 1 .. m.len |-> m])
  BY <1>2, AnswerStep, Zenon
<1>4. Log!Hit(r)
  BY <1>1, <1>3, RetainedIsStillThere, Zenon DEF Log!Hit
<1> QED
  BY <1>4, LogSteps, Zenon

\* An answer without a message: "too small", "ready" or "not ready".
LEMMA PlainAnswer ==
  ASSUME TypeOK, NEW r \in Readers, rd[r].pc # "idle",
         NEW result \in {"too small", "ready", "not ready"},
         rd' = [rd EXCEPT ![r] = Return(r, result)], UNCHANGED <<write_index, log>>
  PROVE  Log!Answer(r, result, <<>>)
<1>1. GotOf(r, result) = <<>>
  BY Zenon DEF GotOf
<1>2. Log!Answer(r, result, GotOf(r, result))
  BY AnswerStep, Zenon
<1> QED
  BY <1>1, <1>2, Zenon

\* The locals of a reader that goes on with its call tell the log nothing new.
LEMMA MoveRefines ==
  ASSUME TypeOK, ReadersInv, ~lapped, NEW r \in Readers, rd[r].pc # "idle",
         NEW pc \in {"seq", "len", "load", "store"},
         rd' = [rd EXCEPT ![r] = [rd[r] EXCEPT !.pc = pc]], UNCHANGED <<write_index, log, lapped>>
  PROVE  UNCHANGED Log!vars
<1> DEFINE X == [rd[r] EXCEPT !.pc = pc]
<1>1. rd[r] \in ReaderLocals /\ rd[r].res = "none"
  BY Zenon DEF TypeOK, ReadersInv, ReaderInv
<1>2. /\ X.pc # "idle" /\ X.op = rd[r].op /\ X.seq = rd[r].seq /\ X.cap = rd[r].cap
      /\ X.seen = rd[r].seen /\ X.res = "none"
  BY <1>1, Zenon DEF ReaderLocals
<1> HIDE DEF X
<1> QED
  BY <1>1, <1>2, SilentStep, Zenon DEF X

\* The start of a call.
LEMMA BeginRefines ==
  ASSUME TypeOK, ~lapped', NEW r \in Readers, NEW op \in Ops, NEW seq \in 0 .. MaxSeq,
         NEW cap \in Caps, Begin(r, op, seq, cap)
  PROVE  Log!Next
<1> DEFINE calls == [q \in Readers |-> CallOf(q)]
           there == {m \in log : m.seq >= seq /\ m.len > 0}
           new == [active |-> TRUE, op |-> op, seq |-> seq, cap |-> cap, seen |-> there,
                   res |-> "none", got |-> <<>>]
           X == [IdleReader EXCEPT !.pc = "index", !.op = op, !.seq = seq, !.cap = cap, !.seen = there]
<1>1. X.pc = "index" /\ X.op = op /\ X.seq = seq /\ X.cap = cap /\ X.seen = there /\ X.res = "none"
  BY Zenon DEF IdleReader
<1>2. rd' = [rd EXCEPT ![r] = X] /\ UNCHANGED <<write_index, log>> /\ rd[r].pc = "idle"
  BY Zenon DEF Begin
<1> HIDE DEF X
<1>3. \A q \in Readers : rd'[q] = IF q = r THEN X ELSE rd[q]
  BY <1>2, Zenon DEF TypeOK
<1>4. ASSUME NEW q \in Readers, q # r
      PROVE  CallOf(q)' = CallOf(q)
  BY <1>3, <1>4, Zenon DEF CallOf
<1>5. CallOf(r)' = new
  <2>1. /\ rd'[r].op = op /\ rd'[r].seq = seq /\ rd'[r].cap = cap /\ rd'[r].seen = there
        /\ rd'[r].res = "none" /\ (rd'[r].pc # "idle") = TRUE
    BY <1>1, <1>3, Zenon
  <2>2. (IF rd'[r].res = "ok" THEN [k \in 1 .. rd'[r].len |-> rd'[r].buf[k]] ELSE <<>>) = <<>>
    BY <2>1, Zenon
  <2> HIDE DEF there
  <2> QED
    BY <2>1, <2>2, Zenon DEF CallOf
<1>6. calls' = [calls EXCEPT ![r] = new]
  BY <1>4, <1>5, Zenon
<1>7. ~calls[r].active
  BY <1>2, Zenon DEF CallOf
<1>8. calls'[r] = new
  BY <1>5, Zenon
<1>9. /\ new \in [active : {TRUE}, op : {"read", "peek", "probe"}, seq : 0 .. MaxSeq, cap : Caps,
                  seen : SUBSET log, res : {"none"}, got : {<<>>}]
      /\ new.seen = {m \in log : m.seq >= new.seq /\ m.len > 0}
  BY Zenon DEF Ops
<1> HIDE DEF new
<1>10. Log!Call(r)
  BY <1>2, <1>6, <1>7, <1>8, <1>9, Zenon DEF Log!Call
<1> QED
  BY <1>10, LogSteps, Zenon

\* Every step of a reader is an operation of the log or a stutter.
LEMMA ReaderRefines ==
  ASSUME IInv, ReadersInv', CallsInv, ~lapped, ~lapped', NEW r \in Readers, ReaderStep(r)
  PROVE  Log!Next \/ UNCHANGED Log!vars
<1>0. /\ TypeOK /\ ReadersInv /\ ReaderInv(r) /\ rd[r] \in ReaderLocals
      /\ UNCHANGED <<write_index, log, lapped>>
      /\ rd[r].seq \in Nat /\ write_index \in Nat /\ rd[r].widx \in Nat
  BY Zenon DEF IInv, ReadersInv, TypeOK, ReaderLocals, ReaderStep, Begin, LoadWriteIndex, LoadSeq, LoadLen,
         CopyOut, Recheck, LoadWatermark, StoreWatermark, ProbeUnwritten, ProbeWriteIndex,
         ProbeReadIndex
<1>1. CASE \E op \in Ops, seq \in 0 .. MaxSeq, cap \in Caps : Begin(r, op, seq, cap)
  BY <1>0, <1>1, BeginRefines, Zenon
<1>2. CASE LoadWriteIndex(r)
  <2>1. rd[r].pc # "idle"
    BY <1>2, Zenon DEF LoadWriteIndex
  <2> QED
    BY <1>0, <1>2, <2>1, LoadWriteIndexCases, FailRefines, MoveRefines, Zenon
<1>3. CASE LoadSeq(r)
  <2>1. /\ rd[r].pc # "idle"
        /\ \/ rd' = [rd EXCEPT ![r] = Fail(r, "not yet written")]
           \/ rd' = [rd EXCEPT ![r] = [rd[r] EXCEPT !.pc = "len"]]
    BY <1>3, Zenon DEF LoadSeq
  <2> QED
    BY <1>0, <2>1, FailRefines, MoveRefines, Zenon
<1>4. CASE LoadLen(r)
  <2> DEFINE n == slotLen[SlotOf(rd[r].seq)]
             filling == [rd[r] EXCEPT !.pc = "copy", !.len = n, !.left = 1 .. n]
  <2>1. rd[r].pc = "len" /\ rd[r].seq < write_index /\ rd[r].res = "none"
    BY <1>0, <1>4, Zenon DEF LoadLen, ReaderInv
  <2>2. \/ rd' = [rd EXCEPT ![r] = Fail(r, "not yet written")]
        \/ rd[r].op = "probe" /\ rd' = [rd EXCEPT ![r] = Return(r, "ready")]
        \/ rd[r].op # "probe" /\ rd' = [rd EXCEPT ![r] = Return(r, "too small")]
        \/ rd' = [rd EXCEPT ![r] = filling]
    BY <1>0, <1>4, LoadLenCases, Zenon
  <2>3. /\ filling.pc = "copy" /\ filling.op = rd[r].op /\ filling.seq = rd[r].seq
        /\ filling.cap = rd[r].cap /\ filling.seen = rd[r].seen /\ filling.res = "none"
    BY <1>0, <2>1, Zenon DEF ReaderLocals
  <2> HIDE DEF filling
  <2>4. CASE rd' = [rd EXCEPT ![r] = Fail(r, "not yet written")]
    BY <1>0, <2>1, <2>4, FailRefines, Zenon
  <2>5. CASE rd[r].op = "probe" /\ rd' = [rd EXCEPT ![r] = Return(r, "ready")]
    <3>1. Log!Ready(r)
      BY <1>0, <2>1, <2>5, PlainAnswer, RetainedIsStillThere, Zenon DEF Log!Ready
    <3> QED
      BY <3>1, LogSteps, Zenon
  <2>6. CASE rd[r].op # "probe" /\ rd' = [rd EXCEPT ![r] = Return(r, "too small")]
    <3>1. Log!TooSmall(r)
      BY <1>0, <2>1, <2>6, PlainAnswer, RetainedIsStillThere, Zenon DEF Log!TooSmall
    <3> QED
      BY <3>1, LogSteps, Zenon
  <2>7. CASE rd' = [rd EXCEPT ![r] = filling]
    BY <1>0, <2>1, <2>3, <2>7, SilentStep, Zenon
  <2> QED
    BY <2>2, <2>4, <2>5, <2>6, <2>7, Zenon
<1>5. CASE \E k \in Chunks : CopyOut(r, k)
  <2>1. PICK k \in Chunks : CopyOut(r, k)
    BY <1>5, Zenon
  <2> DEFINE X == [rd[r] EXCEPT !.left = @ \ {k},
                                !.buf = [@ EXCEPT ![k] = slotData[SlotOf(rd[r].seq)][k]]]
  <2>2. rd' = [rd EXCEPT ![r] = X]
    BY <2>1, Zenon DEF CopyOut, TypeOK, ReaderLocals
  <2>3. rd[r].pc = "copy" /\ rd[r].res = "none"
    BY <1>0, <2>1, Zenon DEF CopyOut, ReaderInv
  <2>4. /\ X.pc = "copy" /\ X.op = rd[r].op /\ X.seq = rd[r].seq
        /\ X.cap = rd[r].cap /\ X.seen = rd[r].seen /\ X.res = "none"
    BY <1>0, <2>3, Zenon DEF ReaderLocals
  <2> HIDE DEF X
  <2> QED
    BY <1>0, <2>2, <2>3, <2>4, SilentStep, Zenon
<1>6. CASE Recheck(r)
  <2>1. rd[r].pc = "copy" /\ rd[r].left = {}
    BY <1>6, Zenon DEF Recheck
  <2>2. \/ rd' = [rd EXCEPT ![r] = Return(r, "overwritten")]
        \/ /\ slotSeq[SlotOf(rd[r].seq)] = rd[r].seq
           /\ rd' = [rd EXCEPT ![r] = Return(r, "ok")]
        \/ rd' = [rd EXCEPT ![r] = [rd[r] EXCEPT !.pc = "load"]]
    BY <1>6, Zenon DEF Recheck
  <2>3. CASE rd' = [rd EXCEPT ![r] = Return(r, "overwritten")]
    <3>1. rd' = [rd EXCEPT ![r] = Fail(r, "overwritten")]
      BY <2>1, <2>3, Zenon DEF CallsInv, ReaderCall, Fail
    <3> QED
      BY <1>0, <2>1, <3>1, FailRefines, Zenon
  <2>4. CASE /\ slotSeq[SlotOf(rd[r].seq)] = rd[r].seq
             /\ rd' = [rd EXCEPT ![r] = Return(r, "ok")]
    <3>1. PICK m \in log : Copied(r, m)
      BY <1>0, <2>1, <2>4, Zenon DEF ReaderInv
    <3> QED
      BY <1>0, <2>1, <2>4, <3>1, HitRefines, Zenon
  <2>5. CASE rd' = [rd EXCEPT ![r] = [rd[r] EXCEPT !.pc = "load"]]
    BY <1>0, <2>1, <2>5, MoveRefines, Zenon
  <2> QED
    BY <2>2, <2>3, <2>4, <2>5, Zenon
<1>7. CASE LoadWatermark(r) \/ StoreWatermark(r)
  <2>1. /\ rd[r].pc \in {"load", "store"}
        /\ \/ rd' = [rd EXCEPT ![r] = Return(r, "ok")]
           \/ rd' = [rd EXCEPT ![r] = [rd[r] EXCEPT !.pc = "store"]]
    BY <1>7, Zenon DEF LoadWatermark, StoreWatermark
  <2>2. rd[r].left = {} /\ \E m \in log : Copied(r, m)
    BY <1>0, <2>1, Zenon DEF ReaderInv
  <2> QED
    BY <1>0, <2>1, <2>2, HitRefines, MoveRefines, Zenon
<1>8. CASE ProbeUnwritten(r)
  <2>1. rd[r].pc = "unwritten" /\ rd[r].op = "probe" /\ ~StillThere(r)
    BY <1>0, <1>8, Zenon DEF ProbeUnwritten, ReaderInv, CallsInv, ReaderCall
  <2>2. CASE rd[r].seq < write_index
    <3>1. rd' = [rd EXCEPT ![r] = Return(r, "ready")]
      BY <1>8, <2>2, Zenon DEF ProbeUnwritten
    <3>2. Log!Ready(r)
      BY <1>0, <2>1, <2>2, <3>1, PlainAnswer, RetainedIsStillThere, Zenon DEF Log!Ready
    <3> QED
      BY <3>2, LogSteps, Zenon
  <2>3. CASE ~(rd[r].seq < write_index)
    <3>1. rd' = [rd EXCEPT ![r] = Return(r, "not ready")]
      BY <1>8, <2>3, Zenon DEF ProbeUnwritten
    <3>2. Log!NotReady(r)
      BY <1>0, <2>1, <3>1, PlainAnswer, RetainedIsStillThere, Zenon DEF Log!NotReady
    <3> QED
      BY <3>2, LogSteps, Zenon
  <2> QED
    BY <2>2, <2>3, Zenon
<1>9. CASE ProbeWriteIndex(r)
  <2> DEFINE X == [rd[r] EXCEPT !.pc = "compare", !.widx = write_index]
  <2>1. rd' = [rd EXCEPT ![r] = X]
    BY <1>9, Zenon DEF ProbeWriteIndex, TypeOK
  <2>2. rd[r].pc = "behind" /\ rd[r].res = "none"
    BY <1>0, <1>9, Zenon DEF ProbeWriteIndex, ReaderInv
  <2>3. /\ X.pc = "compare" /\ X.op = rd[r].op /\ X.seq = rd[r].seq
        /\ X.cap = rd[r].cap /\ X.seen = rd[r].seen /\ X.res = "none"
    BY <1>0, <2>2, Zenon DEF ReaderLocals
  <2> HIDE DEF X
  <2> QED
    BY <1>0, <2>1, <2>2, <2>3, SilentStep, Zenon
<1>10. CASE ProbeReadIndex(r)
  <2>1. rd[r].pc = "compare" /\ rd[r].op = "probe" /\ ~StillThere(r) /\ rd[r].widx <= write_index
    BY <1>0, <1>10, Zenon DEF ProbeReadIndex, ReaderInv, CallsInv, ReaderCall
  <2>2. CASE rd[r].seq < rd[r].widx /\ rd[r].widx > read_index
    <3>1. rd' = [rd EXCEPT ![r] = Return(r, "ready")]
      BY <1>10, <2>2, Zenon DEF ProbeReadIndex
    <3>2. rd[r].seq < write_index
      BY <1>0, <2>1, <2>2
    <3>3. Log!Ready(r)
      BY <1>0, <2>1, <3>1, <3>2, PlainAnswer, RetainedIsStillThere, Zenon DEF Log!Ready
    <3> QED
      BY <3>3, LogSteps, Zenon
  <2>3. CASE ~(rd[r].seq < rd[r].widx /\ rd[r].widx > read_index)
    <3>1. rd' = [rd EXCEPT ![r] = Return(r, "not ready")]
      BY <1>10, <2>3, Zenon DEF ProbeReadIndex
    <3>2. Log!NotReady(r)
      BY <1>0, <2>1, <3>1, PlainAnswer, RetainedIsStillThere, Zenon DEF Log!NotReady
    <3> QED
      BY <3>2, LogSteps, Zenon
  <2> QED
    BY <2>2, <2>3, Zenon
<1> QED
  BY <1>1, <1>2, <1>3, <1>4, <1>5, <1>6, <1>7, <1>8, <1>9, <1>10, Zenon DEF ReaderStep

----------------------------------------------------------------------------
(* Steps of writers, and the refinement *)

\* Every step of a writer is a reservation or a commit of the log, or a stutter.
LEMMA WriterRefines ==
  ASSUME IInv, CallsInv, ~lapped', NEW w \in Writers, WriterStep(w), UNCHANGED lapped
  PROVE  Log!Next \/ UNCHANGED Log!vars
<1>1. UNCHANGED rd
  BY Zenon DEF WriterStep, Reserve, LoadReadIndex, AdvanceReadIndex, Invalidate, ClearLen, CopyIn,
         StoreLen, Publish, Crash
<1>2. UNCHANGED [q \in Readers |-> CallOf(q)]
  BY <1>1, Zenon DEF CallOf
<1>3. CASE \E len \in Lens : Reserve(w, len)
  <2>1. write_index' = write_index + 1 /\ UNCHANGED log
    BY <1>3, Zenon DEF Reserve
  <2>2. Log!Reserve
    BY <1>2, <2>1, Zenon DEF Log!Reserve
  <2> QED
    BY <2>2, Zenon DEF Log!Next, Log!Operate
<1>4. CASE Publish(w)
  <2> DEFINE m == wr[w].msg
  <2>1. Busy(w) /\ log' = log \cup {m} /\ UNCHANGED write_index
    BY <1>4, Zenon DEF Publish
  <2>2. m \in Messages /\ m.seq < write_index /\ m.len \in Lens
    BY <2>1, Zenon DEF IInv, TypeOK, NumbersDistinct, CallsInv
  <2>3. \A other \in log : other.seq # m.seq
    BY <2>1, Zenon DEF IInv, NumbersDistinct
  <2>4. m.seq \in 0 .. MaxSeq
    BY <2>2, RingAssumption DEF Messages, CallsInv, IInv, TypeOK
  <2>5. m = [seq |-> m.seq, len |-> m.len]
    BY <2>2, Zenon DEF Messages
  <2>6. m \in Log!Messages
    BY <2>2, <2>4, <2>5, Zenon DEF Log!Messages
  <2> HIDE DEF m
  <2>7. Log!Commit(m)
    BY <1>2, <2>1, <2>2, <2>3, Zenon DEF Log!Commit
  <2> QED
    BY <2>6, <2>7, Zenon DEF Log!Next, Log!Operate
<1>5. CASE ~(\E len \in Lens : Reserve(w, len)) /\ ~Publish(w)
  <2>1. UNCHANGED <<write_index, log>>
    BY <1>5, Zenon DEF WriterStep, LoadReadIndex, AdvanceReadIndex, Invalidate, ClearLen, CopyIn,
                StoreLen, Crash
  <2> QED
    BY <1>2, <2>1, Zenon DEF Log!vars
<1> QED
  BY <1>3, <1>4, <1>5, Zenon

\* The zeroed mapping is the empty log.
LEMMA LogInit == Init => Log!Init
<1> SUFFICES ASSUME Init PROVE Log!Init
  BY Zenon
<1>1. ASSUME NEW r \in Readers
      PROVE  CallOf(r) = Log!NoCall
  BY Zenon DEF Init, CallOf, IdleReader, Log!NoCall
<1>2. [r \in Readers |-> CallOf(r)] = [r \in Readers |-> Log!NoCall]
  BY <1>1, Zenon
<1> QED
  BY <1>2, Zenon DEF Init, Log!Init

\* The ring implements the log until a producer is lapped: what write, read,
\* read_without_consuming and data_available_from do in many accesses to the mapping,
\* with crashes of producers in between, amounts to atomic operations of TopicLog.
THEOREM RingImplementsLog == Spec => LogSpec
<1>1. IInv /\ IInv' /\ CallsInv /\ [Next]_vars => [Log!Next]_(Log!vars)
  <2> SUFFICES ASSUME IInv, IInv', CallsInv, [Next]_vars
               PROVE  Log!Next \/ UNCHANGED Log!vars
    BY Zenon
  <2>1. lapped \in BOOLEAN /\ lapped' \in BOOLEAN
    BY Zenon DEF IInv, TypeOK
  <2>2. CASE lapped'
    BY <2>2, Zenon DEF Log!Next
  <2>3. CASE ~lapped' /\ Next
    <3>1. ~lapped
      BY <2>3, Zenon
      DEF Next, WriterStep, ReaderStep, Reserve, LoadReadIndex, AdvanceReadIndex, Invalidate,
          ClearLen, CopyIn, StoreLen, Publish, Crash, Begin, LoadWriteIndex, LoadSeq, LoadLen,
          CopyOut, Recheck, LoadWatermark, StoreWatermark, ProbeUnwritten, ProbeWriteIndex,
          ProbeReadIndex
    <3>2. UNCHANGED lapped
      BY <2>1, <2>3, <3>1, Zenon
    <3>3. ReadersInv'
      BY Zenon DEF IInv
    <3> QED
      BY <2>3, <3>1, <3>2, <3>3, WriterRefines, ReaderRefines, Zenon DEF Next
  <2>4. CASE UNCHANGED vars
    BY <2>4, Zenon DEF vars, Log!vars, CallOf
  <2> QED
    BY <2>1, <2>2, <2>3, <2>4, Zenon
<1>2. IInv /\ CallsInv /\ [Next]_vars => CallsInv'
  BY CallsInductive, Zenon DEF IInv
<1> QED
  BY <1>1, <1>2, InvariantHolds, CallsInit, LogInit, PTL DEF Spec, LogSpec, Log!Spec

-----------------------------------------------------------------------------
(* The segment of the ring *)

\* Before a process has created a segment, and while it waits for one.
Before == {"start", "wait", "probe", "replace", "again", "probeAgain", "replaceAgain", "excl"}
\* The steps inside the two loops that count tries.
Loops == {"wait", "probe", "again", "probeAgain", "replaceAgain", "excl"}
SegmentPcs == Before \cup {"allocate", "header", "zero", "undo", "open", "failed", "dead"}

\* A process in create_or_open, and a segment.
Procs == [pc : SegmentPcs, seen : S!Segs \cup {None}, tries : 0..Retries, ring : S!Segs \cup {None}]
Pages == [pages : BOOLEAN, slots : Nat, stride : Nat, msgs : SUBSET Processes]

\* The types of the segments' state.
SegmentsTyped ==
  /\ name \in S!Segs \cup {None}
  /\ seg \in [S!Segs -> Pages]
  /\ want \in [Processes -> Sizes]
  /\ proc \in [Processes -> Procs]
  /\ reaping \in [on : BOOLEAN, after : SUBSET Processes]
  /\ published \subseteq Processes /\ listed \subseteq Processes /\ early \subseteq Processes

\* The loops of create_or_open end with their retries.
Tried == \A p \in Processes : proc[p].pc \in Loops => proc[p].tries < Retries

\* A segment gets its pages, and then its header, from the process that creates it.
Built ==
  \A p \in Processes :
    /\ proc[p].pc \in Before \cup {"allocate", "undo", "failed"} => ~ seg[p].pages
    /\ proc[p].pc \in {"header", "zero"} => seg[p].pages
    /\ proc[p].pc \in Before \cup {"allocate", "header", "undo", "failed"} => seg[p].slots = 0

\* What a process has looked at, and what it has mapped.
Mapped ==
  \A p \in Processes :
    /\ S!Probing(p) => proc[p].seen # None
    /\ S!At(p, "open") => proc[p].ring # None
    /\ proc[p].ring # None => proc[p].pc \in {"open", "dead"} /\ seg[proc[p].ring].pages
    /\ p \in published => proc[p].pc \in {"open", "dead"} /\ proc[p].ring # None

\* Why a process is about to unlink the name.
ReplacedFor(p) == LET s == proc[p].seen IN
  \/ s = None
  \/ S!At(p, "replace") /\ proc[p].tries >= Retries
  \/ seg[s].slots > 0 /\ seg[s].stride < want[p].stride
Replacing == \A p \in Processes : proc[p].pc \in {"replace", "replaceAgain"} => ReplacedFor(p)

\* The daemon unlinks the name of a topic that no node in the table advertised.
Reaping == reaping.on => reaping.after = {}

\* A message stays in a segment that nobody is about to zero.
Kept ==
  \A p \in published \ early :
    LET s == proc[p].ring IN p \in seg[s].msgs /\ ~ (s \in Processes /\ S!Building(s))

\* A segment that is of use has the name.  One that its creator gave up before it had pages is
\* not, even if others still look at it.
Worth(s) == s = Old \/ seg[s].pages \/ S!Building(s)
OneInUse == \A p \in Processes : \A s \in S!Segs : S!Uses(p, s) /\ Worth(s) => name = s

\* The inductive invariant of the segments.
SegmentsInv ==
  /\ SegmentsTyped /\ Tried /\ Built /\ Mapped /\ Replacing /\ Reaping /\ Kept
  /\ why = {} => OneInUse

\* p is at pc, and nobody else has moved.
Moved(p, pc) ==
  /\ proc' \in [Processes -> Procs] /\ proc'[p].pc = pc
  /\ \A q \in Processes : q # p => proc'[q] = proc[q]
SameRing(p) == proc'[p].ring = proc[p].ring
SameLook(p) == proc'[p].seen = proc[p].seen

\* Neither the segments nor the lists change.
Still == UNCHANGED <<want, seg, published, listed, reaping, early>>

\* The steps of create_or_open, by what they do to the name, to the segments and to what p has
\* in hand: p creates a segment, ...
Creates(p) ==
  /\ name = None /\ name' = p /\ proc[p].pc \in {"start", "excl"} /\ Moved(p, "allocate")
  /\ SameRing(p) /\ UNCHANGED why /\ Still

\* ... goes on in one of the loops or fails, ...
Walks(p) ==
  /\ proc[p].pc \in Before \cup {"allocate"}
  /\ \E pc \in (Before \ {"start"}) \cup {"undo", "failed"} : Moved(p, pc)
  /\ proc'[p].pc \in Loops => proc'[p].tries < Retries
  /\ proc'[p].pc \in {"probe", "probeAgain"} => proc'[p].seen = name /\ name # None
  /\ proc'[p].pc \in {"replace", "replaceAgain"} => ReplacedFor(p)'
  /\ SameRing(p) /\ UNCHANGED <<name, why>> /\ Still

\* ... maps the segment it has looked at, ...
Maps(p) ==
  /\ S!Probing(p) /\ seg[proc[p].seen].pages
  /\ Moved(p, "open") /\ proc'[p].ring = proc[p].seen /\ UNCHANGED <<name, why>> /\ Still

\* ... unlinks the name, which is no exception only if no other process uses what it stands for
\* or if it stands for the segment that p gives up, ...
Unlinks(p) ==
  /\ proc[p].pc \in {"undo", "replace", "replaceAgain"}
  /\ \E pc \in {"again", "failed"} : Moved(p, pc)
  /\ proc'[p].pc = "again" => proc'[p].tries < Retries
  /\ name' = None
  /\ why' = {} => /\ why = {}
                  /\ (S!At(p, "undo") /\ name = p) \/ \A q \in Processes \ {p} : ~ S!Uses(q, name)
  /\ SameRing(p) /\ Still

\* ... or gives its segment pages and a header.
Builds(p) ==
  /\ \/ S!At(p, "allocate") /\ Moved(p, "header") /\ seg'[p].slots = seg[p].slots
     \/ S!At(p, "header") /\ Moved(p, "zero")
  /\ seg' \in [S!Segs -> Pages] /\ seg'[p].pages /\ seg'[p].msgs = seg[p].msgs
  /\ \A s \in S!Segs : s # p => seg'[s] = seg[s]
  /\ SameRing(p) /\ UNCHANGED <<name, why, want, published, listed, reaping, early>>

\* The ways in which the steps of create_or_open change the state of a process.
LEMMA GoMoves ==
  ASSUME proc \in [Processes -> Procs], NEW p \in Processes, NEW pc \in SegmentPcs, S!Go(p, pc)
  PROVE  Moved(p, pc) /\ SameRing(p) /\ SameLook(p) /\ proc'[p].tries = proc[p].tries
BY DEF Moved, SameRing, SameLook, S!Go, Procs

\* Entering a loop of wait_open_compatible or open_or_create resets the count of tries.
LEMMA LoopMoves ==
  ASSUME proc \in [Processes -> Procs], NEW p \in Processes, NEW pc \in SegmentPcs, S!Loop(p, pc)
  PROVE  Moved(p, pc) /\ SameRing(p) /\ SameLook(p) /\ proc'[p].tries = 0
<1>1. 0 \in 0..Retries
  BY SegmentAssumption
<1> QED BY <1>1, Zenon DEF Moved, SameRing, SameLook, S!Loop, Procs

\* Another try of a loop: the process stays in the loop below the limit, and leaves it
\* with the count at the limit.
LEMMA RetryMoves ==
  ASSUME proc \in [Processes -> Procs], NEW p \in Processes, NEW loop \in SegmentPcs, NEW after \in SegmentPcs,
         proc[p].tries < Retries, S!Retry(p, loop, after)
  PROVE  /\ SameRing(p) /\ SameLook(p)
         /\ \/ Moved(p, loop) /\ proc'[p].tries < Retries
            \/ Moved(p, after) /\ proc'[p].tries = Retries
<1>1. proc[p].tries \in 0..Retries /\ proc[p].tries + 1 \in 0..Retries
  BY SegmentAssumption DEF Procs
<1>2. proc' = [proc EXCEPT ![p].pc = IF proc[p].tries + 1 < Retries THEN loop ELSE after, ![p].tries = proc[p].tries + 1]
  BY DEF S!Retry
<1>3. proc' \in [Processes -> Procs] /\ \A q \in Processes : q # p => proc'[q] = proc[q]
  BY <1>1, <1>2 DEF Procs
<1>4. /\ proc'[p].pc = IF proc[p].tries + 1 < Retries THEN loop ELSE after
      /\ SameRing(p) /\ SameLook(p) /\ proc'[p].tries = proc[p].tries + 1
  BY <1>1, <1>2 DEF Procs, SameRing, SameLook
<1> QED BY SegmentAssumption, <1>1, <1>3, <1>4 DEF Moved

\* from_fd keeps the segment as the ring of the process.
LEMMA MapMoves ==
  ASSUME proc \in [Processes -> Procs], NEW p \in Processes, NEW s \in S!Segs, S!Map(p, s)
  PROVE  Moved(p, "open") /\ proc'[p].ring = s /\ SameLook(p) /\ proc'[p].tries = proc[p].tries
BY Zenon DEF Moved, SameLook, S!Map, Procs, SegmentPcs

\* Opening the name: the process has in hand what the name stands for now.
LEMMA LookMoves ==
  ASSUME proc \in [Processes -> Procs], NEW p \in Processes, NEW pc \in SegmentPcs, name \in S!Segs \cup {None},
         proc' = [proc EXCEPT ![p].seen = name, ![p].pc = pc]
  PROVE  Moved(p, pc) /\ SameRing(p) /\ proc'[p].seen = name /\ proc'[p].tries = proc[p].tries
BY Zenon DEF Moved, SameRing, Procs

\* The ways in which a segment changes: its creator and a publication write into one.
LEMMA PagesChange ==
  ASSUME seg \in [S!Segs -> Pages], NEW s \in S!Segs, seg' = [seg EXCEPT ![s].pages = TRUE]
  PROVE  /\ seg' \in [S!Segs -> Pages] /\ seg'[s].pages /\ seg'[s].msgs = seg[s].msgs
         /\ seg'[s].slots = seg[s].slots /\ seg'[s].stride = seg[s].stride
         /\ \A r \in S!Segs : r # s => seg'[r] = seg[r]
BY Zenon DEF Pages

\* The creator writes slot count and slot size, and nothing else of its segment changes.
LEMMA HeaderChange ==
  ASSUME seg \in [S!Segs -> Pages], NEW s \in S!Segs, NEW n \in Nat, NEW m \in Nat,
         seg' = [seg EXCEPT ![s].slots = n, ![s].stride = m]
  PROVE  /\ seg' \in [S!Segs -> Pages] /\ seg'[s].pages = seg[s].pages /\ seg'[s].msgs = seg[s].msgs
         /\ \A r \in S!Segs : r # s => seg'[r] = seg[r]
BY Zenon DEF Pages

\* A publication, or the zeroing of the slots, changes which messages a segment holds,
\* and nothing else.
LEMMA MsgsChange ==
  ASSUME seg \in [S!Segs -> Pages], NEW s \in S!Segs, NEW x \in SUBSET Processes, seg' = [seg EXCEPT ![s].msgs = x]
  PROVE  /\ seg' \in [S!Segs -> Pages] /\ seg'[s].pages = seg[s].pages /\ seg'[s].msgs = x
         /\ seg'[s].slots = seg[s].slots /\ seg'[s].stride = seg[s].stride
         /\ \A r \in S!Segs : r # s => seg'[r] = seg[r]
BY Zenon DEF Pages

\* The steps of wait_open_compatible and open_or_create are of these kinds.
LEMMA StartKind ==
  ASSUME SegmentsInv, NEW p \in Processes, S!Start(p)
  PROVE  Creates(p) \/ Walks(p)
<1>0. proc \in [Processes -> Procs] /\ "allocate" \in SegmentPcs /\ "wait" \in SegmentPcs /\ 0 < Retries
  BY SegmentAssumption DEF SegmentsInv, SegmentsTyped, SegmentPcs, Before
<1>1. CASE S!Create(p)
  BY <1>0, <1>1, GoMoves, Zenon DEF S!Create, S!Exclusive, Creates, Still, S!Start, S!At
<1>2. CASE S!Loop(p, "wait") /\ UNCHANGED <<name, why>>
  <2>1. Moved(p, "wait") /\ SameRing(p) /\ proc'[p].tries = 0
    BY <1>0, <1>2, LoopMoves, Zenon
  <2>2. proc'[p].pc = "wait"
    BY <2>1, Zenon DEF Moved
  <2> QED BY <1>0, <1>2, <2>1, <2>2, Zenon DEF Walks, Still, S!Start, S!At, Before, Loops
<1> QED BY <1>1, <1>2, Zenon DEF S!Start

\* Opening the name only walks on: nothing shared changes.
LEMMA LookKind ==
  ASSUME SegmentsInv, NEW p \in Processes, S!Look(p)
  PROVE  Walks(p)
<1>0. /\ proc \in [Processes -> Procs] /\ name \in S!Segs \cup {None}
      /\ {"replace", "probe", "excl", "probeAgain"} \subseteq SegmentPcs
      /\ proc[p].pc \in {"wait", "again"} => proc[p].tries < Retries
  BY DEF SegmentsInv, SegmentsTyped, SegmentPcs, Before, Tried, Loops
<1>1. PICK pc \in {"replace", "probe", "excl", "probeAgain"} :
        /\ proc' = [proc EXCEPT ![p].seen = name, ![p].pc = pc]
        /\ name = None <=> pc \in {"replace", "excl"}
        /\ proc[p].pc \in {"wait", "again"}
  <2>1. CASE S!At(p, "wait") /\ name = None
    BY <2>1 DEF S!Look, S!At
  <2>2. CASE S!At(p, "wait") /\ name # None
    BY <2>2 DEF S!Look, S!At
  <2>3. CASE S!At(p, "again") /\ name = None
    BY <2>3 DEF S!Look, S!At
  <2>4. CASE S!At(p, "again") /\ name # None
    BY <2>4 DEF S!Look, S!At
  <2> QED BY <2>1, <2>2, <2>3, <2>4, Zenon DEF S!Look
<1>2. Moved(p, pc) /\ SameRing(p) /\ proc'[p].seen = name /\ proc'[p].tries = proc[p].tries
  BY <1>0, <1>1, LookMoves, Zenon
<1>3. proc'[p].pc = pc
  BY <1>2, Zenon DEF Moved
<1>4. pc \in (Before \ {"start"}) \cup {"undo", "failed"} /\ proc[p].pc \in Before
  BY <1>1, Zenon DEF Before
<1>5. pc \in {"replace", "replaceAgain"} => ReplacedFor(p)'
  BY <1>1, <1>2, Zenon DEF ReplacedFor
<1> QED BY <1>0, <1>1, <1>2, <1>3, <1>4, <1>5, Zenon DEF Walks, Still, S!Look, Loops

\* What from_fd and the check of the slot size decide about the segment that p has looked at.
LEMMA ProbeKind ==
  ASSUME SegmentsInv, NEW p \in Processes, NEW loop \in {"wait", "again"}, NEW after \in {"replace", "failed"},
         NEW next \in {"replace", "replaceAgain"}, S!Probing(p),
         UNCHANGED <<name, why>>, Still,
         LET s == proc[p].seen IN
           \/ S!Usable(s) /\ S!is_compatible_with_request(p, s) /\ S!Map(p, s)
           \/ S!Usable(s) /\ ~ S!is_compatible_with_request(p, s) /\ S!Go(p, next)
           \/ ~ S!Usable(s) /\ S!Retry(p, loop, after)
  PROVE  Maps(p) \/ Walks(p)
<1> DEFINE s == proc[p].seen
<1>0. /\ proc \in [Processes -> Procs] /\ s \in S!Segs /\ proc[p].tries < Retries /\ proc[p].pc \in Before
      /\ {loop, after, next} \subseteq SegmentPcs \cap ((Before \ {"start"}) \cup {"undo", "failed"})
      /\ want[p].stride \in Nat /\ seg[s].stride \in Nat /\ seg[s].slots \in Nat
  <2>1. proc[p].pc \in Before /\ proc[p].pc \in Loops
    BY Zenon DEF S!Probing, Before, Loops
  <2>2. proc \in [Processes -> Procs] /\ s \in S!Segs
    <3>1. proc \in [Processes -> Procs] /\ s # None
      BY Zenon DEF SegmentsInv, SegmentsTyped, Mapped
    <3>2. proc[p].seen \in S!Segs \cup {None}
      BY <3>1 DEF Procs
    <3> QED BY <3>1, <3>2, Zenon
  <2>3. want[p].stride \in Nat /\ seg[s].stride \in Nat /\ seg[s].slots \in Nat
    BY <2>2, SegmentAssumption DEF SegmentsInv, SegmentsTyped, Pages
  <2>4. {loop, after, next} \subseteq SegmentPcs \cap ((Before \ {"start"}) \cup {"undo", "failed"})
    BY DEF SegmentPcs, Before
  <2> QED BY <2>1, <2>2, <2>3, <2>4, Zenon DEF SegmentsInv, Tried
<1>1. CASE S!Usable(s) /\ S!Map(p, s)
  BY <1>0, <1>1, MapMoves, Zenon DEF Maps, S!Usable
<1>2. CASE S!Usable(s) /\ ~ S!is_compatible_with_request(p, s) /\ S!Go(p, next)
  <2>1. Moved(p, next) /\ SameRing(p) /\ SameLook(p) /\ proc'[p].tries = proc[p].tries /\ proc'[p].pc = next
    BY <1>0, <1>2, GoMoves, Zenon DEF Moved
  <2>2. seg[s].slots > 0 /\ seg[s].stride < want[p].stride
    BY <1>0, <1>2 DEF S!Usable, S!is_compatible_with_request
  <2>3. ReplacedFor(p)'
    BY <2>1, <2>2, Zenon DEF ReplacedFor, SameLook, Still
  <2>4. next \notin {"probe", "probeAgain"}
    OBVIOUS
  <2> QED BY <1>0, <2>1, <2>3, <2>4, Zenon DEF Walks
<1>3. CASE S!Retry(p, loop, after)
  <2>1. SameRing(p) /\ SameLook(p)
    BY <1>0, <1>3, RetryMoves, Zenon
  <2>2. CASE Moved(p, loop) /\ proc'[p].tries < Retries
    <3>1. proc'[p].pc = loop /\ loop \notin {"probe", "probeAgain", "replace", "replaceAgain"}
      BY <2>2 DEF Moved
    <3> QED BY <1>0, <2>1, <2>2, <3>1, Zenon DEF Walks
  <2>3. CASE Moved(p, after) /\ proc'[p].tries = Retries
    <3>1. proc'[p].pc = after /\ after \notin {"probe", "probeAgain"} /\ after \notin Loops
      BY <2>3 DEF Moved, Loops
    <3>2. after \in {"replace", "replaceAgain"} => ReplacedFor(p)'
      BY <2>3, <3>1, SegmentAssumption DEF ReplacedFor, S!At
    <3> QED BY <1>0, <2>1, <2>3, <3>1, <3>2, Zenon DEF Walks
  <2> QED BY <1>0, <1>3, <2>2, <2>3, RetryMoves, Zenon
<1> QED BY <1>1, <1>2, <1>3, Zenon

\* Replace and its repetition in open_or_create: the exception is recorded if anybody else uses
\* the segment, whatever the reason was.
LEMMA ReplaceReasons ==
  ASSUME SegmentsInv, NEW p \in Processes, proc[p].pc \in {"replace", "replaceAgain"}, S!Unlink(p, S!Reasons(p)), why' = {}
  PROVE  why = {} /\ \A q \in Processes \ {p} : ~ S!Uses(q, name)
<1>1. CASE \A q \in Processes \ {p} : ~ S!Uses(q, name)
  BY <1>1, Zenon DEF S!Unlink
<1>2. CASE \E q \in Processes \ {p} : S!Uses(q, name)
  <2>1. S!Reasons(p) = {} /\ name # None
    BY <1>2 DEF S!Unlink, S!Uses
  <2>2. name = proc[p].seen /\ ~ (proc[p].tries >= Retries) /\ ~ (seg[name].stride < want[p].stride)
    BY <2>1 DEF S!Reasons
  <2>3. ReplacedFor(p)
    BY Zenon DEF SegmentsInv, Replacing
  <2> QED BY <2>1, <2>2, <2>3, Zenon DEF ReplacedFor
<1> QED BY <1>1, <1>2, Zenon

\* A creator whose allocation failed unlinks the name, which is no exception if it is the
\* creator's own segment.
LEMMA UndoKind ==
  ASSUME SegmentsInv, NEW p \in Processes, S!Undo(p)
  PROVE  Unlinks(p)
<1>1. proc \in [Processes -> Procs] /\ "failed" \in SegmentPcs
  BY DEF SegmentsInv, SegmentsTyped, SegmentPcs
<1>2. Moved(p, "failed") /\ SameRing(p) /\ proc'[p].pc = "failed"
  BY <1>1, GoMoves, Zenon DEF S!Undo, Moved
<1>3. why' = {} => why = {} /\ (name = p \/ \A q \in Processes \ {p} : ~ S!Uses(q, name))
  BY DEF S!Undo, S!Unlink
<1> QED BY <1>2, <1>3, Zenon DEF Unlinks, S!Undo, S!Unlink, Still, S!At

\* The replacement of wait_open_compatible unlinks the name, and enters the second loop.
LEMMA ReplaceKind ==
  ASSUME SegmentsInv, NEW p \in Processes, S!Replace(p)
  PROVE  Unlinks(p)
<1>1. proc \in [Processes -> Procs] /\ "again" \in SegmentPcs /\ 0 < Retries
  BY SegmentAssumption DEF SegmentsInv, SegmentsTyped, SegmentPcs, Before
<1>2. Moved(p, "again") /\ SameRing(p) /\ proc'[p].tries = 0
  BY <1>1, LoopMoves, Zenon DEF S!Replace
<1>3. proc[p].pc \in {"replace", "replaceAgain"} /\ S!Unlink(p, S!Reasons(p)) /\ Still
  BY Zenon DEF S!Replace, S!At, Still
<1>4. why' = {} => why = {} /\ \A q \in Processes \ {p} : ~ S!Uses(q, name)
  BY <1>3, ReplaceReasons, Zenon
<1> QED BY <1>1, <1>2, <1>3, <1>4, Zenon DEF Unlinks, S!Unlink

\* The turns of open_or_create's loop: probing, replacing, and the exclusive creation.
LEMMA OpenOrCreateKind ==
  ASSUME SegmentsInv, NEW p \in Processes, S!OpenOrCreate(p)
  PROVE  Creates(p) \/ Walks(p) \/ Maps(p) \/ Unlinks(p)
<1>0. /\ proc \in [Processes -> Procs] /\ {"again", "failed", "allocate"} \subseteq SegmentPcs
      /\ proc[p].pc \in Loops => proc[p].tries < Retries
      /\ Still
  BY Zenon DEF SegmentsInv, SegmentsTyped, SegmentPcs, Before, Tried, S!OpenOrCreate, Still
<1>r. ASSUME proc[p].pc \in {"replaceAgain", "excl"}, S!Retry(p, "again", "failed")
      PROVE  /\ SameRing(p)
             /\ \/ Moved(p, "again") /\ proc'[p].pc = "again" /\ proc'[p].tries < Retries
                \/ Moved(p, "failed") /\ proc'[p].pc = "failed"
  <2>1. proc[p].tries < Retries
    BY <1>0, <1>r, Zenon DEF Loops
  <2> QED BY <1>0, <1>r, <2>1, RetryMoves, Zenon DEF Moved
<1>1. CASE S!At(p, "probeAgain")
  <2>1. S!Probing(p) /\ UNCHANGED <<name, why>>
    BY <1>1, Zenon DEF S!OpenOrCreate, S!At, S!Probing
  <2>2. LET s == proc[p].seen IN
           \/ S!Usable(s) /\ S!is_compatible_with_request(p, s) /\ S!Map(p, s)
           \/ S!Usable(s) /\ ~ S!is_compatible_with_request(p, s) /\ S!Go(p, "replaceAgain")
           \/ ~ S!Usable(s) /\ S!Retry(p, "again", "failed")
    BY <1>1 DEF S!OpenOrCreate, S!At
  <2> QED BY <1>0, <2>1, <2>2, ProbeKind, Zenon
<1>2. CASE S!At(p, "replaceAgain")
  <2>1. S!Unlink(p, S!Reasons(p)) /\ S!Retry(p, "again", "failed") /\ proc[p].pc \in {"replace", "replaceAgain"}
    BY <1>2 DEF S!OpenOrCreate, S!At
  <2>2. why' = {} => why = {} /\ \A q \in Processes \ {p} : ~ S!Uses(q, name)
    BY <2>1, ReplaceReasons, Zenon
  <2>3. \/ Moved(p, "again") /\ proc'[p].pc = "again" /\ proc'[p].tries < Retries
        \/ Moved(p, "failed") /\ proc'[p].pc = "failed"
    BY <1>2, <2>1, <1>r, Zenon DEF S!At
  <2> QED BY <1>0, <1>2, <1>r, <2>1, <2>2, <2>3, Zenon DEF Unlinks, S!Unlink, S!At
<1>3. CASE S!At(p, "excl") /\ S!Create(p)
  BY <1>0, <1>3, GoMoves, Zenon DEF S!Create, S!Exclusive, Creates, S!At
<1>4. CASE S!At(p, "excl") /\ S!Retry(p, "again", "failed") /\ UNCHANGED <<name, why>>
  <2>1. proc[p].pc \in Before /\ {"again", "failed"} \subseteq (Before \ {"start"}) \cup {"undo", "failed"}
    BY <1>4 DEF S!At, Before
  <2>2. SameRing(p) /\ (\/ Moved(p, "again") /\ proc'[p].pc = "again" /\ proc'[p].tries < Retries
                        \/ Moved(p, "failed") /\ proc'[p].pc = "failed")
    BY <1>4, <1>r, Zenon DEF S!At
  <2>3. /\ proc'[p].pc \in Loops => proc'[p].tries < Retries
        /\ proc'[p].pc \notin {"probe", "probeAgain", "replace", "replaceAgain"}
    BY <2>2, Zenon DEF Loops
  <2> QED BY <1>0, <1>4, <2>1, <2>2, <2>3, Zenon DEF Walks
<1> QED BY <1>1, <1>2, <1>3, <1>4, Zenon DEF S!OpenOrCreate

\* Storage that runs out while a process maps what it found only walks on: to the error,
\* or to the unlink before it.
LEMMA StorageFullKind ==
  ASSUME SegmentsInv, NEW p \in Processes, S!StorageFull(p)
  PROVE  Walks(p)
<1>0. proc \in [Processes -> Procs] /\ {"undo", "failed"} \subseteq SegmentPcs /\ proc[p].pc \in Before
  BY DEF SegmentsInv, SegmentsTyped, SegmentPcs, S!StorageFull, S!At, Before
<1>1. PICK pc \in {"undo", "failed"} : S!Go(p, pc)
  BY Zenon DEF S!StorageFull
<1>2. Moved(p, pc) /\ SameRing(p) /\ proc'[p].pc = pc
  BY <1>0, <1>1, GoMoves, Zenon DEF Moved
<1>3. pc \notin Loops /\ pc \notin {"probe", "probeAgain", "replace", "replaceAgain"}
  BY DEF Loops
<1> QED BY <1>0, <1>2, <1>3, Zenon DEF Walks, S!StorageFull, Still

\* The allocation and the header of a creator change its own segment only.
LEMMA BuildKind ==
  ASSUME SegmentsInv, NEW p \in Processes, S!Allocate(p) \/ S!Header(p)
  PROVE  Walks(p) \/ Builds(p)
<1>0. /\ proc \in [Processes -> Procs] /\ {"undo", "header", "zero"} \subseteq SegmentPcs
      /\ seg \in [S!Segs -> Pages] /\ p \in S!Segs /\ want[p] \in Sizes
      /\ S!At(p, "header") => seg[p].pages
  BY DEF SegmentsInv, SegmentsTyped, SegmentPcs, S!Segs, Built, S!At
<1>1. CASE S!Allocate(p) /\ S!Go(p, "header") /\ seg' = [seg EXCEPT ![p].pages = TRUE]
  BY <1>0, <1>1, GoMoves, PagesChange, Zenon DEF S!Allocate, Builds
<1>2. CASE S!Allocate(p) /\ S!Go(p, "undo") /\ UNCHANGED seg
  <2>1. Moved(p, "undo") /\ SameRing(p) /\ proc'[p].pc = "undo"
    BY <1>0, <1>2, GoMoves, Zenon DEF Moved
  <2>2. proc'[p].pc \notin Loops /\ proc'[p].pc \notin {"probe", "probeAgain", "replace", "replaceAgain"}
    BY <2>1, Zenon DEF Loops
  <2> QED BY <1>2, <2>1, <2>2, Zenon DEF Walks, S!Allocate, Still, S!At
<1>3. CASE S!Header(p)
  <2>1. PICK n \in {1, want[p].slots} : seg' = [seg EXCEPT ![p].slots = n, ![p].stride = want[p].stride]
    BY <1>3, Zenon DEF S!Header
  <2>2. n \in Nat /\ want[p].stride \in Nat
    BY <1>0, SegmentAssumption
  <2>3. /\ seg' \in [S!Segs -> Pages] /\ seg'[p].pages = seg[p].pages /\ seg'[p].msgs = seg[p].msgs
        /\ \A s \in S!Segs : s # p => seg'[s] = seg[s]
    BY <1>0, <2>1, <2>2, HeaderChange, Zenon
  <2> QED BY <1>0, <1>3, <2>3, GoMoves, Zenon DEF S!Header, Builds
<1> QED BY <1>1, <1>2, <1>3, Zenon DEF S!Allocate

\* A step of create_or_open is of one of these kinds, or zeroes the slots.
LEMMA RunKind ==
  ASSUME SegmentsInv, NEW p \in Processes, S!Run(p) \/ S!StorageFull(p)
  PROVE  Creates(p) \/ Walks(p) \/ Maps(p) \/ Unlinks(p) \/ Builds(p) \/ S!Zero(p)
<1>1. CASE S!wait_open_compatible(p)
  <2>1. S!Probing(p) /\ UNCHANGED <<name, why>> /\ Still
    BY <1>1 DEF S!wait_open_compatible, S!At, S!Probing, Still
  <2>2. LET s == proc[p].seen IN
           \/ S!Usable(s) /\ S!is_compatible_with_request(p, s) /\ S!Map(p, s)
           \/ S!Usable(s) /\ ~ S!is_compatible_with_request(p, s) /\ S!Go(p, "replace")
           \/ ~ S!Usable(s) /\ S!Retry(p, "wait", "replace")
    BY <1>1, Zenon DEF S!wait_open_compatible
  <2> QED BY <2>1, <2>2, ProbeKind, Zenon
<1> QED BY <1>1, StartKind, LookKind, UndoKind, ReplaceKind, OpenOrCreateKind, StorageFullKind, BuildKind, Zenon DEF S!Run

\* What the invariant says of the process that takes a step.
LEMMA InHand ==
  ASSUME SegmentsInv, NEW p \in Processes
  PROVE  /\ proc[p].pc \notin {"open", "dead"} => proc[p].ring = None /\ p \notin published
         /\ \A q \in Processes : proc[q].ring \in S!Segs \cup {None} /\ proc[q].seen \in S!Segs \cup {None}
         /\ p \in S!Segs /\ None \notin S!Segs
BY SegmentAssumption DEF SegmentsInv, Mapped, SegmentsTyped, Procs, S!Segs

\* A step that changes neither segments nor lists keeps their types, given those of what
\* it does change.
LEMMA StillTyped ==
  ASSUME SegmentsInv, Still, proc' \in [Processes -> Procs], name' \in S!Segs \cup {None}
  PROVE  SegmentsTyped' /\ Reaping'
BY Zenon DEF SegmentsInv, SegmentsTyped, Still, Reaping

\* Walking on keeps the invariant: who does not map or create a segment does not come to
\* use another one than the named.
LEMMA WalksKeeps ==
  ASSUME SegmentsInv, NEW p \in Processes, Walks(p)
  PROVE  SegmentsInv'
<1>0. /\ proc' \in [Processes -> Procs] /\ \A q \in Processes : q # p => proc'[q] = proc[q]
      /\ proc'[p].pc \in (Before \ {"start"}) \cup {"undo", "failed"} /\ proc[p].pc \in Before \cup {"allocate"}
      /\ proc'[p].ring = proc[p].ring /\ Still /\ name' = name /\ why' = why
  BY Zenon DEF Walks, Moved, SameRing
<1>1. /\ proc'[p].pc \notin {"open", "dead", "allocate", "header", "zero"}
      /\ proc[p].pc \notin {"open", "dead"}
  BY <1>0, Zenon DEF Before
<1>2. proc[p].ring = None /\ p \notin published
  BY <1>1, InHand, Zenon
<1>3. SegmentsTyped' /\ Reaping'
  BY <1>0, StillTyped, Zenon DEF SegmentsInv, SegmentsTyped
<1>4. Tried'
  BY <1>0, Zenon DEF SegmentsInv, Tried, Walks
<1>5. Built'
  <2>1. proc'[p].pc \notin {"header", "zero"} /\ ~ seg[p].pages /\ seg[p].slots = 0
    BY <1>0, <1>1, Zenon DEF SegmentsInv, Built
  <2> QED BY <1>0, <2>1, Zenon DEF SegmentsInv, Built, Still
<1>6. Mapped'
  BY <1>0, <1>1, <1>2, Zenon DEF SegmentsInv, Mapped, Still, Walks, S!Probing, S!At
<1>7. Replacing'
  BY <1>0, Zenon DEF SegmentsInv, Replacing, ReplacedFor, Still, Walks, S!At
<1>8. Kept'
  <2> SUFFICES ASSUME NEW q \in published \ early, NEW s, s = proc'[q].ring
               PROVE  q \in seg'[s].msgs /\ ~ (s \in Processes /\ S!Building(s)')
    BY <1>0, Zenon DEF Kept, S!Building, Still
  <2>1. q \in Processes /\ q # p
    BY <1>2 DEF SegmentsInv, SegmentsTyped
  <2> QED BY <1>0, <1>1, <2>1, Zenon DEF SegmentsInv, Kept, S!Building, Still
<1>9. ASSUME why' = {} PROVE OneInUse'
  <2> SUFFICES ASSUME NEW q \in Processes, NEW s \in S!Segs, S!Uses(q, s)', Worth(s)' PROVE name' = s
    BY Zenon DEF OneInUse
  <2>1. s # None /\ Worth(s)
    <3>1. s = Old \/ s \in Processes
      BY Zenon DEF S!Segs
    <3> QED BY <1>0, <1>1, <3>1, InHand, Zenon DEF Worth, S!Building, Still
  <2>2. CASE q = p
    BY <1>0, <1>1, <1>2, <2>1, <2>2, Zenon DEF S!Uses, S!Probing, S!Building, Walks
  <2>3. CASE q # p
    BY <1>0, <1>9, <2>1, <2>3, Zenon DEF S!Uses, S!Probing, S!Building, S!Live, S!At, SegmentsInv, OneInUse
  <2> QED BY <2>2, <2>3, Zenon
<1> QED BY <1>3, <1>4, <1>5, <1>6, <1>7, <1>8, <1>9, Zenon DEF SegmentsInv

\* A creation keeps the invariant: the name was free, so nobody used a segment that is of
\* use.
LEMMA CreatesKeeps ==
  ASSUME SegmentsInv, NEW p \in Processes, Creates(p)
  PROVE  SegmentsInv'
<1>0. /\ proc' \in [Processes -> Procs] /\ \A q \in Processes : q # p => proc'[q] = proc[q]
      /\ proc'[p].pc = "allocate" /\ proc[p].pc \in Before
      /\ proc'[p].ring = proc[p].ring /\ Still /\ name = None /\ name' = p /\ why' = why
  BY Zenon DEF Creates, Moved, SameRing, Before
<1>1. proc[p].pc \notin {"open", "dead"} /\ ~ seg[p].pages /\ seg[p].slots = 0
  BY <1>0, Zenon DEF Before, SegmentsInv, Built
<1>2. proc[p].ring = None /\ p \notin published /\ p \in S!Segs
  BY <1>1, InHand, Zenon
<1>3. SegmentsTyped' /\ Reaping'
  BY <1>0, <1>2, StillTyped, Zenon
<1>4. Tried' /\ Replacing'
  BY <1>0, Zenon DEF SegmentsInv, Tried, Loops, Replacing, ReplacedFor, Still, S!At
<1>5. Built'
  BY <1>0, <1>1, Zenon DEF SegmentsInv, Built, Still
<1>6. Mapped'
  BY <1>0, <1>2, Zenon DEF SegmentsInv, Mapped, Still, S!Probing, S!At
<1>8. Kept'
  <2>1. Kept /\ published \subseteq Processes
    BY Zenon DEF SegmentsInv, SegmentsTyped
  <2> SUFFICES ASSUME NEW q \in published \ early PROVE proc[q].ring # p
    BY <1>0, <1>2, <2>1, Zenon DEF Kept, S!Building, Still
  <2> QED BY <1>1, <1>2, InHand, Zenon DEF SegmentsInv, Mapped, SegmentsTyped
<1>9. ASSUME why' = {} PROVE OneInUse'
  <2> SUFFICES ASSUME NEW q \in Processes, NEW s \in S!Segs, S!Uses(q, s)', Worth(s)', s # p PROVE FALSE
    BY <1>0, Zenon DEF OneInUse
  <2>1. s # None /\ Worth(s)
    <3>1. s = Old \/ s \in Processes
      BY Zenon DEF S!Segs
    <3> QED BY <1>0, <3>1, InHand, Zenon DEF Worth, S!Building, Still
  <2>2. CASE q = p
    BY <1>0, <1>2, <2>1, <2>2, Zenon DEF S!Uses, S!Probing, S!Building
  <2>3. CASE q # p
    BY <1>0, <1>9, <2>1, <2>3, Zenon DEF S!Uses, S!Probing, S!Building, S!Live, S!At, SegmentsInv, OneInUse
  <2> QED BY <2>2, <2>3, Zenon
<1> QED BY <1>3, <1>4, <1>5, <1>6, <1>8, <1>9, Zenon DEF SegmentsInv

\* Mapping the segment that was looked at keeps the invariant: the process used it
\* already, and its pages show that it is of use.
LEMMA MapsKeeps ==
  ASSUME SegmentsInv, NEW p \in Processes, Maps(p)
  PROVE  SegmentsInv'
<1>0. /\ proc' \in [Processes -> Procs] /\ \A q \in Processes : q # p => proc'[q] = proc[q]
      /\ proc'[p].pc = "open" /\ proc[p].pc \in Before /\ S!Probing(p)
      /\ proc'[p].ring = proc[p].seen /\ Still /\ name' = name /\ why' = why /\ seg[proc[p].seen].pages
  BY Zenon DEF Maps, Moved, Before, S!Probing
<1>1. proc[p].pc \notin {"open", "dead"} /\ proc[p].seen \in S!Segs /\ proc[p].seen # None
  BY <1>0, InHand, Zenon DEF Before, SegmentsInv, Mapped
<1>2. proc[p].ring = None /\ p \notin published
  BY <1>1, InHand, Zenon
<1>3. SegmentsTyped' /\ Reaping'
  BY <1>0, StillTyped, Zenon DEF SegmentsInv, SegmentsTyped
<1>4. Tried' /\ Replacing'
  BY <1>0, Zenon DEF SegmentsInv, Tried, Loops, Replacing, ReplacedFor, Still, S!At
<1>5. Built'
  BY <1>0, Zenon DEF SegmentsInv, Built, Still, Before
<1>6. Mapped'
  BY <1>0, <1>1, Zenon DEF SegmentsInv, Mapped, Still, S!Probing, S!At
<1>8. Kept'
  <2> SUFFICES ASSUME NEW q \in published \ early, NEW s, s = proc'[q].ring
               PROVE  q \in seg'[s].msgs /\ ~ (s \in Processes /\ S!Building(s)')
    BY <1>0, Zenon DEF Kept, S!Building, Still
  <2>1. q \in Processes /\ q # p
    BY <1>2 DEF SegmentsInv, SegmentsTyped
  <2> QED BY <1>0, <2>1, Zenon DEF SegmentsInv, Kept, S!Building, Still
<1>9. ASSUME why' = {} PROVE OneInUse'
  <2> SUFFICES ASSUME NEW q \in Processes, NEW s \in S!Segs, S!Uses(q, s)', Worth(s)' PROVE name' = s
    BY Zenon DEF OneInUse
  <2>1. s # None /\ Worth(s)
    <3>1. s = Old \/ s \in Processes
      BY Zenon DEF S!Segs
    <3> QED BY <1>0, <3>1, InHand, Zenon DEF Worth, S!Building, Still
  <2>2. CASE q = p
    BY <1>0, <1>9, <2>1, <2>2, Zenon DEF S!Uses, S!Probing, S!Building, S!Live, S!At, SegmentsInv, OneInUse
  <2>3. CASE q # p
    BY <1>0, <1>9, <2>1, <2>3, Zenon DEF S!Uses, S!Probing, S!Building, S!Live, S!At, SegmentsInv, OneInUse
  <2> QED BY <2>2, <2>3, Zenon
<1> QED BY <1>3, <1>4, <1>5, <1>6, <1>8, <1>9, Zenon DEF SegmentsInv

\* An unlink that is no exception keeps the invariant: nobody else uses what the name
\* stood for.
LEMMA UnlinksKeeps ==
  ASSUME SegmentsInv, NEW p \in Processes, Unlinks(p)
  PROVE  SegmentsInv'
<1>0. /\ proc' \in [Processes -> Procs] /\ \A q \in Processes : q # p => proc'[q] = proc[q]
      /\ proc'[p].pc \in {"again", "failed"} /\ proc[p].pc \in {"undo", "replace", "replaceAgain"}
      /\ proc'[p].ring = proc[p].ring /\ Still /\ name' = None
  BY Zenon DEF Unlinks, Moved, SameRing
<1>1. /\ proc[p].pc \notin {"open", "dead"} /\ ~ seg[p].pages /\ seg[p].slots = 0
      /\ proc'[p].pc \notin {"open", "dead", "probe", "probeAgain", "allocate", "header", "zero", "replace", "replaceAgain"}
  BY <1>0, Zenon DEF Before, SegmentsInv, Built
<1>2. proc[p].ring = None /\ p \notin published /\ p \in S!Segs
  BY <1>1, InHand, Zenon
<1>3. SegmentsTyped' /\ Reaping'
  BY <1>0, StillTyped, Zenon
<1>4. Tried' /\ Replacing'
  BY <1>0, <1>1, Zenon DEF SegmentsInv, Tried, Loops, Replacing, ReplacedFor, Still, S!At, Unlinks
<1>5. Built'
  BY <1>0, <1>1, Zenon DEF SegmentsInv, Built, Still
<1>6. Mapped'
  BY <1>0, <1>1, <1>2, Zenon DEF SegmentsInv, Mapped, Still, S!Probing, S!At
<1>8. Kept'
  <2> SUFFICES ASSUME NEW q \in published \ early, NEW s, s = proc'[q].ring
               PROVE  q \in seg'[s].msgs /\ ~ (s \in Processes /\ S!Building(s)')
    BY <1>0, Zenon DEF Kept, S!Building, Still
  <2>1. q \in Processes /\ q # p
    BY <1>2, Zenon DEF SegmentsInv, SegmentsTyped
  <2> QED BY <1>0, <1>1, <2>1, Zenon DEF SegmentsInv, Kept, S!Building, Still
<1>9. ASSUME why' = {} PROVE OneInUse'
  <2> SUFFICES ASSUME NEW q \in Processes, NEW s \in S!Segs, S!Uses(q, s)', Worth(s)' PROVE FALSE
    BY Zenon DEF OneInUse
  <2>1. s # None /\ Worth(s)
    <3>1. s = Old \/ s \in Processes
      BY Zenon DEF S!Segs
    <3> QED BY <1>0, <1>1, <3>1, InHand, Zenon DEF Worth, S!Building, Still
  <2>2. q # p
    BY <1>0, <1>1, <1>2, <2>1, Zenon DEF S!Uses, S!Probing, S!Building
  <2>3. S!Uses(q, s)
    BY <1>0, <2>2, Zenon DEF S!Uses, S!Probing, S!Building, S!Live, S!At
  <2>4. why = {} /\ name = s
    BY <1>9, <2>1, <2>3, Zenon DEF Unlinks, SegmentsInv, OneInUse
  <2>5. S!At(p, "undo") /\ name = p
    BY <1>9, <2>2, <2>3, <2>4, Zenon DEF Unlinks
  <2>6. ~ Worth(p)'
    BY <1>0, <1>1, SegmentAssumption, Zenon DEF Worth, S!Building, Still
  <2> QED BY <2>4, <2>5, <2>6, Zenon
<1> QED BY <1>3, <1>4, <1>5, <1>6, <1>8, <1>9, Zenon DEF SegmentsInv

\* Pages and a header keep the invariant: the segment was of use to its creator before.
LEMMA BuildsKeeps ==
  ASSUME SegmentsInv, NEW p \in Processes, Builds(p)
  PROVE  SegmentsInv'
<1>0. /\ proc' \in [Processes -> Procs] /\ \A q \in Processes : q # p => proc'[q] = proc[q]
      /\ proc'[p].pc \in {"header", "zero"} /\ proc[p].pc \in {"allocate", "header"}
      /\ proc'[p].ring = proc[p].ring /\ UNCHANGED <<name, why, want, published, listed, reaping, early>>
      /\ seg' \in [S!Segs -> Pages] /\ seg'[p].pages /\ seg'[p].msgs = seg[p].msgs
      /\ \A s \in S!Segs : s # p => seg'[s] = seg[s]
  BY Zenon DEF Builds, Moved, SameRing, S!At
<1>1. /\ proc[p].pc \notin {"open", "dead"} /\ seg[p].slots = 0
      /\ proc'[p].pc \notin {"open", "dead", "probe", "probeAgain", "replace", "replaceAgain", "undo", "failed", "allocate"}
      /\ proc'[p].pc \notin Before /\ proc'[p].pc \notin Loops
  BY <1>0, Zenon DEF Before, Loops, SegmentsInv, Built
<1>2. proc[p].ring = None /\ p \notin published /\ p \in S!Segs
  BY <1>1, InHand, Zenon
<1>3. SegmentsTyped' /\ Reaping'
  BY <1>0, Zenon DEF SegmentsInv, SegmentsTyped, Reaping
<1>4. Tried'
  BY <1>0, <1>1, Zenon DEF SegmentsInv, Tried
<1>5. Replacing'
  <2> SUFFICES ASSUME NEW q \in Processes, proc'[q].pc \in {"replace", "replaceAgain"} PROVE ReplacedFor(q)'
    BY Zenon DEF Replacing
  <2>1. proc'[q] = proc[q] /\ q # p /\ ReplacedFor(q)
    BY <1>0, <1>1, Zenon DEF SegmentsInv, Replacing
  <2>2. CASE proc[q].seen = None \/ (S!At(q, "replace") /\ proc[q].tries >= Retries)
    BY <2>1, <2>2, Zenon DEF ReplacedFor, S!At
  <2>3. CASE proc[q].seen # None /\ seg[proc[q].seen].slots > 0 /\ seg[proc[q].seen].stride < want[q].stride
    <3>1. proc[q].seen # p
      BY <1>1, <2>3
    <3>2. proc[q].seen \in S!Segs
      BY <2>3, InHand, Zenon
    <3> QED BY <1>0, <2>1, <2>3, <3>1, <3>2, Zenon DEF ReplacedFor
  <2> QED BY <2>1, <2>2, <2>3, Zenon DEF ReplacedFor
<1>6. Built'
  <2> SUFFICES ASSUME NEW q \in Processes
               PROVE  /\ proc'[q].pc \in Before \cup {"allocate", "undo", "failed"} => ~ seg'[q].pages
                      /\ proc'[q].pc \in {"header", "zero"} => seg'[q].pages
                      /\ proc'[q].pc \in Before \cup {"allocate", "header", "undo", "failed"} => seg'[q].slots = 0
    BY Zenon DEF Built
  <2>1. CASE q = p
    BY <1>0, <1>1, <2>1 DEF Builds, S!At, Moved
  <2>2. CASE q # p
    BY <1>0, <2>2, Zenon DEF SegmentsInv, Built, S!Segs
  <2> QED BY <2>1, <2>2, Zenon
<1>7. Mapped'
  <2> SUFFICES ASSUME NEW q \in Processes, q # p, proc[q].ring # None PROVE seg'[proc[q].ring].pages
    BY <1>0, <1>1, <1>2, Zenon DEF SegmentsInv, Mapped, S!Probing, S!At
  <2>1. proc[q].ring \in S!Segs /\ seg[proc[q].ring].pages
    BY InHand, Zenon DEF SegmentsInv, Mapped
  <2> QED BY <1>0, <2>1, Zenon
<1>8. Kept'
  <2> SUFFICES ASSUME NEW q \in published \ early, NEW s, s = proc'[q].ring
               PROVE  q \in seg'[s].msgs /\ ~ (s \in Processes /\ S!Building(s)')
    BY <1>0, Zenon DEF Kept, S!Building
  <2>1. q \in Processes /\ q # p
    BY <1>2, Zenon DEF SegmentsInv, SegmentsTyped
  <2>2. s \in S!Segs /\ s = proc[q].ring
    BY <1>0, <2>1, InHand, Zenon DEF SegmentsInv, Mapped
  <2>3. q \in seg[s].msgs /\ ~ (s \in Processes /\ S!Building(s))
    BY <2>2, Zenon DEF SegmentsInv, Kept
  <2>4. s # p
    BY <1>0, <2>3, Zenon DEF S!Building
  <2> QED BY <1>0, <2>2, <2>3, <2>4, Zenon DEF S!Building
<1>9. ASSUME why' = {} PROVE OneInUse'
  <2> SUFFICES ASSUME NEW q \in Processes, NEW s \in S!Segs, S!Uses(q, s)', Worth(s)' PROVE name' = s
    BY Zenon DEF OneInUse
  <2>1. Worth(s)
    <3>1. s = Old \/ s \in Processes
      BY Zenon DEF S!Segs
    <3> QED BY <1>0, <3>1, Zenon DEF Worth, S!Building
  <2>2. S!Uses(q, s)
    BY <1>0, <1>1, <1>2, Zenon DEF S!Uses, S!Probing, S!Building, S!Live, S!At
  <2> QED BY <1>0, <1>9, <2>1, <2>2, Zenon DEF SegmentsInv, OneInUse
<1> QED BY <1>3, <1>4, <1>5, <1>6, <1>7, <1>8, <1>9, Zenon DEF SegmentsInv

\* Zeroing the slots keeps the invariant: a message that it erases was published while
\* the segment was being built, and is recorded as early.
LEMMA ZeroKeeps ==
  ASSUME SegmentsInv, NEW p \in Processes, S!Zero(p)
  PROVE  SegmentsInv'
<1>a. proc \in [Processes -> Procs] /\ seg \in [S!Segs -> Pages] /\ p \in S!Segs /\ {} \in SUBSET Processes /\ S!At(p, "zero")
  BY Zenon DEF SegmentsInv, SegmentsTyped, S!Segs, S!Zero
<1>b. S!Map(p, p)
  BY Zenon DEF S!Zero, S!Map
<1>0. /\ proc' \in [Processes -> Procs] /\ \A q \in Processes : q # p => proc'[q] = proc[q]
      /\ proc'[p].pc = "open" /\ proc[p].pc = "zero" /\ proc'[p].ring = p /\ proc'[p].seen = proc[p].seen
      /\ UNCHANGED <<name, why, want, published, listed, reaping, early>>
  BY <1>a, <1>b, MapMoves, Zenon DEF Moved, SameLook, S!Zero, S!At
<1>s. /\ seg' \in [S!Segs -> Pages] /\ seg'[p].pages = seg[p].pages /\ seg'[p].slots = seg[p].slots
      /\ seg'[p].stride = seg[p].stride /\ \A s \in S!Segs : s # p => seg'[s] = seg[s]
  BY <1>a, MsgsChange, Zenon DEF S!Zero
<1>1. /\ proc[p].pc \notin {"open", "dead"} /\ seg[p].pages
      /\ proc'[p].pc \notin {"probe", "probeAgain", "replace", "replaceAgain", "undo", "failed", "allocate", "header", "zero"}
      /\ proc'[p].pc \notin Before /\ proc'[p].pc \notin Loops
  BY <1>0, Zenon DEF Before, Loops, SegmentsInv, Built
<1>2. proc[p].ring = None /\ p \notin published /\ p # None
  BY <1>1, InHand, Zenon
<1>3. SegmentsTyped' /\ Reaping'
  BY <1>0, <1>s, Zenon DEF SegmentsInv, SegmentsTyped, Reaping
<1>4. Tried'
  BY <1>0, <1>1, Zenon DEF SegmentsInv, Tried
<1>5. Replacing'
  <2> SUFFICES ASSUME NEW q \in Processes, proc'[q].pc \in {"replace", "replaceAgain"} PROVE ReplacedFor(q)'
    BY Zenon DEF Replacing
  <2>1. proc'[q] = proc[q] /\ q # p /\ ReplacedFor(q)
    BY <1>0, <1>1, Zenon DEF SegmentsInv, Replacing
  <2>2. proc[q].seen = None \/ proc[q].seen \in S!Segs
    BY InHand, Zenon
  <2> QED BY <1>0, <1>s, <2>1, <2>2, Zenon DEF ReplacedFor, S!At
<1>6. Built'
  <2>1. \A q \in Processes : seg'[q].pages = seg[q].pages /\ seg'[q].slots = seg[q].slots
    BY <1>s, Zenon DEF S!Segs
  <2> QED BY <1>0, <1>1, <2>1, Zenon DEF SegmentsInv, Built
<1>7. Mapped'
  <2>1. \A s \in S!Segs : seg'[s].pages = seg[s].pages
    BY <1>s, Zenon
  <2> SUFFICES ASSUME NEW q \in Processes
               PROVE  /\ S!Probing(q)' => proc'[q].seen # None
                      /\ proc'[q].pc = "open" => proc'[q].ring # None
                      /\ proc'[q].ring # None => proc'[q].pc \in {"open", "dead"} /\ seg'[proc'[q].ring].pages
                      /\ q \in published => proc'[q].pc \in {"open", "dead"} /\ proc'[q].ring # None
    BY <1>0, Zenon DEF Mapped, S!At
  <2>2. CASE q = p
    BY <1>0, <1>1, <1>2, <1>a, <2>1, <2>2, Zenon DEF S!Probing
  <2>3. CASE q # p
    <3>1. proc[q].ring = None \/ proc[q].ring \in S!Segs
      BY InHand, Zenon
    <3> QED BY <1>0, <2>1, <2>3, <3>1, Zenon DEF SegmentsInv, Mapped, S!Probing, S!At
  <2> QED BY <2>2, <2>3, Zenon
<1>8. Kept'
  <2> SUFFICES ASSUME NEW q \in published \ early, NEW s, s = proc'[q].ring
               PROVE  q \in seg'[s].msgs /\ ~ (s \in Processes /\ S!Building(s)')
    BY <1>0, Zenon DEF Kept, S!Building
  <2>1. q \in Processes /\ q # p
    BY <1>2, Zenon DEF SegmentsInv, SegmentsTyped
  <2>2. s \in S!Segs /\ s = proc[q].ring
    BY <1>0, <2>1, InHand, Zenon DEF SegmentsInv, Mapped
  <2>3. q \in seg[s].msgs /\ ~ (s \in Processes /\ S!Building(s))
    BY <2>2, Zenon DEF SegmentsInv, Kept
  <2>4. s # p
    BY <1>0, <2>3, Zenon DEF S!Building
  <2> QED BY <1>0, <1>s, <2>2, <2>3, <2>4, Zenon DEF S!Building
<1>9. ASSUME why' = {} PROVE OneInUse'
  <2> SUFFICES ASSUME NEW q \in Processes, NEW s \in S!Segs, S!Uses(q, s)', Worth(s)' PROVE name' = s
    BY Zenon DEF OneInUse
  <2>1. Worth(s)
    <3>1. s = Old \/ s \in Processes
      BY Zenon DEF S!Segs
    <3>2. s = p => S!Building(s)
      BY <1>0, Zenon DEF S!Building
    <3> QED BY <1>0, <1>s, <3>1, <3>2, Zenon DEF Worth, S!Building
  <2>2. S!Uses(q, s)
    BY <1>0, <1>1, <1>2, Zenon DEF S!Uses, S!Probing, S!Building, S!Live, S!At
  <2> QED BY <1>0, <1>9, <2>1, <2>2, Zenon DEF SegmentsInv, OneInUse
<1> QED BY <1>3, <1>4, <1>5, <1>6, <1>7, <1>8, <1>9, Zenon DEF SegmentsInv

\* A publication keeps the invariant: it goes into the ring that its process has mapped.
LEMMA PublishKeeps ==
  ASSUME SegmentsInv, NEW p \in Processes, S!Publish(p)
  PROVE  SegmentsInv'
<1> DEFINE r == proc[p].ring
<1>a. /\ proc \in [Processes -> Procs] /\ seg \in [S!Segs -> Pages] /\ r \in S!Segs /\ r # None /\ proc[p].pc = "open"
      /\ seg[r].msgs \cup {p} \in SUBSET Processes
  <2>1. proc \in [Processes -> Procs] /\ seg \in [S!Segs -> Pages] /\ r # None /\ proc[p].pc = "open"
    BY Zenon DEF SegmentsInv, SegmentsTyped, Mapped, S!Publish, S!At
  <2>2. r \in S!Segs
    BY <2>1, InHand, Zenon
  <2> QED BY <2>1, <2>2 DEF Pages
<1>0. UNCHANGED <<want, name, proc, listed, reaping, accidents, why>> /\ published' = published \cup {p}
  BY Zenon DEF S!Publish
<1>s. /\ seg' \in [S!Segs -> Pages] /\ seg'[r].msgs = seg[r].msgs \cup {p}
      /\ \A s \in S!Segs : /\ seg'[s].pages = seg[s].pages /\ seg'[s].slots = seg[s].slots
                         /\ seg'[s].stride = seg[s].stride /\ (s # r => seg'[s] = seg[s])
  <2>1. seg' = [seg EXCEPT ![r].msgs = seg[r].msgs \cup {p}]
    BY Zenon DEF S!Publish
  <2> QED BY <1>a, <2>1, MsgsChange, Zenon
<1>e. /\ early' \subseteq Processes /\ early \subseteq early'
      /\ p \notin early' => ~ (r \in Processes /\ S!Building(r))
  BY DEF S!Publish, SegmentsInv, SegmentsTyped
<1>3. SegmentsTyped' /\ Reaping' /\ Tried'
  BY <1>0, <1>s, <1>e, Zenon DEF SegmentsInv, SegmentsTyped, Reaping, Tried
<1>5. Replacing'
  <2> SUFFICES ASSUME NEW q \in Processes, proc[q].pc \in {"replace", "replaceAgain"} PROVE ReplacedFor(q)'
    BY <1>0, Zenon DEF Replacing
  <2>1. ReplacedFor(q)
    BY Zenon DEF SegmentsInv, Replacing
  <2>2. proc[q].seen = None \/ proc[q].seen \in S!Segs
    BY InHand, Zenon
  <2> QED BY <1>0, <1>s, <2>1, <2>2, Zenon DEF ReplacedFor, S!At
<1>6. Built'
  BY <1>0, <1>s, Zenon DEF SegmentsInv, Built, S!Segs
<1>7. Mapped'
  BY <1>0, <1>a, <1>s, InHand, Zenon DEF SegmentsInv, Mapped, S!Probing, S!At
<1>8. Kept'
  <2> SUFFICES ASSUME NEW q \in published' \ early', NEW s, s = proc[q].ring
               PROVE  q \in seg'[s].msgs /\ ~ (s \in Processes /\ S!Building(s))
    BY <1>0, Zenon DEF Kept, S!Building
  <2>1. CASE q = p
    BY <1>a, <1>s, <1>e, <2>1, Zenon
  <2>2. CASE q # p
    <3>1. q \in published \ early /\ q \in Processes
      BY <1>0, <1>e, <2>2, Zenon DEF SegmentsInv, SegmentsTyped
    <3>2. q \in seg[s].msgs /\ ~ (s \in Processes /\ S!Building(s)) /\ s \in S!Segs
      BY <3>1, InHand, Zenon DEF SegmentsInv, Kept, Mapped
    <3> QED BY <1>s, <3>2, Zenon
  <2> QED BY <2>1, <2>2, Zenon
<1>9. ASSUME why' = {} PROVE OneInUse'
  <2> SUFFICES ASSUME NEW q \in Processes, NEW s \in S!Segs, S!Uses(q, s), Worth(s)' PROVE name = s
    BY <1>0, Zenon DEF OneInUse, S!Uses, S!Live, S!At, S!Probing, S!Building
  <2>1. Worth(s)
    BY <1>0, <1>s, Zenon DEF Worth, S!Building
  <2> QED BY <1>0, <1>9, <2>1, Zenon DEF SegmentsInv, OneInUse
<1> QED BY <1>3, <1>5, <1>6, <1>7, <1>8, <1>9, Zenon DEF SegmentsInv

\* Nodes are advertised and pruned without a change of the segments.
LEMMA ListKeeps ==
  ASSUME SegmentsInv, (\E p \in Processes : S!Advertise(p)) \/ S!Prune \/ UNCHANGED S!vars
  PROVE  SegmentsInv'
<1>0. UNCHANGED <<want, name, seg, proc, published, early, why>>
  BY Zenon DEF S!Advertise, S!Prune, S!vars
<1>1. /\ listed' \subseteq Processes /\ reaping' \in [on : BOOLEAN, after : SUBSET Processes]
      /\ Reaping'
  <2>1. CASE \E p \in Processes : S!Advertise(p)
    BY <2>1, Zenon DEF S!Advertise, SegmentsInv, SegmentsTyped, Reaping
  <2>2. CASE S!Prune
    BY <2>2, Zenon DEF S!Prune, S!Gone, SegmentsInv, SegmentsTyped, Reaping
  <2>3. CASE UNCHANGED S!vars
    BY <2>3, Zenon DEF S!vars, SegmentsInv, SegmentsTyped, Reaping
  <2> QED BY <2>1, <2>2, <2>3, Zenon
<1>2. SegmentsTyped' /\ Tried' /\ Built' /\ Mapped' /\ Replacing' /\ Kept'
  BY <1>0, <1>1, Zenon DEF SegmentsInv, SegmentsTyped, Tried, Built, Mapped, S!Probing, S!At, Replacing, ReplacedFor, Kept, S!Building
<1>3. why' = {} => OneInUse'
  BY <1>0, Zenon DEF SegmentsInv, OneInUse, S!Uses, Worth, S!Live, S!At, S!Probing, S!Building
<1> QED BY <1>1, <1>2, <1>3, Zenon DEF SegmentsInv

\* The daemon reaps a name that nobody uses, or records that somebody did.
LEMMA ReapKeeps ==
  ASSUME SegmentsInv, S!Reap
  PROVE  SegmentsInv'
<1>0. UNCHANGED <<want, seg, proc, published, listed, early>> /\ name' = None
  BY Zenon DEF S!Reap
<1>1. reaping' \in [on : BOOLEAN, after : SUBSET Processes] /\ Reaping' /\ reaping.after = {}
  BY Zenon DEF S!Reap, SegmentsInv, SegmentsTyped, Reaping
<1>2. SegmentsTyped' /\ Tried' /\ Built' /\ Mapped' /\ Replacing' /\ Kept'
  BY <1>0, <1>1, Zenon DEF SegmentsInv, SegmentsTyped, Tried, Built, Mapped, S!Probing, S!At, Replacing, ReplacedFor, Kept, S!Building
<1>3. why' = {} => why = {} /\ \A q \in Processes : ~ S!Uses(q, name)
  BY <1>1 DEF S!Reap
<1>4. why' = {} => OneInUse'
  BY <1>0, <1>3, Zenon DEF SegmentsInv, OneInUse, S!Uses, Worth, S!Live, S!At, S!Probing, S!Building
<1> QED BY <1>1, <1>2, <1>4, Zenon DEF SegmentsInv

\* A crash keeps the invariant: the process no longer uses any segment.
LEMMA CrashKeeps ==
  ASSUME SegmentsInv, NEW p \in Processes, S!Crash(p)
  PROVE  SegmentsInv'
<1>0. /\ proc' \in [Processes -> Procs] /\ \A q \in Processes : q # p => proc'[q] = proc[q]
      /\ proc'[p].pc = "dead" /\ proc'[p].ring = proc[p].ring /\ Still /\ name' = name /\ why' = why
  <2>1. proc \in [Processes -> Procs] /\ "dead" \in SegmentPcs /\ S!Go(p, "dead")
    BY Zenon DEF SegmentsInv, SegmentsTyped, SegmentPcs, S!Crash, S!Go
  <2> QED BY <2>1, GoMoves, Zenon DEF Moved, SameRing, S!Crash, Still
<1>1. /\ proc'[p].pc \notin {"probe", "probeAgain", "replace", "replaceAgain", "undo", "failed", "allocate", "header", "zero", "open"}
      /\ proc'[p].pc \notin Before /\ proc'[p].pc \notin Loops
  BY <1>0, Zenon DEF Before, Loops
<1>3. SegmentsTyped' /\ Reaping'
  BY <1>0, StillTyped, Zenon DEF SegmentsInv, SegmentsTyped
<1>4. Tried' /\ Replacing'
  BY <1>0, <1>1, Zenon DEF SegmentsInv, Tried, Replacing, ReplacedFor, Still, S!At
<1>5. Built'
  BY <1>0, <1>1, Zenon DEF SegmentsInv, Built, Still
<1>6. Mapped'
  BY <1>0, <1>1, Zenon DEF SegmentsInv, Mapped, Still, S!Probing, S!At
<1>8. Kept'
  <2> SUFFICES ASSUME NEW q \in published \ early, NEW s, s = proc'[q].ring
               PROVE  q \in seg'[s].msgs /\ ~ (s \in Processes /\ S!Building(s)')
    BY <1>0, Zenon DEF Kept, S!Building, Still
  <2>1. s = proc[q].ring
    BY <1>0, Zenon DEF SegmentsInv, SegmentsTyped
  <2> QED BY <1>0, <1>1, <2>1, Zenon DEF SegmentsInv, Kept, S!Building, Still
<1>9. ASSUME why' = {} PROVE OneInUse'
  <2> SUFFICES ASSUME NEW q \in Processes, NEW s \in S!Segs, S!Uses(q, s)', Worth(s)' PROVE name' = s
    BY Zenon DEF OneInUse
  <2>1. Worth(s)
    <3>1. s = Old \/ s \in Processes
      BY Zenon DEF S!Segs
    <3> QED BY <1>0, <1>1, <3>1, Zenon DEF Worth, S!Building, Still
  <2>2. S!Uses(q, s)
    BY <1>0, <1>1, Zenon DEF S!Uses, S!Probing, S!Building, S!Live, S!At
  <2> QED BY <1>0, <1>9, <2>1, <2>2, Zenon DEF SegmentsInv, OneInUse
<1> QED BY <1>3, <1>4, <1>5, <1>6, <1>8, <1>9, Zenon DEF SegmentsInv

\* The invariant of create_or_open: a segment of worth that anybody uses has the name, until an
\* exception was recorded.
THEOREM SegmentsInvariant == S!Spec => []SegmentsInv
<1>1. S!Init => SegmentsInv
  <2> SUFFICES ASSUME S!Init PROVE SegmentsInv
    OBVIOUS
  <2>1. SegmentsTyped
    <3>1. proc \in [Processes -> Procs]
      BY SegmentAssumption DEF S!Init, Procs, SegmentPcs, Before
    <3>2. seg \in [S!Segs -> Pages]
      <4>1. PICK old \in {S!Blank, [S!Blank EXCEPT !.pages = TRUE]} \cup
                        {[S!Blank EXCEPT !.pages = TRUE, !.slots = 1, !.stride = n] : n \in 1..2} :
              seg = [s \in S!Segs |-> IF s = Old THEN old ELSE S!Blank]
        BY Zenon DEF S!Init
      <4>2. old \in Pages /\ S!Blank \in Pages
        <5>1. /\ S!Blank \in Pages /\ [S!Blank EXCEPT !.pages = TRUE] \in Pages
              /\ \A n \in 1..2 : [S!Blank EXCEPT !.pages = TRUE, !.slots = 1, !.stride = n] \in Pages
          <6>1. S!Blank \in Pages
            BY DEF S!Blank, Pages
          <6>2. [S!Blank EXCEPT !.pages = TRUE] \in Pages
            BY <6>1, Zenon DEF Pages
          <6>3. ASSUME NEW n \in 1..2 PROVE [S!Blank EXCEPT !.pages = TRUE, !.slots = 1, !.stride = n] \in Pages
            <7>1. n \in Nat /\ 1 \in Nat
              OBVIOUS
            <7> HIDE DEF S!Blank
            <7> QED BY <6>1, <7>1, Zenon DEF Pages
          <6> QED BY <6>1, <6>2, <6>3, Zenon
        <5> QED BY <5>1, Zenon
      <4> QED BY <4>1, <4>2, Zenon
    <3> QED BY <3>1, <3>2 DEF S!Init, SegmentsTyped, S!Segs
  <2>2. \A p \in Processes : proc[p].pc = "start" /\ proc[p].ring = None /\ ~ seg[p].pages /\ seg[p].slots = 0
    <3> SUFFICES ASSUME NEW p \in Processes PROVE proc[p].pc = "start" /\ proc[p].ring = None /\ seg[p] = S!Blank
      <4>1. S!Blank.pages = FALSE /\ S!Blank.slots = 0
        BY DEF S!Blank
      <4> QED BY <4>1, Zenon
    <3>1. p \in S!Segs /\ p # Old
      BY SegmentAssumption, Zenon DEF S!Segs
    <3> QED BY <3>1 DEF S!Init
  <2>3. Tried /\ Built /\ Mapped /\ Replacing
    BY <2>2 DEF Tried, Loops, Built, Mapped, S!Probing, S!At, Replacing, S!Init
  <2>4. Kept /\ Reaping
    BY DEF Kept, Reaping, S!Init
  <2>5. OneInUse
    <3>1. \A p \in Processes : ~ S!Probing(p) /\ ~ S!Building(p) /\ proc[p].ring = None
      BY <2>2 DEF S!Probing, S!Building
    <3>2. \A p \in Processes : \A s \in S!Segs : ~ S!Uses(p, s)
      BY <3>1 DEF S!Uses
    <3> QED BY <3>2, Zenon DEF OneInUse
  <2> QED BY <2>1, <2>3, <2>4, <2>5, Zenon DEF SegmentsInv
<1>2. SegmentsInv /\ [S!Next]_(S!vars) => SegmentsInv'
  <2> SUFFICES ASSUME SegmentsInv, [S!Next]_(S!vars) PROVE SegmentsInv'
    OBVIOUS
  <2>1. ASSUME NEW p \in Processes, S!Run(p) \/ S!StorageFull(p) PROVE SegmentsInv'
    BY <2>1, RunKind, CreatesKeeps, WalksKeeps, MapsKeeps, UnlinksKeeps, BuildsKeeps, ZeroKeeps, Zenon
  <2> QED BY <2>1, PublishKeeps, ListKeeps, ReapKeeps, CrashKeeps, Zenon DEF S!Next
<1> QED BY <1>1, <1>2, PTL DEF S!Spec

\* What create_or_open is for, for any number of processes and sizes.
THEOREM MeetUnlessReplacedHolds == S!Spec => []MeetUnlessReplaced
<1>1. SegmentsInv => S!TypeOK
  BY SegmentAssumption DEF SegmentsInv, SegmentsTyped, S!TypeOK, Procs, Pages
<1>2. SegmentsInv => S!MeetUnlessReplaced
  <2> SUFFICES ASSUME SegmentsInv, NEW p \in Processes, NEW q \in Processes,
                      S!At(p, "open"), S!At(q, "open"), p \in published \ early, why = {}
               PROVE  p \in seg[proc[q].ring].msgs
    BY Zenon DEF S!MeetUnlessReplaced
  <2>1. \A r \in {p, q} : r \in Processes /\ S!At(r, "open") /\ proc[r].ring \in S!Segs /\ proc[r].ring # None /\ seg[proc[r].ring].pages
    BY InHand, Zenon DEF SegmentsInv, Mapped
  <2>2. \A r \in {p, q} : S!Uses(r, proc[r].ring) /\ Worth(proc[r].ring)
    BY <2>1 DEF S!Uses, Worth, S!Live, S!At
  <2>3. name = proc[p].ring /\ name = proc[q].ring
    BY <2>1, <2>2, Zenon DEF SegmentsInv, OneInUse
  <2> QED BY <2>3, Zenon DEF SegmentsInv, Kept
<1>3. SegmentsInv => MeetUnlessReplaced
  BY <1>1, <1>2, Zenon DEF MeetUnlessReplaced
<1> QED BY <1>3, SegmentsInvariant, PTL

=============================================================================
