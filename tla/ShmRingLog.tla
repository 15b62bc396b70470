----------------------------- MODULE ShmRingLog ----------------------------
(***************************************************************************)
(* The ring of ShmRing implements the log of TopicLog until a producer is  *)
(* lapped, which one producer never is.                                    *)
(* A call is active from Begin until its result is set, and its answer is  *)
(* what the reader copied out.                                             *)
(***************************************************************************)
EXTENDS ShmRing

CallOf(r) ==
  [active |-> rd[r].pc # "idle", op |-> rd[r].op, seq |-> rd[r].seq,
   cap |-> rd[r].cap, seen |-> rd[r].seen, res |-> rd[r].res,
   got |-> IF rd[r].res = "ok" THEN [k \in 1 .. rd[r].len |-> rd[r].buf[k]]
                               ELSE <<>>]

Log == INSTANCE TopicLog WITH
         next <- write_index, void <- lapped,
         call <- [r \in Readers |-> CallOf(r)],
         Seqs <- 0 .. MaxSeq

\* Every behaviour of the ring, crashes of producers included, is one of the log until
\* a producer is lapped: the steps of write, read, read_without_consuming and
\* data_available_from amount to atomic operations.
LogSpec == Log!Spec

============================================================================
