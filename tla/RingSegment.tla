---------------------------- MODULE RingSegment ----------------------------
(***************************************************************************)
(* The shared-memory segment of a ring, as the processes of a host create  *)
(* and open it (Segments), with names that are apart from those of the     *)
(* other parts of a channel.                                               *)
(***************************************************************************)
EXTENDS Naturals

CONSTANTS Old, None, Processes, Sizes, Retries, SegmentFaults

VARIABLES name, seg, want, proc, published, listed, reaping, accidents, early, why

S == INSTANCE Segments WITH
  Requests <- Sizes, MaxFaults <- SegmentFaults, sent <- published, faults <- accidents

ASSUME SegmentAssumption ==
  /\ Old \notin Processes /\ None \notin S!Segs
  /\ Sizes \subseteq [stride : Nat, slots : Nat] /\ Retries \in Nat \ {0}

segmentVars == <<name, seg, want, proc, published, listed, reaping, accidents, early, why>>

\* The endpoints of a topic meet in one segment: a message that one process has
\* published is in the ring that the others have mapped, unless the segment was
\* replaced under its users (RingBuffer::create_or_open; see Segments).
MeetUnlessReplaced == S!TypeOK /\ S!MeetUnlessReplaced
============================================================================
