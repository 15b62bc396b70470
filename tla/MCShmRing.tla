----------------------------- MODULE MCShmRing -----------------------------
(* A model-checking instance of the ring. *)
EXTENDS ShmRingLog, TLC

\* Producers differ in nothing but their names.
WriterSymmetry == Permutations(Writers)

============================================================================
