------------------------------ MODULE MCWaitSet -----------------------------
(* Model-checking instances of WaitSet. *)
EXTENDS WaitSet, TLC

CONSTANTS w1, w2, e1, e2, f1, f2

\* Two processes, one subscription each; the second did not receive the eventfd
\* that publishers signal.
PairOwner == (e1 :> w1) @@ (e2 :> w2)
SplitFd == (w1 :> f1) @@ (w2 :> f2)

\* One process.
SoloOwner == (e1 :> w1)
SoloFd == (w1 :> f1)

=============================================================================
