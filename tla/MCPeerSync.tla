---------------------------- MODULE MCPeerSync ------------------------------
EXTENDS PeerSync, TLC

CONSTANTS d1, d2, m1, n1

\* One node on each host.
MCNodesOf == d1 :> {m1} @@ d2 :> {n1}

\* Either all the changes and no faults, or the faults after the nodes have registered.
MCInit ==
  \/ Started("absent") /\ changes = 0 /\ failures = MaxFailures /\ silences = MaxSilences
  \/ Started("topic") /\ changes = MaxChanges /\ failures = 0 /\ silences = 0

MCFairSpec == MCInit /\ [][Next]_vars /\ Fairness

=============================================================================
