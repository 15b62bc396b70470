--------------------------- MODULE MCEventMonitor ---------------------------
EXTENDS EventMonitor

\* The deadlines of a publisher and of a subscription.
MCDeadlines == {[handle |-> 1, gid |-> 7], [handle |-> 2, gid |-> 0]}

=============================================================================
