----------------------------- MODULE MCWaiting ------------------------------
(***************************************************************************)
(* What wakes an application, for model checking: rmw_wait on messages and *)
(* guard conditions (WaitSet), and the QoS events of a session, whose      *)
(* monitor signals an eventfd of their own (EventMonitor).  They share no  *)
(* state in these models, and a behaviour is one of either, chosen by      *)
(* part.                                                                   *)
(***************************************************************************)
EXTENDS MCWaitSet

CONSTANTS
  Changed, Missed, Deadlines, Leases, Gids, Takers,   \* of EventMonitor ...
  MaxEvents,    \* ... its bounds on triggers ...
  MaxDestroys   \* ... and on the events destroyed

ASSUME EventsAssumption == IsFiniteSet(Takers) /\ IsFiniteSet(Changed \cup Missed) /\ IsFiniteSet(Leases)

VARIABLES
  part,
  event, late, expired, fd, monitor, taker, stop, kinds, destroys, missed, overlapped  \* of EventMonitor

eventVars == <<event, late, expired, fd, monitor, taker, stop, kinds, destroys, missed, overlapped>>

E == INSTANCE EventMonitor WITH MaxTriggers <- MaxEvents, triggers <- kinds, owed <- missed

\* The deadline of a publisher, beside a lease and two events of the application.
PublisherDeadline == {[handle |-> 1, gid |-> 7]}

MCInit == part \in {"wait", "events"} /\ Init /\ E!Init

MCNext ==
  /\ UNCHANGED part
  /\ \/ part = "wait" /\ Next /\ UNCHANGED eventVars
     \/ part = "events" /\ E!Next /\ UNCHANGED vars

MCSpec == MCInit /\ [][MCNext]_<<part, vars, eventVars>>

\* The fairness of WaitSet.
MCFairSpec ==
  /\ MCSpec
  /\ WF_vars(part = "wait" /\ Signal)
  /\ \A w \in Waiters :
       WF_vars(part = "wait" /\ Kick(w)) /\ WF_vars(part = "wait" /\ WaitStep(w))

-----------------------------------------------------------------------------
\* The counter of the eventfd is enough for all events that wait to be taken, unless two
\* threads took the same event at once (trigger_event and take_event; see EventMonitor).
EnoughUnlessOverlap == part = "events" => E!EnoughUnlessOverlap
=============================================================================
