---------------------------- MODULE EventMonitor ----------------------------
(***************************************************************************)
(* QoS events of a session (events.rs): the thread axon-qos-monitor, which *)
(* looks for missed deadlines and expired leases and triggers their        *)
(* events, and the threads of the application, which publish, assert their *)
(* liveliness, and take, create and destroy events.                        *)
(*                                                                         *)
(* Every trigger adds one to the count of its event and then one to an     *)
(* eventfd that all events share.  A take empties the count and then reads *)
(* the eventfd, which is a semaphore: the read takes one, and waits for it *)
(* if there is none.  All this happens under the read side of the lock of  *)
(* the event table.                                                        *)
(*                                                                         *)
(* The application's events are made by rmw_publisher_event_init and       *)
(* rmw_subscription_event_init.  The events of the monitors are others: an *)
(* endpoint whose QoS has a deadline or a lease makes them for itself, and *)
(* keeps their handles to itself.                                          *)
(***************************************************************************)
EXTENDS Naturals, FiniteSets

CONSTANTS
  Changed,      \* events of the application of kind LivelinessChanged
  Missed,       \* events of the application of kind DeadlineMissed
  Deadlines,    \* deadline monitors, [handle, gid]; gid 0 stands for any publisher
  Leases,       \* the handles of the liveliness monitors of the node
  Gids,         \* publishers of the topic
  Takers,       \* threads that take events
  MaxTriggers,  \* bound on the triggers
  MaxDestroys   \* bound on the events destroyed

Mine == Changed \cup Missed
Handles == Mine \cup Leases \cup {m.handle : m \in Deadlines}

VARIABLES
  event,       \* event[h]: "new", "here" or "gone", count, alive_count, not_alive_count
  late,        \* the deadline monitors whose time is up
  expired,     \* the liveliness monitors whose lease is up
  fd,          \* the counter of the eventfd
  monitor,     \* the monitor thread: pc, what it checks, what is left to trigger
  taker,       \* taker[t]: pc and handle
  stop, triggers, destroys,
  owed,        \* history: events of kind Missed that a check has not triggered
  overlapped   \* history: have two threads taken the same event at the same time?

vars == <<event, late, expired, fd, monitor, taker, stop, triggers, destroys,
          owed, overlapped>>
application == <<taker, stop, destroys, overlapped>>

Event(s) == [is |-> s, count |-> 0, alive |-> 0, lost |-> 0]
Here(h) == event[h].is = "here"

Init ==
  /\ event = [h \in Handles |-> Event("new")]
  /\ late = {} /\ expired = {} /\ fd = 0
  /\ monitor = [pc |-> "look", checks |-> "none", todo |-> {}, alive |-> 0, lost |-> 0]
  /\ taker = [t \in Takers |-> [pc |-> "idle", of |-> 0]]
  /\ stop = FALSE /\ triggers = 0 /\ destroys = 0
  /\ owed = {} /\ overlapped = FALSE

-----------------------------------------------------------------------------
(* Time, and what sets it back                                             *)

Expire ==
  /\ \/ (\E m \in Deadlines \ late : Here(m.handle) /\ late' = late \cup {m}) /\ UNCHANGED expired
     \/ (\E h \in Leases \ expired : Here(h) /\ expired' = expired \cup {h}) /\ UNCHANGED late
  /\ UNCHANGED <<event, fd, monitor, triggers, owed, application>>

\* The deadline monitors that a publication of g sets back: 0 sets back them all.
update_deadline_publish_time(g) == {m \in Deadlines : g = 0 \/ m.gid = g}

\* publish_with_gid; with liveliness of kind Automatic it also asserts it.
Publish(g) ==
  /\ late' = late \ update_deadline_publish_time(g)
  /\ expired' \in {{}, expired}
  /\ UNCHANGED <<event, fd, monitor, triggers, owed, application>>

assert_liveliness ==
  /\ expired' = {}
  /\ UNCHANGED <<event, late, fd, monitor, triggers, owed, application>>

-----------------------------------------------------------------------------
(* The monitor thread                                                      *)

Check(what, handles) ==
  monitor' = [monitor EXCEPT !.pc = "fire", !.checks = what, !.todo = handles]

\* One turn of the loop: check_deadlines, and then check_liveliness with the events
\* of the expired leases first and those of kind LivelinessChanged after them.
check_deadlines ==
  /\ monitor.pc = "sleep"
  /\ Check("deadlines", {m.handle : m \in late})
  /\ owed' = IF late = {} THEN {} ELSE {h \in Missed : Here(h)}
  /\ UNCHANGED <<event, late, expired, fd, triggers, application>>

Fired == monitor.pc = "fire" /\ monitor.todo = {}

check_liveliness ==
  /\ Fired /\ monitor.checks = "deadlines"
  /\ monitor' = [pc |-> "fire", checks |-> "leases", todo |-> expired,
                 alive |-> Cardinality({h \in Leases : Here(h)} \ expired), lost |-> Cardinality(expired)]
  /\ UNCHANGED <<event, late, expired, fd, triggers, owed, application>>

CheckChanged ==
  /\ Fired /\ monitor.checks = "leases"
  /\ Check("changed", {h \in Changed : Here(h) /\
       (event[h].alive # monitor.alive \/ event[h].lost # monitor.lost)})
  /\ UNCHANGED <<event, late, expired, fd, triggers, owed, application>>

\* The condition of the loop, before it sleeps.
Sleep ==
  /\ monitor.pc = "look" \/ (Fired /\ monitor.checks = "changed")
  /\ monitor' = [monitor EXCEPT !.pc = IF stop THEN "ended" ELSE "sleep"]
  /\ UNCHANGED <<event, late, expired, fd, triggers, owed, application>>

\* An event with one more trigger; the kind LivelinessChanged also gets the new numbers.
Triggered(e) ==
  [is |-> e.is, count |-> e.count + 1,
   alive |-> IF monitor.checks = "changed" THEN monitor.alive ELSE e.alive,
   lost |-> IF monitor.checks = "changed" THEN monitor.lost ELSE e.lost]

\* trigger_event and trigger_liveliness_changed: the count, if there is the event ...
Trigger ==
  /\ monitor.pc = "fire" /\ triggers < MaxTriggers /\ triggers' = triggers + 1
  /\ \E h \in monitor.todo :
       /\ monitor' = [monitor EXCEPT !.pc = "write", !.todo = @ \ {h}]
       /\ event' = IF Here(h) THEN [event EXCEPT ![h] = Triggered(@)] ELSE event
       /\ owed' = owed \ {h}
  /\ UNCHANGED <<late, expired, fd, application>>

\* ... and then the eventfd, whether there is one or not.
Write ==
  /\ monitor.pc = "write"
  /\ fd' = fd + 1
  /\ monitor' = [monitor EXCEPT !.pc = "fire"]
  /\ UNCHANGED <<event, late, expired, triggers, owed, application>>

-----------------------------------------------------------------------------
(* The application                                                         *)

clock == <<late, expired, triggers, owed>>

\* take_event: load the count, ...
Load_Always(t, h) == Here(h)
Load(t, h) == Here(h) /\ event[h].count > 0

Take(t) ==
  /\ taker[t].pc = "idle"
  /\ \E h \in Mine :
       /\ Load(t, h)
       /\ taker' = [taker EXCEPT ![t] = [pc |-> "store", of |-> h]]
       /\ overlapped' = (overlapped \/ \E u \in Takers : taker[u] = [pc |-> "store", of |-> h])
  /\ UNCHANGED <<event, fd, monitor, stop, destroys, clock>>

\* ... set it to zero, ...
Store(t) ==
  /\ taker[t].pc = "store"
  /\ event' = [event EXCEPT ![taker[t].of].count = 0]
  /\ taker' = [taker EXCEPT ![t].pc = "read"]
  /\ UNCHANGED <<fd, monitor, stop, destroys, overlapped, clock>>

\* ... and take one from the eventfd.
Read(t) ==
  /\ taker[t].pc = "read" /\ fd > 0
  /\ fd' = fd - 1
  /\ taker' = [taker EXCEPT ![t] = [pc |-> "idle", of |-> 0]]
  /\ UNCHANGED <<event, monitor, stop, destroys, overlapped, clock>>

\* The write side of the lock: nobody is in trigger_event or in take_event.
Unlocked == monitor.pc # "write" /\ \A t \in Takers : taker[t].pc = "idle"

\* create_event; an endpoint registers the monitor of its event with it.
Create(h) ==
  /\ Unlocked /\ event[h].is = "new"
  /\ event' = [event EXCEPT ![h] = Event("here")]
  /\ UNCHANGED <<fd, monitor, taker, stop, destroys, overlapped, clock>>

\* destroy_event.
Destroy(h) ==
  /\ Unlocked /\ Here(h) /\ destroys < MaxDestroys
  /\ event' = [event EXCEPT ![h] = Event("gone")]
  /\ destroys' = destroys + 1
  /\ UNCHANGED <<fd, monitor, taker, stop, overlapped, clock>>

\* Drop for Session stops the thread, which ends when it next looks, and joins it.
Shutdown ==
  /\ ~ stop /\ stop' = TRUE
  /\ UNCHANGED <<event, fd, monitor, taker, destroys, overlapped, clock>>

Thread == check_deadlines \/ check_liveliness \/ CheckChanged \/ Sleep \/ Trigger \/ Write

Next ==
  \/ Expire
  \/ \E g \in Gids \cup {0} : Publish(g)
  \/ assert_liveliness
  \/ Thread
  \/ \E t \in Takers : Take(t) \/ Store(t) \/ Read(t)
  \/ \E h \in Handles : Create(h)
  \/ \E h \in Mine : Destroy(h)
  \/ Shutdown

Spec == Init /\ [][Next]_vars

-----------------------------------------------------------------------------
Reading == {t \in Takers : taker[t].pc = "read"}
Counted == {h \in Mine : event[h].count > 0}
Writing == IF monitor.pc = "write" THEN 1 ELSE 0

\* No take waits for a trigger that never comes: the eventfd, with the write that a
\* trigger in progress has still to do, has one for every take that is about to
\* read it and one for every event that can still be taken, whatever was destroyed
\* in between.  A take that waits holds the lock of the event table, so that
\* create_event, destroy_event and with them the end of the session would wait too.
\* The exception is an event that two threads take at the same time: both see its
\* count, and the eventfd has one for the first only.
EnoughUnlessOverlap ==
  ~ overlapped => fd + Writing >= Cardinality(Reading) + Cardinality(Counted)

\* ARCHITECTURE.md says of QoS events that they are "observable by polling
\* rmw_take_event": when the monitor thread has finished a check that has found a
\* deadline missed, it has triggered the events of kind DeadlineMissed that the
\* application had made before.
ObservableByPolling ==
  monitor.pc = "sleep" => \A h \in owed : ~ Here(h)
=============================================================================
