---------------------------- MODULE WaitingProofs ---------------------------
(***************************************************************************)
(* Proofs about what wakes an application: the QoS events of a session     *)
(* (EventMonitor), rmw_wait (WaitSet) and the eventfds that the processes  *)
(* of a host share (EventFds), for any number of events, monitors,         *)
(* threads, executors, entities, messages, triggers and processes.         *)
(*                                                                         *)
(* No take of an event waits for ever.  The eventfd of the events is a     *)
(* semaphore that all of them share, and every event has a count of its    *)
(* own.  The argument weighs the one against the others: what the eventfd  *)
(* holds, with the write of a trigger in progress, is at least the number  *)
(* of takes about to read it and of events with a count.  Emptying a count *)
(* moves one from the second number to the first, if the count was not     *)
(* zero: that is what a take that has loaded it must still be able to rely *)
(* on when it stores the zero (Loaded).                                    *)
(*                                                                         *)
(* rmw_wait loses no wake-up: see IInv in WaitSet.                         *)
(*                                                                         *)
(* The processes share an eventfd unless one of the named exceptions has   *)
(* happened.  The property looks at the processes that are open, and at    *)
(* what they have received; it follows from the socket.  As long as nobody *)
(* has removed the socket of another one that is of use, a server that is  *)
(* of use is what the name stands for (Named), so that there is one of     *)
(* them at most; and every process that is open either is that server or   *)
(* has the eventfd of one that was (ServesOrShares).                       *)
(***************************************************************************)
EXTENDS MCWaiting, RingEventFd, FiniteSetTheorems, TLAPS

-----------------------------------------------------------------------------
(* QoS events *)

EventsTyped ==
  /\ event \in [E!Handles -> [is : {"new", "here", "gone"}, count : Nat, alive : Nat, lost : Nat]]
  /\ late \subseteq Deadlines
  /\ expired \subseteq Leases
  /\ fd \in Nat
  /\ monitor \in [pc : {"look", "sleep", "fire", "write", "ended"},
                  checks : {"none", "deadlines", "leases", "changed"},
                  todo : SUBSET E!Handles, alive : Nat, lost : Nat]
  /\ taker \in [Takers -> [pc : {"idle", "store", "read"}, of : E!Mine \cup {0}]]
  /\ \A t \in Takers : taker[t].pc = "store" => taker[t].of \in E!Mine

\* What a take has loaded is still there when it stores the zero: the count is one that
\* only this take empties.
Loaded ==
  \A t \in Takers : taker[t].pc = "store" =>
    /\ event[taker[t].of].count > 0
    /\ \A u \in Takers : taker[u].pc = "store" /\ taker[u].of = taker[t].of => u = t

Enough == fd + E!Writing >= Cardinality(E!Reading) + Cardinality(E!Counted)

MonitorInv == EventsTyped /\ (~ overlapped => Loaded /\ Enough)

EventsFinite == IsFiniteSet(Takers) /\ IsFiniteSet(E!Mine) /\ IsFiniteSet(Leases)

\* EventMonitor counts with an instance of FiniteSets of its own, which is the same.
LEMMA SameCardinality == \A S : E!Cardinality(S) = Cardinality(S)
BY Zenon DEF E!Cardinality, Cardinality

\* Init of the events of a session: nothing is counted and nobody reads.
LEMMA MonitorInit == EventsFinite /\ E!Init => MonitorInv
<1> SUFFICES ASSUME EventsFinite, E!Init PROVE MonitorInv
  BY Zenon
<1>1. EventsTyped
  BY Zenon DEF E!Init, EventsTyped, E!Event, E!Handles
<1>2. Loaded
  BY Zenon DEF E!Init, Loaded
<1>3. E!Reading = {} /\ E!Counted = {}
  BY DEF E!Init, E!Reading, E!Counted, E!Event, E!Handles
<1>4. E!Writing = 0 /\ fd = 0
  BY Zenon DEF E!Init, E!Writing
<1>5. Enough
  BY <1>3, <1>4, FS_EmptySet DEF Enough
<1> QED
  BY <1>1, <1>2, <1>5, Zenon DEF MonitorInv

\* The sets that the invariant counts are finite.
LEMMA EventCounts ==
  ASSUME EventsFinite
  PROVE  /\ IsFiniteSet(E!Reading) /\ Cardinality(E!Reading) \in Nat
         /\ IsFiniteSet(E!Counted) /\ Cardinality(E!Counted) \in Nat
<1>1. E!Reading \in SUBSET Takers /\ E!Counted \in SUBSET E!Mine
  BY Zenon DEF E!Reading, E!Counted
<1>2. IsFiniteSet(E!Reading) /\ IsFiniteSet(E!Counted)
  BY <1>1, FS_Subset, Zenon DEF EventsFinite
<1> QED
  BY <1>2, FS_CardinalityType, Zenon

-----------------------------------------------------------------------------
\* Every step of the session keeps the types.
LEMMA EventsTypedStep ==
  ASSUME EventsFinite, EventsTyped, [E!Next]_(E!vars)
  PROVE  EventsTyped'
<1> USE DEF EventsTyped, E!application, E!clock
<1>1. CASE E!Expire
  BY <1>1, Zenon DEF E!Expire
<1>2. ASSUME NEW g \in Gids \cup {0}, E!Publish(g) PROVE EventsTyped'
  BY <1>2, Zenon DEF E!Publish
<1>3. CASE E!assert_liveliness
  BY <1>3, Zenon DEF E!assert_liveliness
<1>4. CASE E!check_deadlines
  <2>1. {m.handle : m \in late} \subseteq E!Handles
    BY Zenon DEF E!Handles
  <2> QED
    BY <1>4, <2>1, Zenon DEF E!check_deadlines, E!Check
<1>5. CASE E!check_liveliness
  <2>1. /\ {h \in Leases : E!Here(h)} \ expired \in SUBSET Leases
        /\ expired \in SUBSET Leases /\ Leases \subseteq E!Handles
    BY Zenon DEF E!Handles
  <2>2. /\ IsFiniteSet({h \in Leases : E!Here(h)} \ expired)
        /\ IsFiniteSet(expired)
    BY <2>1, FS_Subset, Zenon DEF EventsFinite
  <2>3. /\ Cardinality({h \in Leases : E!Here(h)} \ expired) \in Nat
        /\ Cardinality(expired) \in Nat
    BY <2>2, FS_CardinalityType, Zenon
  <2> QED
    BY <1>5, <2>1, <2>3, SameCardinality, Zenon DEF E!check_liveliness
<1>6. CASE E!CheckChanged
  BY <1>6, Zenon DEF E!CheckChanged, E!Check, E!Handles, E!Mine
<1>7. CASE E!Sleep
  BY <1>7, Zenon DEF E!Sleep
<1>8. CASE E!Trigger
  <2>1. PICK h \in monitor.todo :
          /\ monitor' = [monitor EXCEPT !.pc = "write", !.todo = @ \ {h}]
          /\ event' = IF E!Here(h) THEN [event EXCEPT ![h] = E!Triggered(@)] ELSE event
    BY <1>8, Zenon DEF E!Trigger
  <2>2. h \in E!Handles
    BY Zenon
  <2>3. event' \in [E!Handles -> [is : {"new", "here", "gone"}, count : Nat, alive : Nat, lost : Nat]]
    BY <2>1, <2>2 DEF E!Triggered
  <2> QED
    BY <1>8, <2>1, <2>3, Zenon DEF E!Trigger
<1>9. CASE E!Write
  BY <1>9 DEF E!Write
<1>10. ASSUME NEW t \in Takers, E!Take(t) PROVE EventsTyped'
  BY <1>10 DEF E!Take
<1>11. ASSUME NEW t \in Takers, E!Store(t) PROVE EventsTyped'
  BY <1>11, Zenon DEF E!Store, E!Handles
<1>12. ASSUME NEW t \in Takers, E!Read(t) PROVE EventsTyped'
  BY <1>12 DEF E!Read
<1>13. ASSUME NEW h \in E!Handles, E!Create(h) PROVE EventsTyped'
  BY <1>13, Zenon DEF E!Create, E!Event
<1>14. ASSUME NEW h \in E!Mine, E!Destroy(h) PROVE EventsTyped'
  BY <1>14, Zenon DEF E!Destroy, E!Event, E!Handles
<1>15. CASE E!Shutdown
  BY <1>15, Zenon DEF E!Shutdown
<1>16. CASE UNCHANGED E!vars
  BY <1>16, Zenon DEF E!vars
<1> QED
  BY <1>1, <1>2, <1>3, <1>4, <1>5, <1>6, <1>7, <1>8, <1>9, <1>10, <1>11, <1>12, <1>13,
     <1>14, <1>15, <1>16, Zenon DEF E!Next, E!Thread

\* Only a take changes whether two of them have met.
LEMMA OverlapStep ==
  ASSUME [E!Next]_(E!vars), ~ overlapped'
  PROVE  ~ overlapped
BY Zenon DEF E!Next, E!Thread, E!vars, E!application, E!Expire, E!Publish, E!assert_liveliness, E!check_deadlines,
       E!check_liveliness, E!CheckChanged, E!Sleep, E!Trigger, E!Write, E!Take, E!Store, E!Read, E!Create, E!Destroy,
       E!Shutdown

\* What a take has loaded stays until it stores the zero: another take of the same event
\* is what overlapped records, and no event is destroyed during a take.
LEMMA LoadedStep ==
  ASSUME EventsTyped, Loaded, [E!Next]_(E!vars), ~ overlapped'
  PROVE  Loaded'
<1> USE DEF EventsTyped, Loaded
<1>1. CASE UNCHANGED <<event, taker>>
  BY <1>1, Zenon
<1>2. CASE E!Trigger
  <2>1. PICK h \in E!Handles :
          event' = IF E!Here(h) THEN [event EXCEPT ![h] = E!Triggered(@)] ELSE event
    BY <1>2, Zenon DEF E!Trigger
  <2>2. \A k \in E!Handles : event[k].count > 0 => event'[k].count > 0
    BY <2>1 DEF E!Triggered
  <2>3. E!Mine \subseteq E!Handles /\ taker' = taker
    BY <1>2, Zenon DEF E!Trigger, E!Handles, E!application
  <2> QED
    BY <2>2, <2>3, Zenon
<1>3. ASSUME NEW t \in Takers, E!Take(t) PROVE Loaded'
  <2>1. PICK h \in E!Mine :
          /\ event[h].count > 0
          /\ taker' = [taker EXCEPT ![t] = [pc |-> "store", of |-> h]]
          /\ ~ \E u \in Takers : taker[u] = [pc |-> "store", of |-> h]
    BY <1>3, Zenon DEF E!Take, E!Load
  <2>2. \A u \in Takers : taker[u].pc = "store" => taker[u].of # h
    BY <2>1, Zenon
  <2>3. event' = event
    BY <1>3, Zenon DEF E!Take
  <2> QED
    BY <2>1, <2>2, <2>3, Zenon
<1>4. ASSUME NEW t \in Takers, E!Store(t) PROVE Loaded'
  <2>1. /\ taker[t].pc = "store" /\ taker[t].of \in E!Handles
        /\ event' = [event EXCEPT ![taker[t].of].count = 0]
        /\ taker' = [taker EXCEPT ![t].pc = "read"]
    BY <1>4, Zenon DEF E!Store, E!Handles
  <2>2. \A u \in Takers : taker'[u].pc = "store" => u # t /\ taker'[u] = taker[u]
    BY <2>1, Zenon
  <2>3. \A k \in E!Handles : k # taker[t].of => event'[k] = event[k]
    BY <2>1, Zenon
  <2>4. E!Mine \subseteq E!Handles
    BY Zenon DEF E!Handles
  <2> QED
    BY <2>1, <2>2, <2>3, <2>4
<1>5. ASSUME NEW t \in Takers, E!Read(t) PROVE Loaded'
  BY <1>5, Zenon DEF E!Read
<1>6. ASSUME E!Unlocked, taker' = taker PROVE Loaded'
  BY <1>6, Zenon DEF E!Unlocked
<1>7. (\E h \in E!Handles : E!Create(h)) \/ (\E h \in E!Mine : E!Destroy(h)) => E!Unlocked /\ taker' = taker
  BY Zenon DEF E!Create, E!Destroy
<1>8. E!Expire \/ (\E g \in Gids \cup {0} : E!Publish(g)) \/ E!assert_liveliness \/ E!check_deadlines
        \/ E!check_liveliness \/ E!CheckChanged \/ E!Sleep \/ E!Write \/ E!Shutdown \/ UNCHANGED E!vars
      => UNCHANGED <<event, taker>>
  BY Zenon DEF E!Expire, E!Publish, E!assert_liveliness, E!check_deadlines, E!check_liveliness, E!CheckChanged,
         E!Sleep, E!Write, E!Shutdown, E!vars, E!application
<1> QED
  BY <1>1, <1>2, <1>3, <1>4, <1>5, <1>6, <1>7, <1>8, Zenon DEF E!Next, E!Thread

-----------------------------------------------------------------------------
\* The weighing, step by step: a trigger adds at most one event and one write to come, the
\* write moves that one into the eventfd, the store of a zero moves an event to the takes
\* that read, and the read takes one of both.
LEMMA EnoughStep ==
  ASSUME EventsFinite, EventsTyped, EventsTyped', Loaded, [E!Next]_(E!vars),
         Enough
  PROVE  Enough'
<1> USE DEF Enough
<1> DEFINE R == Cardinality(E!Reading)
           C == Cardinality(E!Counted)
<1>0. /\ IsFiniteSet(E!Reading) /\ R \in Nat /\ IsFiniteSet(E!Counted) /\ C \in Nat
      /\ fd \in Nat /\ E!Writing \in 0..1 /\ E!Mine \subseteq E!Handles
  BY EventCounts DEF EventsTyped, E!Writing, E!Handles
<1>1. ASSUME UNCHANGED <<event, taker, fd>>, monitor.pc # "write"
      PROVE  Enough'
  <2>1. E!Reading' = E!Reading /\ E!Counted' = E!Counted /\ E!Writing = 0 /\ E!Writing' \in 0..1
    BY <1>1 DEF E!Reading, E!Counted, E!Writing
  <2> QED
    BY <1>0, <1>1, <2>1
<1>2. ASSUME UNCHANGED <<event, taker, fd, monitor>>
      PROVE  Enough'
  BY <1>2, Zenon DEF E!Reading, E!Counted, E!Writing
<1>3. CASE E!Trigger
  <2>1. PICK h \in E!Handles :
          event' = IF E!Here(h) THEN [event EXCEPT ![h] = E!Triggered(@)] ELSE event
    BY <1>3, Zenon DEF E!Trigger, EventsTyped
  <2>2. E!Writing = 0 /\ E!Writing' = 1 /\ fd' = fd /\ E!Reading' = E!Reading
    BY <1>3, Zenon DEF E!Trigger, E!Writing, E!Reading, EventsTyped, E!application
  <2>3. E!Counted' \in SUBSET (E!Counted \cup {h})
    BY <2>1, Zenon DEF E!Counted, E!Triggered, EventsTyped, E!Handles
  <2>4. IsFiniteSet(E!Counted \cup {h}) /\ Cardinality(E!Counted \cup {h}) <= C + 1
    <3>1. /\ IsFiniteSet(E!Counted \cup {h})
          /\ Cardinality(E!Counted \cup {h}) = IF h \in E!Counted THEN C ELSE C + 1
      BY <1>0, FS_AddElement, Zenon
    <3> QED
      BY <1>0, <3>1
  <2>5. Cardinality(E!Counted') <= Cardinality(E!Counted \cup {h}) /\ IsFiniteSet(E!Counted')
    BY <2>3, <2>4, FS_Subset, Zenon
  <2>6. Cardinality(E!Counted') \in Nat /\ Cardinality(E!Counted \cup {h}) \in Nat
    BY <2>4, <2>5, FS_CardinalityType, Zenon
  <2> QED
    BY <1>0, <2>2, <2>4, <2>5, <2>6
<1>4. CASE E!Write
  <2>1. E!Writing = 1 /\ E!Writing' = 0 /\ fd' = fd + 1 /\ E!Reading' = E!Reading /\ E!Counted' = E!Counted
    BY <1>4, Zenon DEF E!Write, E!Writing, E!Reading, E!Counted, EventsTyped, E!application
  <2> QED
    BY <1>0, <2>1
<1>5. ASSUME NEW t \in Takers, E!Take(t)
      PROVE  Enough'
  <2>1. E!Reading' = E!Reading
    BY <1>5 DEF E!Take, E!Reading, EventsTyped
  <2>2. E!Counted' = E!Counted /\ E!Writing' = E!Writing /\ fd' = fd
    BY <1>5, Zenon DEF E!Take, E!Counted, E!Writing
  <2> QED
    BY <2>1, <2>2, Zenon
<1>6. ASSUME NEW t \in Takers, E!Store(t)
      PROVE  Enough'
  <2>1. /\ taker[t].pc = "store" /\ taker[t].of \in E!Mine
        /\ event' = [event EXCEPT ![taker[t].of].count = 0]
        /\ taker' = [taker EXCEPT ![t].pc = "read"]
    BY <1>6, Zenon DEF E!Store, EventsTyped
  <2>2. E!Reading' = E!Reading \cup {t} /\ t \notin E!Reading
    BY <2>1 DEF E!Reading, EventsTyped
  <2>3. E!Counted' = E!Counted \ {taker[t].of} /\ taker[t].of \in E!Counted
    BY <2>1, <1>0 DEF E!Counted, EventsTyped, Loaded
  <2>4. Cardinality(E!Reading') = R + 1 /\ Cardinality(E!Counted') = C - 1
    BY <1>0, <2>2, <2>3, FS_AddElement, FS_RemoveElement, Zenon
  <2>5. E!Writing' = E!Writing /\ fd' = fd
    BY <1>6, Zenon DEF E!Store, E!Writing
  <2> QED
    BY <1>0, <2>4, <2>5
<1>7. ASSUME NEW t \in Takers, E!Read(t)
      PROVE  Enough'
  <2>1. E!Reading' = E!Reading \ {t} /\ t \in E!Reading
    BY <1>7, Zenon DEF E!Read, E!Reading, EventsTyped
  <2>2. Cardinality(E!Reading') = R - 1
    BY <1>0, <2>1, FS_RemoveElement, Zenon
  <2>3. E!Counted' = E!Counted /\ E!Writing' = E!Writing /\ fd' = fd - 1 /\ fd > 0
    BY <1>7, Zenon DEF E!Read, E!Counted, E!Writing
  <2> QED
    BY <1>0, <2>2, <2>3
<1>8. ASSUME NEW h \in E!Handles, UNCHANGED <<fd, monitor, taker>>,
             \E s \in {"here", "gone"} : event' = [event EXCEPT ![h] = E!Event(s)]
      PROVE  Enough'
  <2>1. E!Counted' \in SUBSET E!Counted
    BY <1>8, <1>0 DEF E!Counted, E!Event, EventsTyped
  <2>2. Cardinality(E!Counted') <= C /\ IsFiniteSet(E!Counted')
    BY <1>0, <2>1, FS_Subset, Zenon
  <2>3. Cardinality(E!Counted') \in Nat
    BY <2>2, FS_CardinalityType, Zenon
  <2>4. E!Reading' = E!Reading /\ E!Writing' = E!Writing /\ fd' = fd
    BY <1>8, Zenon DEF E!Reading, E!Writing
  <2> QED
    BY <1>0, <2>2, <2>3, <2>4
<1>9. ASSUME NEW h \in E!Handles, E!Create(h)
      PROVE  Enough'
  BY <1>8, <1>9, Zenon DEF E!Create
<1>10. ASSUME NEW h \in E!Mine, E!Destroy(h)
       PROVE  Enough'
  BY <1>0, <1>8, <1>10, Zenon DEF E!Destroy
<1>11. E!Expire \/ (\E g \in Gids \cup {0} : E!Publish(g)) \/ E!assert_liveliness \/ E!Shutdown
         \/ UNCHANGED E!vars
       => UNCHANGED <<event, taker, fd, monitor>>
  BY Zenon DEF E!Expire, E!Publish, E!assert_liveliness, E!Shutdown, E!vars, E!application
<1>12. E!check_deadlines \/ E!check_liveliness \/ E!CheckChanged \/ E!Sleep
       => UNCHANGED <<event, taker, fd>> /\ monitor.pc # "write"
  BY Zenon DEF E!check_deadlines, E!check_liveliness, E!CheckChanged, E!Sleep, E!Fired, E!application
<1> QED
  BY <1>1, <1>2, <1>3, <1>4, <1>5, <1>6, <1>7, <1>9, <1>10, <1>11, <1>12, Zenon DEF E!Next, E!Thread

-----------------------------------------------------------------------------
\* Every step of the monitor, of the application and of the threads that take keeps the
\* invariant of the events.
LEMMA MonitorStep ==
  ASSUME EventsFinite, MonitorInv, [E!Next]_(E!vars)
  PROVE  MonitorInv'
<1>1. EventsTyped'
  BY EventsTypedStep, Zenon DEF MonitorInv
<1>2. ASSUME ~ overlapped' PROVE Loaded' /\ Enough'
  <2>1. EventsTyped /\ Loaded /\ Enough
    BY <1>2, OverlapStep, Zenon DEF MonitorInv
  <2> QED
    BY <1>1, <1>2, <2>1, LoadedStep, EnoughStep, Zenon
<1> QED
  BY <1>1, <1>2, Zenon DEF MonitorInv

\* The invariant of the events holds in every behaviour of a session (events.rs).
THEOREM MonitorInvariant == MCSpec => []MonitorInv
<1>0. EventsFinite
  BY EventsAssumption, Zenon DEF EventsFinite, E!Mine
<1>1. MCInit => MonitorInv
  BY <1>0, MonitorInit, Zenon DEF MCInit
<1>2. MonitorInv /\ [MCNext]_<<part, vars, eventVars>> => MonitorInv'
  <2> SUFFICES ASSUME MonitorInv, [MCNext]_<<part, vars, eventVars>> PROVE MonitorInv'
    BY Zenon
  <2>1. E!Next \/ UNCHANGED eventVars
    BY Zenon DEF MCNext
  <2>2. [E!Next]_(E!vars)
    BY <2>1, Zenon DEF E!vars, eventVars
  <2> QED
    BY <1>0, <2>2, MonitorStep, Zenon
<1> QED
  BY <1>1, <1>2, PTL DEF MCSpec

\* No take of a QoS event waits for a trigger that never comes (take_event, trigger_event,
\* destroy_event), for any finite sets of events, leases and threads.
THEOREM EnoughUnlessOverlapHolds == MCSpec => []EnoughUnlessOverlap
<1>1. MonitorInv => EnoughUnlessOverlap
  BY SameCardinality, Zenon DEF MonitorInv, Enough, EnoughUnlessOverlap, E!EnoughUnlessOverlap
<1> QED
  BY <1>1, MonitorInvariant, PTL

-----------------------------------------------------------------------------
(* rmw_wait *)

USE WaitSetAssumption

\* The initial state satisfies the invariant.
LEMMA IInvInit == Init => IInv
<1> SUFFICES ASSUME Init PROVE IInv
  BY Zenon
<1>1. TypeOK
  BY DEF Init, TypeOK, Outside, WaitLocals
<1>2. ReadyHasData
  BY Zenon DEF Init, ReadyHasData, Outside
<1>3. TokenForData /\ TriggerPending
  BY Zenon DEF Init, TokenForData, TriggerPending, Outside, At
<1> QED
  BY <1>1, <1>2, <1>3, Zenon DEF IInv

\* Every step preserves the types.  Cursors stay behind the channel because an
\* entity that is ready has data.
LEMMA TypeStep == IInv /\ [Next]_vars => TypeOK'
<1> SUFFICES ASSUME TypeOK, ReadyHasData, [Next]_vars PROVE TypeOK'
  BY Zenon DEF IInv
<1>1. CASE Write \/ Signal
  BY <1>1 DEF TypeOK, Write, Signal, guard
<1>2. ASSUME NEW w \in Waiters, Flag(w) \/ Kick(w) PROVE TypeOK'
  <2>1. CASE Flag(w)
    <3>1. triggers' \in 0 .. MaxTriggers
      BY <2>1 DEF TypeOK, Flag
    <3> QED
      BY <2>1, <3>1, Zenon DEF TypeOK, Flag, channel
  <2>2. CASE Kick(w)
    BY <2>2 DEF TypeOK, Kick, channel
  <2> QED
    BY <1>2, <2>1, <2>2, Zenon
<1>3. ASSUME NEW w \in Waiters, Enter(w) PROVE TypeOK'
  BY <1>3, Zenon DEF TypeOK, Enter, channel, guard, Outside, WaitLocals
<1>4. ASSUME NEW w \in Waiters, Wake(w) PROVE TypeOK'
  <2>1. ReadyFds(w) \in SUBSET (Fds \cup {GuardTag})
    BY Zenon DEF ReadyFds
  <2>2. wait' \in [Waiters -> WaitLocals]
    <3> DEFINE new == [wait[w] EXCEPT !.pc = "drain", !.why = "event",
                                      !.events = ReadyFds(w)]
    <3>0. wait[w] \in WaitLocals
      BY Zenon DEF TypeOK
    <3>1. new \in WaitLocals
      BY <3>0, <2>1, Zenon DEF WaitLocals
    <3>2. wait' = [wait EXCEPT ![w] = new]
      BY <1>4, Zenon DEF Wake
    <3> HIDE DEF new
    <3> QED
      BY <3>1, <3>2, Zenon DEF TypeOK
  <2> QED
    BY <1>4, <2>2, Zenon DEF TypeOK, Wake, channel, guard
<1>5. ASSUME NEW w \in Waiters, Slice(w) PROVE TypeOK'
  <2>1. wait' \in [Waiters -> WaitLocals]
    <3> DEFINE new == [wait[w] EXCEPT !.pc = "drain",
                     !.why = IF Avail(w) # {} THEN "data" ELSE "timeout"]
    <3>0. wait[w] \in WaitLocals
      BY Zenon DEF TypeOK
    <3>1. new \in WaitLocals
      BY <3>0, Zenon DEF WaitLocals
    <3>2. wait' = [wait EXCEPT ![w] = new]
      BY <1>5, Zenon DEF Slice
    <3> HIDE DEF new
    <3> QED
      BY <3>1, <3>2, Zenon DEF TypeOK
  <2> QED
    BY <1>5, <2>1, Zenon DEF TypeOK, Slice, channel, guard
<1>6. ASSUME NEW w \in Waiters, Drain(w) PROVE TypeOK'
  <2>1. wait' \in [Waiters -> WaitLocals]
    <3> DEFINE new == [wait[w] EXCEPT !.pc = "check"]
    <3>0. wait[w] \in WaitLocals
      BY Zenon DEF TypeOK
    <3>1. new \in WaitLocals
      BY <3>0, Zenon DEF WaitLocals
    <3>2. wait' = [wait EXCEPT ![w] = new]
      BY <1>6, Zenon DEF Drain
    <3> HIDE DEF new
    <3> QED
      BY <3>1, <3>2, Zenon DEF TypeOK
  <2>2. tokens' \in [Fds -> Nat]
    BY <1>6 DEF TypeOK, Drain
  <2> QED
    BY <1>6, <2>1, <2>2, Zenon DEF TypeOK, Drain, channel, guard
<1>7. ASSUME NEW w \in Waiters, Check(w) PROVE TypeOK'
  <2>1. Avail(w) \in SUBSET Entities
    BY Zenon DEF Avail, EntitiesOf
  <2>2. wait' \in [Waiters -> WaitLocals]
    <3> DEFINE new == [wait[w] EXCEPT !.pc = "guard", !.ready = Avail(w)]
    <3>0. wait[w] \in WaitLocals
      BY Zenon DEF TypeOK
    <3>1. new \in WaitLocals
      BY <3>0, <2>1, Zenon DEF WaitLocals
    <3>2. wait' = [wait EXCEPT ![w] = new]
      BY <1>7, Zenon DEF Check
    <3> HIDE DEF new
    <3> QED
      BY <3>1, <3>2, Zenon DEF TypeOK
  <2> QED
    BY <1>7, <2>2, Zenon DEF TypeOK, Check, channel, guard
<1>8. ASSUME NEW w \in Waiters, Exchange(w) PROVE TypeOK'
  <2>1. wait' \in [Waiters -> WaitLocals]
    <3> DEFINE ready == triggered[w] \/ GuardTag \in wait[w].events
               new == [wait[w] EXCEPT !.pc = IF ready THEN "read" ELSE "return",
                                      !.guard = IF ready THEN "ready" ELSE "null"]
    <3>0. wait[w] \in WaitLocals
      BY Zenon DEF TypeOK
    <3>1. new \in WaitLocals
      BY <3>0, Zenon DEF WaitLocals
    <3>2. wait' = [wait EXCEPT ![w] = new]
      BY <1>8, Zenon DEF Exchange
    <3> HIDE DEF new
    <3> QED
      BY <3>1, <3>2, Zenon DEF TypeOK
  <2> QED
    BY <1>8, <2>1, Zenon DEF TypeOK, Exchange, channel
<1>9. ASSUME NEW w \in Waiters, ReadGuard(w) PROVE TypeOK'
  <2>1. wait' \in [Waiters -> WaitLocals]
    <3> DEFINE new == [wait[w] EXCEPT !.pc = "return"]
    <3>0. wait[w] \in WaitLocals
      BY Zenon DEF TypeOK
    <3>1. new \in WaitLocals
      BY <3>0, Zenon DEF WaitLocals
    <3>2. wait' = [wait EXCEPT ![w] = new]
      BY <1>9, Zenon DEF ReadGuard
    <3> HIDE DEF new
    <3> QED
      BY <3>1, <3>2, Zenon DEF TypeOK
  <2>2. guardFd' \in [Waiters -> Nat]
    BY <1>9, Zenon DEF TypeOK, ReadGuard
  <2> QED
    BY <1>9, <2>1, <2>2, Zenon DEF TypeOK, ReadGuard, channel
<1>10. ASSUME NEW w \in Waiters, Return(w) PROVE TypeOK'
  <2>1. wait' \in [Waiters -> WaitLocals]
    <3> DEFINE new == [Outside EXCEPT
                         !.ready = wait[w].ready, !.guard = wait[w].guard,
                         !.result = IF TimedOut(w) THEN "timeout" ELSE "ok"]
    <3>0. wait[w] \in WaitLocals
      BY Zenon DEF TypeOK
    <3>1. new \in WaitLocals
      BY <3>0, Zenon DEF WaitLocals, Outside
    <3>2. wait' = [wait EXCEPT ![w] = new]
      BY <1>10, Zenon DEF Return
    <3> HIDE DEF new
    <3> QED
      BY <3>1, <3>2, Zenon DEF TypeOK
  <2>2. owed' \in [Waiters -> BOOLEAN]
    BY <1>10, Zenon DEF TypeOK, Return
  <2> QED
    BY <1>10, <2>1, <2>2, Zenon DEF TypeOK, Return, channel, guard
<1>11. ASSUME NEW w \in Waiters, Execute(w) PROVE TypeOK'
  <2>1. \A e \in wait[w].ready : cursor[e] < written
    BY Zenon DEF ReadyHasData, Avail
  <2>2. cursor' \in [Entities -> 0 .. written]
    BY <1>11, <2>1 DEF Execute, TypeOK
  <2>3. wait' \in [Waiters -> WaitLocals]
    <3> DEFINE new == [wait[w] EXCEPT !.ready = {}]
    <3>0. wait[w] \in WaitLocals
      BY Zenon DEF TypeOK
    <3>1. new \in WaitLocals
      BY <3>0, Zenon DEF WaitLocals
    <3>2. wait' = [wait EXCEPT ![w] = new]
      BY <1>11, Zenon DEF Execute
    <3> HIDE DEF new
    <3> QED
      BY <3>1, <3>2, Zenon DEF TypeOK
  <2> QED
    BY <1>11, <2>2, <2>3, Zenon DEF TypeOK, Execute, channel, guard
<1>12. CASE UNCHANGED vars
  BY <1>12, Zenon DEF TypeOK, vars, channel, guard
<1> QED
  BY <1>1, <1>2, <1>3, <1>4, <1>5, <1>6, <1>7, <1>8, <1>9, <1>10, <1>11, <1>12, Zenon
  DEF Next, WaitStep

\* What is ready keeps its data: the channel only grows, and only the executor
\* moves the cursors of its own entities.
LEMMA ReadyStep == IInv /\ [Next]_vars => ReadyHasData'
<1> SUFFICES ASSUME TypeOK, ReadyHasData, [Next]_vars,
                    NEW v \in Waiters, NEW e \in wait'[v].ready
             PROVE  e \in Avail(v)'
  BY Zenon DEF IInv, ReadyHasData
<1> USE DEF Avail, EntitiesOf
<1>1. CASE Write \/ Signal
  BY <1>1 DEF TypeOK, ReadyHasData, Write, Signal
<1>2. ASSUME NEW w \in Waiters, Flag(w) \/ Kick(w) PROVE e \in Avail(v)'
  BY <1>2 DEF ReadyHasData, Flag, Kick, channel
<1>3. ASSUME NEW w \in Waiters, Enter(w) PROVE e \in Avail(v)'
  BY <1>3, Zenon DEF TypeOK, ReadyHasData, Enter, channel, Outside
<1>4. ASSUME NEW w \in Waiters,
             Wake(w) \/ Slice(w) \/ Drain(w) \/ Exchange(w) \/ ReadGuard(w)
      PROVE  e \in Avail(v)'
  <2>1. wait'[v].ready = wait[v].ready
    <3>1. wait[w] \in WaitLocals /\ DOMAIN wait = Waiters
      BY Zenon DEF TypeOK
    <3>2. CASE Wake(w)
      BY <3>2, <3>1, Zenon DEF Wake, WaitLocals
    <3>3. CASE Slice(w)
      BY <3>3, <3>1, Zenon DEF Slice, WaitLocals
    <3>4. CASE Drain(w)
      BY <3>4, <3>1, Zenon DEF Drain, WaitLocals
    <3>5. CASE Exchange(w)
      BY <3>5, <3>1, Zenon DEF Exchange, WaitLocals
    <3>6. CASE ReadGuard(w)
      BY <3>6, <3>1, Zenon DEF ReadGuard, WaitLocals
    <3> QED
      BY <1>4, <3>2, <3>3, <3>4, <3>5, <3>6, Zenon
  <2> QED
    BY <1>4, <2>1 DEF ReadyHasData, Wake, Slice, Drain, Exchange, ReadGuard,
                      channel
<1>5. ASSUME NEW w \in Waiters, Check(w) PROVE e \in Avail(v)'
  BY <1>5 DEF TypeOK, ReadyHasData, Check, channel, WaitLocals
<1>6. ASSUME NEW w \in Waiters, Return(w) PROVE e \in Avail(v)'
  BY <1>6, Zenon DEF TypeOK, ReadyHasData, Return, channel, Outside, WaitLocals
<1>7. ASSUME NEW w \in Waiters, Execute(w) PROVE e \in Avail(v)'
  <2>1. v # w /\ e \in wait[v].ready
    BY <1>7 DEF TypeOK, Execute, WaitLocals
  <2>2. OwnerOf[e] = v /\ e \in Entities /\ e \notin wait[w].ready
    BY <2>1 DEF ReadyHasData
  <2> QED
    BY <1>7, <2>1, <2>2, Zenon DEF TypeOK, ReadyHasData, Execute, channel
<1>8. CASE UNCHANGED vars
  BY <1>8, Zenon DEF ReadyHasData, vars, channel
<1> QED
  BY <1>1, <1>2, <1>3, <1>4, <1>5, <1>6, <1>7, <1>8, Zenon DEF Next, WaitStep

\* Where a step of rmw_wait leads, and what it keeps of the other executors.
LEMMA WaitMoves ==
  ASSUME TypeOK, NEW w \in Waiters, WaitStep(w), NEW v \in Waiters
  PROVE  /\ v # w => wait'[v] = wait[v]
         /\ At(w, "epoll")' => Enter(w) /\ Avail(w) = {}
<1>1. wait[w] \in WaitLocals /\ DOMAIN wait = Waiters
  BY Zenon DEF TypeOK
<1> USE DEF At
<1>2. CASE Enter(w)
  BY <1>1, <1>2, Zenon DEF Enter, Outside
<1>3. CASE Wake(w)
  BY <1>1, <1>3, Zenon DEF Wake, WaitLocals
<1>4. CASE Slice(w)
  BY <1>1, <1>4, Zenon DEF Slice, WaitLocals
<1>5. CASE Drain(w)
  BY <1>1, <1>5, Zenon DEF Drain, WaitLocals
<1>6. CASE Check(w)
  BY <1>1, <1>6, Zenon DEF Check, WaitLocals
<1>7. CASE Exchange(w)
  BY <1>1, <1>7, Zenon DEF Exchange, WaitLocals
<1>8. CASE ReadGuard(w)
  BY <1>1, <1>8, Zenon DEF ReadGuard, WaitLocals
<1>9. CASE Return(w)
  BY <1>1, <1>9, Zenon DEF Return, Outside
<1>10. CASE Execute(w)
  BY <1>1, <1>10, Zenon DEF Execute, WaitLocals
<1> QED
  BY <1>2, <1>3, <1>4, <1>5, <1>6, <1>7, <1>8, <1>9, <1>10, Zenon DEF WaitStep

\* New data comes with a token, and only the executor itself draws one.
LEMMA TokenStep == IInv /\ [Next]_vars => TokenForData'
<1> SUFFICES ASSUME TypeOK, ReadyHasData, TokenForData, [Next]_vars,
                    NEW v \in Waiters, OwnFd(v), At(v, "epoll")',
                    Avail(v)' # {}, ~(signalled' < written')
             PROVE  tokens'[FdOf[v]] > 0
  BY Zenon DEF IInv, TokenForData, OwnFd
<1> USE DEF At
<1>1. CASE Write
  BY <1>1 DEF Write, TypeOK
<1>2. CASE Signal
  BY <1>2 DEF Signal, TypeOK, OwnFd
<1>3. ASSUME NEW w \in Waiters, Flag(w) \/ Kick(w)
      PROVE  tokens'[FdOf[v]] > 0
  BY <1>3 DEF Flag, Kick, channel, TokenForData, Avail, EntitiesOf, TypeOK
<1>4. ASSUME NEW w \in Waiters, WaitStep(w) PROVE tokens'[FdOf[v]] > 0
  <2>1. written' = written /\ signalled' = signalled
    BY <1>4, Zenon DEF WaitStep, Enter, Wake, Slice, Drain, Check, Exchange,
                ReadGuard, Return, Execute, channel
  <2>2. CASE v = w
    <3>1. Enter(w) /\ Avail(w) = {}
      BY <1>4, <2>2, WaitMoves, Zenon
    <3> QED
      BY <2>2, <3>1, <2>1, Zenon DEF Enter, Avail, EntitiesOf
  <2>3. CASE v # w
    <3>1. wait'[v] = wait[v]
      BY <1>4, <2>3, WaitMoves, Zenon
    <3>2. Avail(v)' = Avail(v)
      <4>1. \A e \in Entities : OwnerOf[e] = v => cursor'[e] = cursor[e]
        <5>1. CASE Execute(w)
          BY <5>1, <2>3, Zenon DEF Execute, TypeOK, ReadyHasData, Avail, EntitiesOf
        <5>2. CASE ~Execute(w)
          BY <1>4, <5>2, Zenon DEF WaitStep, Enter, Wake, Slice, Drain, Check,
                            Exchange, ReadGuard, Return
        <5> QED
          BY <5>1, <5>2, Zenon
      <4> QED
        BY <4>1, <2>1, Zenon DEF Avail, EntitiesOf
    <3>3. tokens'[FdOf[v]] = tokens[FdOf[v]]
      <4>1. CASE Drain(w)
        BY <4>1, <2>3, Zenon DEF Drain, OwnFd, TypeOK
      <4>2. CASE ~Drain(w)
        BY <1>4, <4>2, Zenon DEF WaitStep, Enter, Wake, Slice, Check, Exchange,
                          ReadGuard, Return, Execute
      <4> QED
        BY <4>1, <4>2, Zenon
    <3> QED
      BY <3>1, <3>2, <3>3, <2>1, Zenon DEF TokenForData, TypeOK
  <2> QED
    BY <2>2, <2>3, Zenon
<1>5. CASE UNCHANGED vars
  BY <1>5, Zenon DEF vars, channel, TokenForData, Avail, EntitiesOf, TypeOK
<1> QED
  BY <1>1, <1>2, <1>3, <1>4, <1>5, Zenon DEF Next

\* One executor's share of TriggerPending.
PendingOf(w) ==
  /\ wait[w].why # "timeout"
  /\ At(w, "read") => wait[w].guard = "ready"
  /\ owed[w] => \/ trigger[w] = "flagged"
                \/ guardFd[w] > 0
                \/ wait[w].pc \in {"read", "return"} /\ wait[w].guard = "ready"

\* A trigger reaches the eventfd after the flag, and rmw_wait empties the
\* eventfd only once it has decided to report the guard condition.
LEMMA TriggerStep == IInv /\ [Next]_vars => TriggerPending'
<1> SUFFICES ASSUME TypeOK, [Next]_vars, NEW v \in Waiters \ Finite, PendingOf(v)
             PROVE  PendingOf(v)'
  BY Zenon DEF IInv, TriggerPending, PendingOf
<1> USE DEF PendingOf, At
<1>1. /\ wait[v] \in WaitLocals /\ guardFd[v] \in Nat
      /\ DOMAIN wait = Waiters /\ DOMAIN guardFd = Waiters
      /\ DOMAIN trigger = Waiters /\ DOMAIN owed = Waiters
  BY Zenon DEF TypeOK
<1>2. CASE Write \/ Signal
  BY <1>2, <1>1, Zenon DEF Write, Signal, guard
<1>3. ASSUME NEW w \in Waiters, Flag(w) PROVE PendingOf(v)'
  BY <1>3, <1>1, Zenon DEF Flag
<1>4. ASSUME NEW w \in Waiters, Kick(w) PROVE PendingOf(v)'
  BY <1>4, <1>1 DEF Kick
<1>5. ASSUME NEW w \in Waiters, WaitStep(w) PROVE PendingOf(v)'
  <2>1. CASE v # w
    <3>1. wait'[v] = wait[v]
      BY <1>5, <2>1, WaitMoves, Zenon
    <3>2. guardFd'[v] = guardFd[v] /\ trigger' = trigger /\ owed'[v] = owed[v]
      BY <1>5, <2>1, <1>1, Zenon DEF WaitStep, Enter, Wake, Slice, Drain, Check,
                              Exchange, ReadGuard, Return, Execute, guard
    <3> QED
      BY <3>1, <3>2, Zenon
  <2>2. CASE v = w
    <3> USE <2>2
    <3>1. CASE Enter(w)
      BY <3>1, <1>1, Zenon DEF Enter, Outside, guard
    <3>2. CASE Wake(w)
      BY <3>2, <1>1, Zenon DEF Wake, guard, WaitLocals
    <3>3. CASE Slice(w)
      BY <3>3, <1>1, Zenon DEF Slice, guard, WaitLocals
    <3>4. CASE Drain(w)
      BY <3>4, <1>1, Zenon DEF Drain, guard, WaitLocals
    <3>5. CASE Check(w)
      BY <3>5, <1>1, Zenon DEF Check, guard, WaitLocals
    <3>6. CASE Exchange(w)
      BY <3>6, <1>1, Zenon DEF Exchange, WaitLocals
    <3>7. CASE ReadGuard(w)
      BY <3>7, <1>1, Zenon DEF ReadGuard, WaitLocals
    <3>8. CASE Return(w)
      BY <3>8, <1>1, Zenon DEF Return, TimedOut, Outside, guard, WaitLocals
    <3>9. CASE Execute(w)
      BY <3>9, <1>1, Zenon DEF Execute, guard, WaitLocals
    <3> QED
      BY <1>5, <3>1, <3>2, <3>3, <3>4, <3>5, <3>6, <3>7, <3>8, <3>9, Zenon
         DEF WaitStep
  <2> QED
    BY <2>1, <2>2, Zenon
<1>6. CASE UNCHANGED vars
  BY <1>6, Zenon DEF vars, guard
<1> QED
  BY <1>2, <1>3, <1>4, <1>5, <1>6, Zenon DEF Next

----------------------------------------------------------------------------
\* Every reachable state of publishers, triggers and executors satisfies the
\* inductive invariant, whatever their number and whoever shares an eventfd.
THEOREM InvariantHolds == Spec => []IInv
<1>1. Init => IInv
  BY IInvInit, Zenon
<1>2. IInv /\ [Next]_vars => IInv'
  BY TypeStep, ReadyStep, TokenStep, TriggerStep, Zenon DEF IInv
<1> QED
  BY <1>1, <1>2, PTL DEF Spec

\* The variables of rmw_wait, of the eventfds and of the guard conditions keep
\* their types.
THEOREM TypeCorrect == Spec => []TypeOK
<1>1. IInv => TypeOK
  BY Zenon DEF IInv
<1> QED
  BY <1>1, InvariantHolds, PTL

\* rmw_wait never sleeps in epoll_wait on data of an executor that does not
\* share its eventfd, although it drains one token per wake-up and none when
\* the first pass found data.
THEOREM NoMissedWakeupHolds == Spec => []NoMissedWakeup
<1>1. IInv => NoMissedWakeup
  <2> SUFFICES ASSUME IInv, NEW w \in Waiters, OwnFd(w), Asleep(w),
                      signalled = written, Avail(w) # {}
               PROVE  FALSE
    BY Zenon DEF NoMissedWakeup
  <2>1. tokens[FdOf[w]] > 0
    BY DEF IInv, TypeOK, TokenForData, Asleep
  <2> QED
    BY <2>1, Zenon DEF Asleep, ReadyFds
<1> QED
  BY <1>1, InvariantHolds, PTL

\* rmw_wait without a timeout never sleeps on a trigger of its guard condition,
\* wherever the trigger's two steps fall among rmw_wait's own.
THEOREM NoMissedTriggerHolds == Spec => []NoMissedTrigger
<1>1. IInv => NoMissedTrigger
  <2> SUFFICES ASSUME IInv, NEW w \in Waiters \ Finite, Asleep(w), owed[w]
               PROVE  trigger[w] = "flagged"
    BY Zenon DEF NoMissedTrigger
  <2>1. ~(guardFd[w] > 0) /\ wait[w].pc = "epoll"
    BY Zenon DEF Asleep, ReadyFds, At
  <2> QED
    BY <2>1, Zenon DEF IInv, TriggerPending
<1> QED
  BY <1>1, InvariantHolds, PTL

-----------------------------------------------------------------------------
(* Shared eventfds *)

Pcs == {"start", "listen", "probe", "remove", "bind", "spawn", "receive", "recvmsg", "open",
        "closing", "done", "dead"}

\* The types of the eventfds' state.
FdTyped ==
  /\ peer \in [Sharers -> [pc : Pcs, to : Sharers \cup {NoSocket}, cross : Sharers \cup {NoSocket}]]
  /\ fdServer \in [Sharers -> {"none", "bound", "listening", "serving", "unlinked", "closed"}]

\* A process has a server from bind on, and no eventfd of another; one that has not
\* bound gets its eventfd from one that has.
Roles ==
  \A p \in Sharers :
    /\ peer[p].pc \in {"start", "probe", "remove", "bind", "receive", "recvmsg"} =>
         fdServer[p] = "none" /\ peer[p].cross = NoSocket
    /\ F!At(p, "listen") => fdServer[p] = "bound"
    /\ F!At(p, "spawn") => fdServer[p] = "listening"
    /\ F!At(p, "recvmsg") => peer[p].to \in Sharers /\ fdServer[peer[p].to] # "none"
    /\ peer[p].cross # NoSocket => fdServer[p] = "none" /\ fdServer[peer[p].cross] # "none"

\* A server of use is the one that the name of the socket stands for.
Named == \A s \in Sharers : F!Useful(s) => path = s

\* A process that is open, and has nobody else's eventfd, serves its own.
ServesOrShares ==
  \A p \in Sharers : F!At(p, "open") /\ peer[p].cross = NoSocket => fdServer[p] = "serving"

\* The inductive invariant of the eventfds.
FdInv == FdTyped /\ Roles /\ (split = {} => Named /\ ServesOrShares)

-----------------------------------------------------------------------------

\* Nobody has opened the channel yet (LocalPubSub::create_or_open).
LEMMA FdInit == ASSUME NoSocket \notin Sharers, F!Init PROVE FdInv
BY Zenon DEF FdInv, F!Init, FdTyped, Roles, Named, ServesOrShares, F!Useful, F!At, Pcs

\* The steps of a process and of its server keep the types.
LEMMA FdTypedStep ==
  ASSUME NoSocket \notin Sharers, FdTyped, [F!Next]_(F!vars)
  PROVE  FdTyped'
<1> USE DEF FdTyped, F!At, Pcs, F!Go
<1>1. ASSUME NEW p \in Sharers, F!Bind(p) PROVE FdTyped'
  BY <1>1 DEF F!Bind, F!Bound
<1>2. ASSUME NEW p \in Sharers, F!BindAgain(p) PROVE FdTyped'
  BY <1>2 DEF F!BindAgain, F!Bound
<1>3. ASSUME NEW p \in Sharers, F!Listen(p) PROVE FdTyped'
  BY <1>3, Zenon DEF F!Listen
<1>4. ASSUME NEW p \in Sharers, F!Probe(p) \/ F!Remove(p) PROVE FdTyped'
  BY <1>4 DEF F!Probe, F!Remove
<1>5. ASSUME NEW p \in Sharers, F!Spawn(p) PROVE FdTyped'
  BY <1>5 DEF F!Spawn
<1>6. ASSUME NEW p \in Sharers, F!Connect(p) PROVE FdTyped'
  BY <1>6 DEF F!Connect, F!Answers
<1>7. ASSUME NEW p \in Sharers, F!Refused(p) \/ F!Close(p) \/ F!Join(p) PROVE FdTyped'
  BY <1>7 DEF F!Refused, F!Close, F!Join
<1>8. ASSUME NEW p \in Sharers, F!Serve(p) PROVE FdTyped'
  <2>1. PICK q \in Sharers : F!Received(p, q)
    BY <1>8, Zenon DEF F!Serve
  <2> DEFINE R == [pc : Pcs, to : Sharers \cup {NoSocket}, cross : Sharers \cup {NoSocket}]
  <2>2. peer \in [Sharers -> R] /\ peer[q] \in R
    BY Zenon
  <2>3. [peer[q] EXCEPT !.pc = "open", !.cross = p] \in R
    BY <2>2, Zenon
  <2>4. peer' = [peer EXCEPT ![q] = [peer[q] EXCEPT !.pc = "open", !.cross = p]]
    BY <2>1, <2>2, Zenon DEF F!Received
  <2>5. peer' \in [Sharers -> R]
    <3> HIDE DEF R
    <3> QED BY <2>2, <2>3, <2>4, Zenon
  <2> QED
    BY <1>8, <2>5, Zenon DEF F!Serve
<1>9. ASSUME NEW p \in Sharers, F!Unlink(p) \/ F!CloseListener(p) PROVE FdTyped'
  BY <1>9, Zenon DEF F!Unlink, F!CloseListener
<1>10. ASSUME NEW p \in Sharers, F!Crash(p) PROVE FdTyped'
  BY <1>10, Zenon DEF F!Crash
<1>11. CASE UNCHANGED F!vars
  BY <1>11, Zenon DEF F!vars
<1> QED
  BY <1>1, <1>2, <1>3, <1>4, <1>5, <1>6, <1>7, <1>8, <1>9, <1>10, <1>11, Zenon DEF F!Next, F!Step, F!Thread

\* The roles, step by step: bind gives a process its server, connect chooses a server that

\* listens, and the loop of the server hands out its eventfd.
LEMMA RolesStep ==
  ASSUME NoSocket \notin Sharers, FdTyped, Roles, [F!Next]_(F!vars)
  PROVE  Roles'
<1> USE DEF FdTyped, Roles, F!At, Pcs, F!Go
<1>1. ASSUME NEW p \in Sharers, F!Bind(p) PROVE Roles'
  BY <1>1 DEF F!Bind, F!Bound
<1>2. ASSUME NEW p \in Sharers, F!BindAgain(p) PROVE Roles'
  BY <1>2 DEF F!BindAgain, F!Bound
<1>3. ASSUME NEW p \in Sharers, F!Listen(p) PROVE Roles'
  BY <1>3 DEF F!Listen
<1>4. ASSUME NEW p \in Sharers, F!Probe(p) \/ F!Remove(p) PROVE Roles'
  BY <1>4 DEF F!Probe, F!Remove
<1>5. ASSUME NEW p \in Sharers, F!Spawn(p) PROVE Roles'
  BY <1>5 DEF F!Spawn
<1>6. ASSUME NEW p \in Sharers, F!Connect(p) PROVE Roles'
  BY <1>6 DEF F!Connect, F!Answers
<1>7. ASSUME NEW p \in Sharers, F!Refused(p) \/ F!Close(p) \/ F!Join(p) PROVE Roles'
  BY <1>7 DEF F!Refused, F!Close, F!Join
<1>8. ASSUME NEW p \in Sharers, F!Serve(p) PROVE Roles'
  BY <1>8 DEF F!Serve, F!Received
<1>9. ASSUME NEW p \in Sharers, F!Unlink(p) \/ F!CloseListener(p) PROVE Roles'
  BY <1>9 DEF F!Unlink, F!CloseListener
<1>10. ASSUME NEW p \in Sharers, F!Crash(p) PROVE Roles'
  BY <1>10 DEF F!Crash
<1>11. CASE UNCHANGED F!vars
  BY <1>11, Zenon DEF F!vars
<1> QED
  BY <1>1, <1>2, <1>3, <1>4, <1>5, <1>6, <1>7, <1>8, <1>9, <1>10, <1>11, Zenon DEF F!Next, F!Step, F!Thread

\* What has kept processes apart is not forgotten.
LEMMA WhyStep == ASSUME [F!Next]_(F!vars), split' = {} PROVE split = {}
BY Zenon DEF F!Next, F!Step, F!Thread, F!vars, F!Bind, F!Listen, F!Probe, F!Remove, F!BindAgain, F!Spawn, F!Connect, F!Refused,
       F!Join, F!Serve, F!Unlink, F!CloseListener, F!Close, F!Crash, F!remove_file

\* A server of use keeps its name: bind needs a free name, and a removal is either of a name

\* that stands for no such server or one of the exceptions.
LEMMA NamedStep ==
  ASSUME NoSocket \notin Sharers, FdTyped, Roles, Named, [F!Next]_(F!vars), split' = {}
  PROVE  Named'
<1> USE DEF FdTyped, Roles, Named, F!Useful, F!At, Pcs, F!Go
<1>1. ASSUME NEW p \in Sharers, F!Bind(p) \/ F!BindAgain(p) PROVE Named'
  BY <1>1 DEF F!Bind, F!BindAgain, F!Bound
<1>2. ASSUME NEW p \in Sharers, F!Listen(p) PROVE Named'
  BY <1>2, Zenon DEF F!Listen
<1>3. ASSUME NEW p \in Sharers, F!Remove(p) PROVE Named'
  BY <1>3, Zenon DEF F!Remove, F!remove_file
<1>4. ASSUME NEW p \in Sharers, F!Spawn(p) PROVE Named'
  BY <1>4, Zenon DEF F!Spawn
<1>5. ASSUME NEW p \in Sharers, F!Unlink(p) PROVE Named'
  BY <1>5, Zenon DEF F!Unlink, F!remove_file
<1>6. ASSUME NEW p \in Sharers, F!CloseListener(p) \/ F!Crash(p) PROVE Named'
  BY <1>6, Zenon DEF F!CloseListener, F!Crash
<1>7. ASSUME UNCHANGED <<path, fdServer>> PROVE Named'
  BY <1>7, Zenon
<1>8. \A p \in Sharers :
        F!Probe(p) \/ F!Connect(p) \/ F!Refused(p) \/ F!Join(p) \/ F!Serve(p) \/ F!Close(p)
          => UNCHANGED <<path, fdServer>>
  BY Zenon DEF F!Probe, F!Connect, F!Refused, F!Join, F!Serve, F!Close
<1> QED
  BY <1>1, <1>2, <1>3, <1>4, <1>5, <1>6, <1>7, <1>8, Zenon DEF F!Next, F!Step, F!Thread, F!vars

\* A process that opens the channel serves its eventfd, has received one, or is one of the

\* exceptions; and it serves until it closes the channel.
LEMMA ServesStep ==
  ASSUME NoSocket \notin Sharers, FdTyped, Roles, ServesOrShares, [F!Next]_(F!vars), split' = {}
  PROVE  ServesOrShares'
<1> USE DEF FdTyped, Roles, ServesOrShares, F!At, Pcs, F!Go
<1>1. ASSUME NEW p \in Sharers, F!Bind(p) \/ F!BindAgain(p) PROVE ServesOrShares'
  BY <1>1 DEF F!Bind, F!BindAgain, F!Bound
<1>2. ASSUME NEW p \in Sharers, F!Listen(p) \/ F!Probe(p) \/ F!Remove(p) PROVE ServesOrShares'
  BY <1>2 DEF F!Listen, F!Probe, F!Remove
<1>3. ASSUME NEW p \in Sharers, F!Spawn(p) PROVE ServesOrShares'
  BY <1>3, Zenon DEF F!Spawn
<1>4. ASSUME NEW p \in Sharers, F!Connect(p) \/ F!Refused(p) PROVE ServesOrShares'
  BY <1>4 DEF F!Connect, F!Refused
<1>5. ASSUME NEW p \in Sharers, F!Close(p) \/ F!Join(p) PROVE ServesOrShares'
  BY <1>5 DEF F!Close, F!Join
<1>6. ASSUME NEW s \in Sharers, F!Serve(s) PROVE ServesOrShares'
  BY <1>6 DEF F!Serve, F!Received
<1>7. ASSUME NEW s \in Sharers, F!Unlink(s) \/ F!CloseListener(s) PROVE ServesOrShares'
  BY <1>7, Zenon DEF F!Unlink, F!CloseListener
<1>8. ASSUME NEW p \in Sharers, F!Crash(p) PROVE ServesOrShares'
  BY <1>8, Zenon DEF F!Crash
<1>9. CASE UNCHANGED F!vars
  BY <1>9, Zenon DEF F!vars
<1> QED
  BY <1>1, <1>2, <1>3, <1>4, <1>5, <1>6, <1>7, <1>8, <1>9, Zenon DEF F!Next, F!Step, F!Thread

\* One server at most is of use, and every open process polls its eventfd.
LEMMA FdInvImplies ==
  ASSUME NoSocket \notin Sharers, FdInv
  PROVE  F!WokenUnlessSplit
<1> SUFFICES ASSUME NEW p \in Sharers, NEW q \in Sharers,
                    F!At(p, "open"), F!At(q, "open"), ~ F!Orphaned, split = {}
             PROVE  F!event_fd(q) \in F!Signalled(p)
  BY Zenon DEF F!WokenUnlessSplit
<1> USE DEF FdInv, FdTyped, F!At
<1>1. \A s, u \in Sharers : fdServer[s] = "serving" /\ fdServer[u] = "serving" => s = u
  BY Zenon DEF Named, F!Useful
<1>2. \A r \in Sharers : F!At(r, "open") /\ peer[r].cross = NoSocket => fdServer[r] = "serving"
  BY Zenon DEF ServesOrShares
<1>3. \A r \in Sharers : F!At(r, "open") /\ peer[r].cross # NoSocket =>
        peer[r].cross \in Sharers /\ fdServer[peer[r].cross] = "serving"
  <2> SUFFICES ASSUME NEW r \in Sharers, F!At(r, "open"), peer[r].cross # NoSocket
               PROVE  peer[r].cross \in Sharers /\ fdServer[peer[r].cross] = "serving"
    BY Zenon
  <2>1. peer[r].cross \in Sharers /\ F!At(peer[r].cross, "open")
    BY Zenon DEF F!Orphaned
  <2>2. peer[peer[r].cross].cross = NoSocket
    BY <2>1, Zenon DEF Roles
  <2> QED
    BY <1>2, <2>1, <2>2, Zenon
<1> QED
  BY <1>1, <1>2, <1>3, Zenon DEF F!event_fd, F!Signalled

-----------------------------------------------------------------------------
\* A publication of one process wakes the subscriptions of the others (create_or_open, bind,
\* receive_eventfd, event_fd, publish_with_gid), for any number of processes that open,
\* close and crash: whatever is written on one eventfd is polled by all of them, unless one
\* of the named exceptions has happened.
THEOREM WokenUnlessSplitHolds == F!Spec => []WokenUnlessSplit
<1> NoSocket \notin Sharers
  BY SharersAssumption, Zenon
<1>1. F!Init => FdInv
  BY FdInit, Zenon
<1>2. FdInv /\ [F!Next]_(F!vars) => FdInv'
  <2> SUFFICES ASSUME FdInv, [F!Next]_(F!vars) PROVE FdInv'
    BY Zenon
  <2>1. FdTyped' /\ Roles'
    BY FdTypedStep, RolesStep, Zenon DEF FdInv
  <2>2. ASSUME split' = {} PROVE Named' /\ ServesOrShares'
    BY <2>2, WhyStep, NamedStep, ServesStep, Zenon DEF FdInv
  <2> QED
    BY <2>1, <2>2, Zenon DEF FdInv
<1>3. FdInv => WokenUnlessSplit
  BY FdInvImplies, Zenon DEF WokenUnlessSplit
<1> QED
  BY <1>1, <1>2, <1>3, PTL DEF F!Spec

=============================================================================
