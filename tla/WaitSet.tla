------------------------------- MODULE WaitSet ------------------------------
(***************************************************************************)
(* rmw_wait: executors that sleep until one of their entities has data or  *)
(* their guard condition is triggered, the publishers that write and then  *)
(* signal an eventfd, and the threads that trigger guard conditions.       *)
(*                                                                         *)
(* An entity is a subscription, a service or a client; rmw_wait treats the *)
(* three alike.  All of them read one channel here.  Its eventfd is a      *)
(* semaphore that several processes may share (SCM_RIGHTS), and an         *)
(* executor's descriptor may also be one that no publisher signals.  A     *)
(* guard condition has an eventfd of its own, which a read empties.        *)
(***************************************************************************)
EXTENDS Integers, FiniteSets

CONSTANTS
  Waiters,      \* executors, each in a process of its own
  Entities,
  OwnerOf,      \* [Entities -> Waiters]
  Fds,
  FdOf,         \* [Waiters -> Fds]: the eventfd of the channel in its process
  Signalled,    \* the descriptors that publishers write to
  Finite,       \* the executors whose waits have a timeout
  MaxMessages,  \* bound on the messages published
  MaxTriggers   \* bound on the triggers of guard conditions

ASSUME WaitSetAssumption ==
  /\ OwnerOf \in [Entities -> Waiters]
  /\ FdOf \in [Waiters -> Fds]
  /\ Signalled \subseteq Fds
  /\ Finite \subseteq Waiters
  /\ {MaxMessages, MaxTriggers} \subseteq Nat

VARIABLES
  written,    \* messages in the channel
  signalled,  \* messages whose eventfd writes have been done
  cursor,     \* [Entities -> Nat]: messages taken
  tokens,     \* [Fds -> Nat]: the counters of the eventfds
  triggered,  \* [Waiters -> BOOLEAN]: the flag of the guard condition
  guardFd,    \* [Waiters -> Nat]: the counter of its eventfd
  trigger,    \* [Waiters -> {"idle", "flagged"}]: the triggering thread
  triggers,   \* how often guard conditions were triggered
  wait,       \* [Waiters -> rmw_wait in progress]
  owed        \* history: triggers that no return of rmw_wait has reported

channel == <<written, signalled>>
guard == <<triggered, guardFd, trigger, triggers>>
vars == <<channel, cursor, tokens, guard, wait, owed>>

----------------------------------------------------------------------------
EntitiesOf(w) == {e \in Entities : OwnerOf[e] = w}

\* axon_session_data_available and its variants for services and clients.
Avail(w) == {e \in EntitiesOf(w) : cursor[e] < written}

\* The executor is not in rmw_wait; ready is what the last call left non-null,
\* guard what became of the guard condition, why what ended the loop around
\* epoll_wait.
Outside == [pc |-> "out", why |-> "none", events |-> {}, ready |-> {},
            guard |-> "null", result |-> "none"]

Init ==
  /\ written = 0 /\ signalled = 0
  /\ cursor = [e \in Entities |-> 0]
  /\ tokens = [f \in Fds |-> 0]
  /\ triggered = [w \in Waiters |-> FALSE]
  /\ guardFd = [w \in Waiters |-> 0]
  /\ trigger = [w \in Waiters |-> "idle"]
  /\ triggers = 0
  /\ wait = [w \in Waiters |-> Outside]
  /\ owed = [w \in Waiters |-> FALSE]

----------------------------------------------------------------------------
(* LocalPubSub::publish_with_gid, by one publisher at a time *)

\* RingBuffer::write.
Write ==
  /\ written < MaxMessages
  /\ signalled = written
  /\ written' = written + 1
  /\ UNCHANGED <<signalled, cursor, tokens, guard, wait, owed>>

Signal_Forgotten ==
  /\ signalled < written
  /\ signalled' = signalled + 1
  /\ UNCHANGED <<written, cursor, tokens, guard, wait, owed>>

\* The writes to eventfd and cross_process_eventfd.
Signal ==
  /\ signalled < written
  /\ signalled' = signalled + 1
  /\ tokens' = [f \in Fds |-> IF f \in Signalled THEN tokens[f] + 1
                                                 ELSE tokens[f]]
  /\ UNCHANGED <<written, cursor, guard, wait, owed>>

----------------------------------------------------------------------------
(* rmw_trigger_guard_condition *)

\* triggered.store(true).
Flag(w) ==
  /\ trigger[w] = "idle"
  /\ triggers < MaxTriggers
  /\ triggers' = triggers + 1
  /\ triggered' = [triggered EXCEPT ![w] = TRUE]
  /\ trigger' = [trigger EXCEPT ![w] = "flagged"]
  /\ owed' = [owed EXCEPT ![w] = TRUE]
  /\ UNCHANGED <<channel, cursor, tokens, guardFd, wait>>

\* write(event_fd, 1).
Kick(w) ==
  /\ trigger[w] = "flagged"
  /\ guardFd' = [guardFd EXCEPT ![w] = @ + 1]
  /\ trigger' = [trigger EXCEPT ![w] = "idle"]
  /\ UNCHANGED <<channel, cursor, tokens, triggered, triggers, wait, owed>>

----------------------------------------------------------------------------
(* rmw_wait *)

At(w, pc) == wait[w].pc = pc
GuardTag == "guard"

\* What epoll reports: the descriptors whose counter is not zero.
ReadyFds(w) == {f \in {FdOf[w]} : tokens[f] > 0}
                 \cup (IF guardFd[w] > 0 THEN {GuardTag} ELSE {})

\* The first pass over the entities; data that is there skips epoll_wait.
Enter(w) ==
  /\ At(w, "out")
  /\ wait[w].ready = {}
  /\ wait' = [wait EXCEPT ![w] =
                IF Avail(w) # {}
                THEN [Outside EXCEPT !.pc = "drain", !.why = "data"]
                ELSE [Outside EXCEPT !.pc = "epoll"]]
  /\ UNCHANGED <<channel, cursor, tokens, guard, owed>>

\* epoll_wait returns descriptors.
Wake(w) ==
  /\ At(w, "epoll")
  /\ ReadyFds(w) # {}
  /\ wait' = [wait EXCEPT ![w].pc = "drain", ![w].why = "event",
                          ![w].events = ReadyFds(w)]
  /\ UNCHANGED <<channel, cursor, tokens, guard, owed>>

Slice_NoProbe(w) ==
  /\ At(w, "epoll")
  /\ ReadyFds(w) = {}
  /\ w \in Finite
  /\ wait' = [wait EXCEPT ![w].pc = "drain", ![w].why = "timeout"]
  /\ UNCHANGED <<channel, cursor, tokens, guard, owed>>

\* A slice of epoll_wait passes with no event: any_shm_data_ready, and then the
\* caller's timeout, if it has one and it has elapsed.
Slice(w) ==
  /\ At(w, "epoll")
  /\ ReadyFds(w) = {}
  /\ Avail(w) # {} \/ w \in Finite
  /\ wait' = [wait EXCEPT ![w].pc = "drain",
                          ![w].why = IF Avail(w) # {} THEN "data" ELSE "timeout"]
  /\ UNCHANGED <<channel, cursor, tokens, guard, owed>>

\* drain_ready_fd_once: one token, which another process may have taken.
Drain(w) ==
  LET f == FdOf[w]
  IN /\ At(w, "drain")
     /\ tokens' = IF f \in wait[w].events /\ tokens[f] > 0
                  THEN [tokens EXCEPT ![f] = @ - 1] ELSE tokens
     /\ wait' = [wait EXCEPT ![w].pc = "check"]
     /\ UNCHANGED <<channel, cursor, guard, owed>>

\* The second pass over the entities: those without data become null.
Check(w) ==
  /\ At(w, "check")
  /\ wait' = [wait EXCEPT ![w].pc = "guard", ![w].ready = Avail(w)]
  /\ UNCHANGED <<channel, cursor, tokens, guard, owed>>

Exchange_DrainsAlways(w) ==
  LET ready == triggered[w] \/ GuardTag \in wait[w].events
  IN /\ At(w, "guard")
     /\ triggered' = [triggered EXCEPT ![w] = FALSE]
     /\ wait' = [wait EXCEPT ![w].pc = "read",
                             ![w].guard = IF ready THEN "ready" ELSE "null"]
     /\ UNCHANGED <<channel, cursor, tokens, guardFd, trigger, triggers, owed>>

\* triggered.exchange(false), or the event that epoll reported.
Exchange(w) ==
  LET ready == triggered[w] \/ GuardTag \in wait[w].events
  IN /\ At(w, "guard")
     /\ triggered' = [triggered EXCEPT ![w] = FALSE]
     /\ wait' = [wait EXCEPT ![w].pc = IF ready THEN "read" ELSE "return",
                             ![w].guard = IF ready THEN "ready" ELSE "null"]
     /\ UNCHANGED <<channel, cursor, tokens, guardFd, trigger, triggers, owed>>

\* read(event_fd), which empties the counter.
ReadGuard(w) ==
  /\ At(w, "read")
  /\ guardFd' = [guardFd EXCEPT ![w] = 0]
  /\ wait' = [wait EXCEPT ![w].pc = "return"]
  /\ UNCHANGED <<channel, cursor, tokens, triggered, trigger, triggers, owed>>

\* epoll_wait timed out, and no subscription, service or client is ready.
TimedOut(w) ==
  /\ wait[w].why = "timeout" /\ wait[w].ready = {}

Return(w) ==
  /\ At(w, "return")
  /\ wait' = [wait EXCEPT ![w] =
                [Outside EXCEPT !.ready = wait[w].ready,
                                !.guard = wait[w].guard,
                                !.result = IF TimedOut(w) THEN "timeout"
                                                          ELSE "ok"]]
  /\ owed' = [owed EXCEPT ![w] = @ /\ (wait[w].guard = "null" \/ TimedOut(w))]
  /\ UNCHANGED <<channel, cursor, tokens, guard>>

\* The executor takes one message for every entity that is ready.
Execute(w) ==
  /\ At(w, "out")
  /\ wait[w].ready # {}
  /\ cursor' = [e \in Entities |-> IF e \in wait[w].ready THEN cursor[e] + 1
                                                          ELSE cursor[e]]
  /\ wait' = [wait EXCEPT ![w].ready = {}]
  /\ UNCHANGED <<channel, tokens, guard, owed>>

WaitStep(w) ==
  \/ Enter(w) \/ Wake(w) \/ Slice(w) \/ Drain(w) \/ Check(w) \/ Exchange(w)
  \/ ReadGuard(w) \/ Return(w) \/ Execute(w)

Next ==
  \/ Write \/ Signal
  \/ \E w \in Waiters : Flag(w) \/ Kick(w) \/ WaitStep(w)

Spec == Init /\ [][Next]_vars

\* Threads run: a publisher signals what it wrote, a trigger writes to its
\* eventfd, and an executor goes on calling rmw_wait, whose slices pass.
FairSpec ==
  /\ Spec
  /\ WF_vars(Signal)
  /\ \A w \in Waiters : WF_vars(Kick(w)) /\ WF_vars(WaitStep(w))

----------------------------------------------------------------------------
(* Properties *)

WaitLocals ==
  [pc : {"out", "epoll", "drain", "check", "guard", "read", "return"},
   why : {"none", "data", "event", "timeout"},
   events : SUBSET (Fds \cup {GuardTag}), ready : SUBSET Entities,
   guard : {"null", "ready"},
   result : {"none", "ok", "timeout"}]

\* The types of the variables.
TypeOK ==
  /\ written \in 0 .. MaxMessages /\ signalled \in 0 .. written
  /\ cursor \in [Entities -> 0 .. written]
  /\ tokens \in [Fds -> Nat]
  /\ triggered \in [Waiters -> BOOLEAN]
  /\ guardFd \in [Waiters -> Nat]
  /\ trigger \in [Waiters -> {"idle", "flagged"}]
  /\ triggers \in 0 .. MaxTriggers
  /\ owed \in [Waiters -> BOOLEAN]
  /\ wait \in [Waiters -> WaitLocals]

\* w sleeps and nothing is on its way that would wake it.
Asleep(w) == At(w, "epoll") /\ ReadyFds(w) = {}

\* The only executor that reads its descriptor, which publishers signal.
OwnFd(w) == /\ FdOf[w] \in Signalled
            /\ \A v \in Waiters : FdOf[v] = FdOf[w] => v = w

\* An executor that has its channel's eventfd to itself never sleeps on data:
\* draining one token for several messages, or none when the data was there
\* before epoll_wait, loses no wake-up (rmw_wait, publish_with_gid).
NoMissedWakeup ==
  \A w \in Waiters :
    OwnFd(w) /\ Asleep(w) /\ signalled = written => Avail(w) = {}

\* An executor whose waits have no timeout never sleeps on a trigger of its
\* guard condition: the flag and the eventfd, set in two steps and reset in
\* two, do not lose it (rmw_trigger_guard_condition, rmw_wait).
NoMissedTrigger ==
  \A w \in Waiters \ Finite : Asleep(w) /\ owed[w] => trigger[w] = "flagged"

\* A trigger of its guard condition is always reported to such an executor.
TriggerReported == \A w \in Waiters \ Finite : owed[w] ~> ~owed[w]

\* "periodic data_available checks catch responses even when cross-process
\* eventfd signaling has silently failed": every message is taken by every
\* entity, also where processes share an eventfd or nobody signals it.
AllTaken == \A e \in Entities : <>[](cursor[e] = written)

\* "Infinite waits cannot reach this point without a ready entity": a wait
\* without timeout returns only with an entity or the guard condition ready.  It
\* does not hold: a token of a message that was taken before ends the wait too.
InfiniteReturnsReady ==
  \A w \in Waiters \ Finite :
    At(w, "return") => wait[w].ready # {} \/ wait[w].guard = "ready"

\* "no entity is ready ..., the finite user timeout has elapsed": a wait that
\* returns RMW_RET_TIMEOUT leaves no entity and no guard condition non-null.  It does
\* not hold: the guard condition alone does not make the result OK.
TimeoutMeansNothing ==
  \A w \in Waiters : wait[w].result = "timeout" =>
                       wait[w].ready = {} /\ wait[w].guard = "null"

----------------------------------------------------------------------------
(* The inductive invariant behind NoMissedWakeup and NoMissedTrigger. *)

\* Data that came after the last look of an executor with its own eventfd has a
\* token, or its publisher has still to signal.
TokenForData ==
  \A w \in Waiters :
    OwnFd(w) /\ At(w, "epoll") /\ Avail(w) # {}
      => tokens[FdOf[w]] > 0 \/ signalled < written

\* A trigger that is not reported yet is on its way to the eventfd, in it, or
\* already part of what rmw_wait is about to return.
TriggerPending ==
  \A w \in Waiters \ Finite :
    /\ wait[w].why # "timeout"
    /\ At(w, "read") => wait[w].guard = "ready"
    /\ owed[w] => \/ trigger[w] = "flagged"
                  \/ guardFd[w] > 0
                  \/ wait[w].pc \in {"read", "return"} /\ wait[w].guard = "ready"

\* What rmw_wait leaves non-null has data until the executor takes it.
ReadyHasData == \A w \in Waiters : wait[w].ready \subseteq Avail(w)

\* What every step of the executors, publishers and triggers preserves.
IInv == TypeOK /\ ReadyHasData /\ TokenForData /\ TriggerPending

=============================================================================
