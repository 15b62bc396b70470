---------------------------- MODULE RemoteRoutes ----------------------------
(***************************************************************************)
(* How a session sends a topic to the sessions of other hosts.             *)
(*                                                                         *)
(* The daemon writes the matches of a session into its slot and raises     *)
(* response_gen.  sync_daemon_matches turns them into routes; the route    *)
(* thread calls it every 50 ms, each publish calls it before it sends, and *)
(* no lock is held over a whole call.  A reliable publisher keeps its      *)
(* first samples, a transient one its last samples, for peers that match   *)
(* later.  One topic; a peer stands for its node and its address.          *)
(*                                                                         *)
(* Every peer has an ordered pipeline: samples are pushed behind those     *)
(* that wait, and a worker takes the first and writes it until it succeeds *)
(* (SealedSends).  queue[p] records all that was pushed, and the last      *)
(* pending[p] of them wait.  A live sample of a best-effort publisher      *)
(* pushes out the oldest that wait beyond the history depth; lost[p] are   *)
(* their places in queue[p].  The session's own slot stays Active.         *)
(***************************************************************************)
EXTENDS Integers, Sequences, Functions

CONSTANTS
  Peers,
  Publishers,    \* the threads that publish
  Syncers,       \* the route thread, and threads in rmw_wait or graph queries
  Durabilities,  \* of volatile publishers "none" (best effort) and "startup" (reliable),
                 \* of transient ones "passing" (best effort) and "transient" (reliable)
  Depth,         \* history depth of the publisher
  MaxEvents      \* bound on the samples published, the calls of the syncers and
                 \* the changes of the matches, together

Threads == Publishers \cup Syncers

ASSUME RoutesAssumption ==
  /\ Publishers \cap Syncers = {}
  /\ Durabilities \subseteq {"none", "startup", "passing", "transient"}
  /\ Depth \in Nat \ {0}
  /\ MaxEvents \in Nat

VARIABLES
  durability, \* of the publishers, which share a QoS profile
  matched,    \* the peers in the slot's match list
  owed,       \* are the matches changed and response_gen not yet raised?
  gen,        \* response_gen
  last_gen,   \* daemon_last_response_gen
  known,      \* known_addrs
  routes,     \* remote_routes
  retained,   \* retained_remote_samples
  delivered,  \* retained_remote_peers
  in_flight,  \* retained_remote_pending
  tasks,      \* tasks[p]: completion tasks of history sends to p ...
  served,     \* ... and those that have found p still pending
  queue,      \* queue[p]: history: what has been put in the pipeline to p
  pending,    \* pending[p]: how many of them wait in its RawDataSlot
  lost,       \* lost[p]: history: the places in queue[p] of those that were pushed out
  thread,     \* thread[t]: where thread t is, and its local variables
  samples,    \* samples published
  events,     \* counted against MaxEvents
  due,        \* history: due[p]: samples that p has a right to
  overlap     \* history: has a call ever overlapped with another, or dropped the
              \* record of a peer that a completion task was adding?

shared == <<durability, matched, owed, gen>>
store == <<retained, delivered, in_flight, tasks, served>>
history == <<due, overlap>>
slots == <<pending, lost>>
vars == <<shared, last_gen, known, routes, store, queue, thread, samples, events, history, slots>>

Busy(pc, sample) == [pc |-> pc, sample |-> sample, gen |-> 0, peers |-> {}, batch |-> <<>>]
Idle == Busy("idle", 0)

Init ==
  /\ durability \in Durabilities
  /\ matched = {} /\ owed = FALSE /\ gen = 1
  /\ last_gen = 1 /\ known = {} /\ routes = {}
  /\ retained = <<>> /\ delivered = {} /\ in_flight = {}
  /\ tasks = [p \in Peers |-> 0]
  /\ served = [p \in Peers |-> 0]
  /\ queue = [p \in Peers |-> <<>>]
  /\ pending = [p \in Peers |-> 0]
  /\ lost = [p \in Peers |-> {}]
  /\ thread = [t \in Threads |-> Idle]
  /\ samples = 0 /\ events = 0
  /\ due = [p \in Peers |-> {}]
  /\ overlap = FALSE

Count == events < MaxEvents /\ events' = events + 1

----------------------------------------------------------------------------
(* The daemon *)

\* process_topic_updates or remove_matches_for_node changes the list ...
Change(p) ==
  /\ Count /\ ~owed
  /\ matched' = IF p \in matched THEN matched \ {p} ELSE matched \cup {p}
  /\ owed' = TRUE
  /\ due' = [due EXCEPT ![p] = {}]
  /\ UNCHANGED <<durability, gen, last_gen, known, routes, store, queue, thread, samples,
                 overlap, slots>>

\* ... and then raises response_gen.
Bump ==
  /\ owed
  /\ owed' = FALSE
  /\ gen' = gen + 1
  /\ UNCHANGED <<durability, matched, last_gen, known, routes, store, queue, thread,
                 samples, events, history, slots>>

----------------------------------------------------------------------------
(* Steps of a thread *)

At(t, pc) == thread[t].pc = pc
Goto(t, pc) == thread' = [thread EXCEPT ![t].pc = pc]
Become(t, r) == thread' = [thread EXCEPT ![t] = r]

\* After sync_daemon_matches a publish sends its sample; another call is over.
Return(t) == Become(t, IF t \in Publishers THEN Busy("send", thread[t].sample) ELSE Idle)

Dropped(peers) ==
  overlap' = (overlap \/ \E p \in peers : served[p] > 0 \/ p \in delivered')
Began(t) == overlap' = (overlap \/ \E u \in Threads \ {t} : ~At(u, "idle"))

\* publish_with_gid has written the sample to the ring and has its sequence number.
Publish(t) ==
  /\ t \in Publishers /\ At(t, "idle")
  /\ Count
  /\ samples' = samples + 1
  /\ Become(t, Busy("retain", samples + 1))
  /\ due' = [p \in Peers |-> IF p \in matched /\ ~owed
                             THEN due[p] \cup {samples + 1} ELSE due[p]]
  /\ Began(t)
  /\ UNCHANGED <<shared, last_gen, known, routes, store, queue, slots>>

Poll(t) ==
  /\ t \in Syncers /\ At(t, "idle")
  /\ Count
  /\ Goto(t, "check")
  /\ Began(t)
  /\ UNCHANGED <<shared, last_gen, known, routes, store, queue, samples, due, slots>>

\* The last Depth samples of a history.
Bounded(h) == SubSeq(h, Len(h) - (IF Len(h) < Depth THEN Len(h) ELSE Depth) + 1, Len(h))

\* retain_remote_sample: a transient writer keeps the sample; a reliable one adds
\* to its startup history until a first delivery is complete ...
retain_remote_sample(t) ==
  /\ At(t, "retain")
  /\ Goto(t, CASE durability = "none" -> "check"
               [] durability \in {"passing", "transient"} -> "store"
               [] OTHER -> IF delivered = {} THEN "pending" ELSE "check")
  /\ UNCHANGED <<shared, last_gen, known, routes, store, queue, samples, events, history, slots>>

\* ... or is under way.
RetainPending(t) ==
  /\ At(t, "pending")
  /\ Goto(t, IF in_flight = {} THEN "store" ELSE "check")
  /\ UNCHANGED <<shared, last_gen, known, routes, store, queue, samples, events, history, slots>>

RetainStore_Front(t) ==
  /\ At(t, "store")
  /\ retained' = Bounded(<<thread[t].sample>> \o retained)
  /\ Goto(t, "check")
  /\ UNCHANGED <<shared, last_gen, known, routes, delivered, in_flight, tasks, served, queue,
                 samples, events, history, slots>>

RetainStore(t) ==
  /\ At(t, "store")
  /\ retained' = Bounded(Append(retained, thread[t].sample))
  /\ Goto(t, "check")
  /\ UNCHANGED <<shared, last_gen, known, routes, delivered, in_flight, tasks, served, queue,
                 samples, events, history, slots>>

\* sync_daemon_matches: nothing to do if response_gen is the one last seen.
Check(t) ==
  /\ At(t, "check")
  /\ IF gen = last_gen THEN Return(t)
     ELSE Become(t, [thread[t] EXCEPT !.pc = "read", !.gen = gen])
  /\ UNCHANGED <<shared, last_gen, known, routes, store, queue, samples, events, history, slots>>

\* The generation is stored before the matches are read.  If there is none, or none
\* of them is valid, the tables are only cleared; in the first case the routes first.
Read(t) ==
  /\ At(t, "read")
  /\ last_gen' = thread[t].gen
  /\ \E pc \in {"clear_known"} \cup IF matched = {} THEN {"no_routes"} ELSE {} :
       Become(t, [thread[t] EXCEPT !.pc = pc, !.peers = matched])
  /\ UNCHANGED <<shared, known, routes, store, queue, samples, events, history, slots>>

ClearKnown(t) ==
  /\ \/ At(t, "clear_known") /\ Goto(t, "clear_routes")
     \/ At(t, "no_known") /\ Goto(t, "forget")
  /\ known' = {}
  /\ UNCHANGED <<shared, last_gen, routes, store, queue, samples, events, history, slots>>

ClearedRoutes(t) ==
  \/ At(t, "clear_routes") /\ Goto(t, IF thread[t].peers = {} THEN "forget" ELSE "known")
  \/ At(t, "no_routes") /\ Goto(t, "no_known")

ClearRoutes(t) ==
  /\ ClearedRoutes(t)
  /\ routes' = {}
  /\ UNCHANGED <<shared, last_gen, known, store, queue, samples, events, history, slots>>

\* No match is left: the record of deliveries goes ...
Forget(t) ==
  /\ At(t, "forget")
  /\ delivered' = {}
  /\ Goto(t, "forget_pending")
  /\ Dropped(Peers)
  /\ UNCHANGED <<shared, last_gen, known, routes, retained, in_flight, tasks, served, queue,
                 samples, events, due, slots>>

\* ... and then that of the pending ones.
ForgetPending(t) ==
  /\ At(t, "forget_pending")
  /\ in_flight' = {}
  /\ Return(t)
  /\ UNCHANGED <<shared, last_gen, known, routes, retained, delivered, tasks, served, queue,
                 samples, events, due, slots>>
  /\ Dropped(Peers)

FillKnown(t) ==
  /\ At(t, "known")
  /\ known' = known \cup thread[t].peers
  /\ Goto(t, "routes")
  /\ UNCHANGED <<shared, last_gen, routes, store, queue, samples, events, history, slots>>

FillRoutes_New(t) ==
  /\ At(t, "routes")
  /\ routes' = routes \cup (thread[t].peers \ known)
  /\ Goto(t, "history")
  /\ UNCHANGED <<shared, last_gen, known, store, queue, samples, events, history, slots>>

FillRoutes_NoHistory(t) ==
  /\ At(t, "routes")
  /\ routes' = routes \cup (thread[t].peers \cap known)
  /\ Return(t)
  /\ UNCHANGED <<shared, last_gen, known, store, queue, samples, events, history, slots>>

FillRoutes(t) ==
  /\ At(t, "routes")
  /\ routes' = routes \cup (thread[t].peers \cap known)
  /\ Goto(t, "history")
  /\ UNCHANGED <<shared, last_gen, known, store, queue, samples, events, history, slots>>

\* send_retained_history_to_new_peers: under the three locks, which peers get it.
History(t) ==
  LET peers == thread[t].peers
      new == IF retained = <<>> THEN {} ELSE peers \ (delivered \cup in_flight)
  IN /\ At(t, "history")
     /\ delivered' = delivered \cap peers
     /\ in_flight' = (in_flight \cap peers) \cup new
     /\ Become(t, [thread[t] EXCEPT !.pc = "enqueue", !.peers = new, !.batch = retained])
     /\ Dropped(Peers \ peers)
     /\ UNCHANGED <<shared, last_gen, known, routes, retained, tasks, served, queue, samples,
                    events, due, slots>>

\* send_retained_history pushes the samples into the pipeline of a peer, without a limit.
Enqueue(t) ==
  /\ At(t, "enqueue")
  /\ \/ /\ thread[t].peers = {}
        /\ Return(t)
        /\ UNCHANGED <<queue, pending, tasks>>
     \/ \E p \in thread[t].peers :
          /\ queue' = [queue EXCEPT ![p] = @ \o thread[t].batch]
          /\ pending' = [pending EXCEPT ![p] = @ + Len(thread[t].batch)]
          /\ tasks' = [tasks EXCEPT ![p] = @ + 1]
          /\ Become(t, [thread[t] EXCEPT !.peers = @ \ {p}])
  /\ UNCHANGED <<shared, last_gen, known, routes, retained, delivered, in_flight, served,
                 lost, samples, events, history>>

\* The completion task: the peer counts as served if nothing dropped it from
\* the pending ones since.
Complete(p) ==
  /\ tasks[p] > 0
  /\ tasks' = [tasks EXCEPT ![p] = @ - 1]
  /\ in_flight' = in_flight \ {p}
  /\ served' = IF p \in in_flight THEN [served EXCEPT ![p] = @ + 1] ELSE served
  /\ UNCHANGED <<shared, last_gen, known, routes, retained, delivered, queue, thread, samples,
                 events, history, slots>>

Deliver_Any(p) ==
  /\ p \notin delivered
  /\ delivered' = delivered \cup {p}
  /\ UNCHANGED <<shared, last_gen, known, routes, retained, in_flight, tasks, served, queue, thread,
                 samples, events, history, slots>>

\* The task records it, under another lock.
Deliver(p) ==
  /\ served[p] > 0
  /\ served' = [served EXCEPT ![p] = @ - 1]
  /\ delivered' = delivered \cup {p}
  /\ UNCHANGED <<shared, last_gen, known, routes, retained, in_flight, tasks, queue, thread,
                 samples, events, history, slots>>

\* publisher_send_depth: a best-effort publisher lets at most Depth samples wait.
BestEffort == durability \in {"none", "passing"}

\* send_message_reuse: how many samples a live one pushes out, and their places.
Excess(p) == IF BestEffort /\ pending[p] >= Depth THEN pending[p] - Depth + 1 ELSE 0
Oldest(p) == {i \in DOMAIN queue[p] : /\ Len(queue[p]) - pending[p] < i
                                      /\ i <= Len(queue[p]) - pending[p] + Excess(p)}

\* The worker of a pipeline takes the first sample that waits.  It may do so at any time,
\* and it makes a difference only to a sample that would otherwise be pushed out: the model
\* leaves the takes until a live sample is about to do that.
Work(p) ==
  /\ Excess(p) > 0 /\ p \in routes \cap known /\ \E t \in Publishers : At(t, "send")
  /\ pending' = [pending EXCEPT ![p] = @ - 1]
  /\ UNCHANGED <<shared, last_gen, known, routes, store, queue, thread, samples, events,
                 history, lost>>

\* publish_with_gid sends to the peers that have a route and an address.
Send(t) ==
  /\ At(t, "send")
  /\ queue' = [p \in Peers |-> IF p \in routes \cap known
                               THEN Append(queue[p], thread[t].sample) ELSE queue[p]]
  /\ pending' = [p \in Peers |-> IF p \in routes \cap known
                                 THEN pending[p] - Excess(p) + 1 ELSE pending[p]]
  /\ lost' = [p \in Peers |-> IF p \in routes \cap known
                              THEN lost[p] \cup Oldest(p) ELSE lost[p]]
  /\ Become(t, Idle)
  /\ UNCHANGED <<shared, last_gen, known, routes, store, samples, events, history>>

----------------------------------------------------------------------------
Step(t) ==
  \/ retain_remote_sample(t) \/ RetainPending(t) \/ RetainStore(t)
  \/ Check(t) \/ Read(t)
  \/ ClearKnown(t) \/ ClearRoutes(t) \/ Forget(t) \/ ForgetPending(t)
  \/ FillKnown(t) \/ FillRoutes(t) \/ History(t) \/ Enqueue(t) \/ Send(t)

Next ==
  \/ \E p \in Peers : Change(p) \/ Work(p) \/ Complete(p) \/ Deliver(p)
  \/ Bump
  \/ \E t \in Threads : Publish(t) \/ Poll(t) \/ Step(t)

Spec == Init /\ [][Next]_vars

----------------------------------------------------------------------------
(* Properties *)

Places ==
  {"idle", "retain", "pending", "store", "check", "read", "clear_known", "clear_routes", "no_routes",
   "no_known", "forget", "forget_pending", "known", "routes", "history", "enqueue", "send"}
Calls == [pc : Places, sample : Nat, gen : Nat, peers : SUBSET Peers, batch : Seq(Nat)]

\* The types of the variables.
RoutesTyped ==
  /\ durability \in Durabilities
  /\ {matched, known, routes, delivered, in_flight} \subseteq SUBSET Peers
  /\ {gen, last_gen, samples, events} \subseteq Nat /\ {owed, overlap} \subseteq BOOLEAN
  /\ retained \in Seq(Nat) /\ Len(retained) <= Depth
  /\ {tasks, served} \subseteq [Peers -> Nat]
  /\ queue \in [Peers -> Seq(Nat)] /\ due \in [Peers -> SUBSET Nat]
  /\ thread \in [Threads -> Calls]
SlotsTyped ==
  /\ pending \in [Peers -> Nat] /\ lost \in [Peers -> SUBSET Nat]
  /\ \A p \in Peers : pending[p] <= Len(queue[p])
TypeOK == RoutesTyped /\ SlotsTyped

Quiet == \A t \in Threads : At(t, "idle")

\* sync_daemon_matches: when no call is under way and response_gen is the one
\* last seen, the routes are the matches.  It does not hold: of two calls, the
\* one with the older matches may be the last to write the routes.
RoutesFresh == Quiet /\ ~owed /\ gen = last_gen => routes = matched /\ known = matched

\* A sample has been pushed into the pipeline of p, and is not pushed out of it unless the
\* publisher is best effort and Depth samples have been pushed behind it.
Carried(p, s) ==
  \E i \in DOMAIN queue[p] :
    /\ queue[p][i] = s
    /\ i \in lost[p] => BestEffort /\ i + Depth <= Len(queue[p])

\* "Reliable publishers use an unbounded ordered queue so middleware does not silently
\* lose graph or command updates.  Best-effort publishers use their configured history
\* depth": a sample that is published after the daemon has raised response_gen for a
\* match is pushed into the peer's pipeline, and stays there until the worker takes it;
\* one of a best-effort publisher stays there until Depth others are behind it.  It does
\* not hold: a publish finds response_gen seen by a call that has yet to fill the routes.
Lossless ==
  \A p \in Peers : \A s \in due[p] :
    Carried(p, s) \/ \E t \in Threads : thread[t].sample = s

\* "Startup history and subsequent live traffic must share the same per-writer
\* pipeline": samples are pushed into it in the order of publication.  It does not
\* hold: the history may follow live samples that it contains.
InOrder ==
  \A p \in Peers : \A i, j \in DOMAIN queue[p] :
    i < j => queue[p][i] <= queue[p][j]

\* No sample is pushed into the pipeline of a peer for the first time after a later one.
\* It does not hold: a publish may send between FillRoutes and History of another call.
FirstInOrder ==
  \A p \in Peers : \A i, j \in DOMAIN queue[p] :
    i < j /\ queue[p][i] > queue[p][j] => \E k \in 1 .. i : queue[p][k] = queue[p][j]

\* RoutesFresh holds of calls of sync_daemon_matches that do not overlap.
RoutesFreshUnlessOverlap == overlap \/ RoutesFresh

\* Lossless holds if no publish overlaps with another call.
LosslessUnlessOverlap == overlap \/ Lossless

\* FirstInOrder holds if no publish overlaps with another call.
FirstInOrderUnlessOverlap == overlap \/ FirstInOrder

\* retained_remote_peers: a reliable writer's peer that counts as served has
\* been sent all of the startup history, or a thread is about to send it.  Nothing
\* of it is pushed out, see Lossless.
DeliveredHasHistory ==
  durability = "startup" =>
    \A p \in delivered : \A s \in Range(retained) :
      \/ s \in Range(queue[p])
      \/ \E t \in Threads :
           thread[t].sample = s \/ (At(t, "enqueue") /\ p \in thread[t].peers)

\* It does, if no two calls overlap: otherwise the sample that joins the history
\* during a delivery may find the routes cleared.
DeliveredHasHistoryUnlessOverlap == overlap \/ DeliveredHasHistory

\* TRANSIENT_LOCAL: the retained samples are in the pipeline of every matched peer, also if
\* it joined late, and are not pushed out unless the publisher is best effort and Depth
\* samples are behind them.
LateJoinerServed ==
  durability \in {"passing", "transient"} /\ Quiet /\ ~owed /\ gen = last_gen =>
    \A p \in matched : \A s \in Range(retained) : Carried(p, s)

\* It has, if no two calls overlap and no completion task adds a peer whose record
\* is being dropped: that peer would have no history when it comes back.
LateJoinerServedUnlessOverlap == overlap \/ LateJoinerServed

\* "Preserve its bounded startup history until the first remote reader receives
\* it": it is not sent again to a reader that has had it, if no two calls overlap.
\* It does not hold: a sample that went out live to a first reader is history for it
\* at the next change of the matches.
StartupOnce ==
  [][\A t \in Threads, p \in Peers :
       ~overlap /\ At(t, "enqueue") /\ durability = "startup" /\ queue'[p] # queue[p]
       => Range(thread[t].batch) \cap Range(queue[p]) = {}]_vars

=============================================================================
