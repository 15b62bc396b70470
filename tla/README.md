# A TLA+ model of the AXON middleware

AXON (`rmw_axon`) is a ROS 2 middleware: a Rust core (`src/axon_core`), a C++
layer that implements the `rmw` interface on top of it (`src/rmw_axon`), and
a daemon per host. Processes of one host exchange messages over rings in shared
memory; processes of different hosts over QUIC, along routes that the daemons
work out and write into a node table in shared memory.

These modules model the parts of that system in which several threads,
processes or hosts meet. Paths below are relative to `src/axon_core/src` unless
they begin with `src/` or end in `.cpp` (`src/rmw_axon/src`). `PROJECT.json`
gives the source lines of every definition, the runs, the mutants, the hazards
and the theorems.

## The system and its parts

| Part | Source | Module |
|---|---|---|
| Shared-memory ring of a topic | `local.rs` | `ShmRing`, `TopicLog`, `ShmRingLog` |
| Opening and replacing the ring's segment | `local.rs`, `bin/axon_daemon.rs` | `Segments`, `RingSegment` |
| Exchange of the ring's eventfd | `scm.rs`, `local.rs` | `EventFds`, `RingEventFd` |
| Subscriptions: cursor, QUIC queue, take | `session/subscribe.rs`, `subscriber_queue.rs`, `pubsub.cpp` | `Subscription` |
| `rmw_wait`, guard conditions, eventfds | `wait.cpp`, `guard_condition.cpp`, `wait.rs` | `WaitSet` |
| QoS events | `events.rs`, `session/publish.rs` | `EventMonitor` |
| Creation and destruction of endpoints | `session/publish.rs`, `subscribe.rs`, `service.rs` | `Endpoints` |
| Requests and responses of services | `session/service.rs`, `quic_transport.rs`, `service.cpp` | `ServiceCalls` |
| Routes to other hosts, retained samples | `session/routing.rs`, `publish.rs`, `quic_transport.rs` | `RemoteRoutes` |
| What a session shows of the graph | `session/graph.rs`, `routing.rs`, `c_bridge_graph.rs` | `GraphView` |
| Start of the daemon by the sessions | `session/mod.rs`, `bin/axon_daemon.rs` | `DaemonStart` |
| Node table shared with the daemon | `daemon/discovery_shm.rs`, `bin/axon_daemon.rs`, `session/mod.rs` | `NodeTable` |
| Graph synchronisation of daemons | `daemon/peer_sync.rs`, `bin/axon_daemon.rs` | `PeerSync` |
| QKD sessions between daemons | `qkd.rs`, `bin/axon_daemon.rs` | `QkdSessions` |
| Keys of received messages | `qkd.rs` | `QkdMessageKeys` |
| Sealing of sent messages | `security.rs`, `quic_transport.rs` | `SealedSends` |

A message takes this way. `publish` writes it into the ring of the topic
(`ShmRing`), in a segment that all processes of the topic have found under its
name (`Segments`), and signals an eventfd that they have got from one of them
(`EventFds`). This wakes an executor in `rmw_wait` (`WaitSet`), which takes the
message through its subscription's cursor (`Subscription`). The same `publish`
brings the routes up to date from the match list of the session's slot and
queues the message for every matched peer (`RemoteRoutes`), whose worker seals
it if QKD is in use (`SealedSends`); the process that receives it needs the key
(`QkdMessageKeys`). Requests and responses of services use rings and QUIC
streams (`ServiceCalls`). The slot is one of a table in which sessions register
once there is a daemon (`DaemonStart`), and into which the daemon merges the
nodes of other hosts (`NodeTable`); the daemons learn of each other's nodes by
HELLOs and syncs (`PeerSync`), over connections that QKD sessions authenticate
(`QkdSessions`). What applications see of this is in `GraphView`. The tables of
a session that all of this uses are filled and emptied by the endpoints
(`Endpoints`).

The modules compose by abstraction rather than by sharing state: `Subscription`
uses the ring as the log of `TopicLog`, which the steps of `local.rs` implement
(`RingImplementsLog`); `RemoteRoutes` takes the match list that `PeerSync`
computes as a set that changes at will; `PeerSync` takes a node table as a
function from nodes to entries, and `NodeTable` says when a table is one;
`WaitSet` takes who shares an eventfd as a constant, and `EventFds` says who
does.

## The modules

**ShmRing.** One step per access to the mapping: a writer adds one to
`write_index`, moves `read_index` if readers lag, invalidates the slot's marker,
clears its length, copies the payload chunk by chunk in any order, and stores the
length and the marker;
readers run `read`, `read_without_consuming` and `data_available_from` likewise.
A writer may crash between any two steps. A payload is the identity of its
message, so a buffer with chunks of two messages is a torn read. `log` and
`lapped` are history: the messages whose marker was stored, and whether a writer
ever reserved a slot that another one was still writing.

**TopicLog, ShmRingLog.** What the ring promises: an append-only log of which the
last N messages can be read whole. `ShmRingLog` maps `write_index` to the log's
length and a reader's locals to its call.

**Segments.** `create_or_open` of two processes, in the steps that others can
see: exclusive creation, allocation, header, zeroed slots, the bounded wait of an
opener, the replacement of a segment that cannot be used. A segment is an object,
the name a variable that stands for one of them, so an unlink by name hits
whatever it stands for at that moment. `Prune` and `Reap` are the daemon's.

**EventFds.** `EventFdServer::bind` with its probe and its removal of dead
sockets, the server thread, `receive_eventfd`, and the end of a channel. A socket
is modelled like a segment.

**RingSegment, RingEventFd.** Instances of these two under names that are apart
from those of the other parts of a channel. `MCChannels` and the proofs share
them, so the proofs are about the properties that the run checks.

**Subscription.** `Create`, and `TakeStep` for the steps of `rmw_take`:
`receive_next` with its retries, and the second attempt with a larger buffer.
The ring loses what is more than `RingDepth` old; `Push` is
`SubscriberQueue::push`. Compression is what it does to sizes; time is `Expire`.

**WaitSet.** `rmw_wait` in the order of the code: a first pass over the
entities, `epoll_wait` in slices, one token drained from a descriptor that was
reported, a second pass over the entities, the guard condition, the return.
`Write` and `Signal` are the two halves of a publish, `Flag` and `Kick` of a
trigger.

**EventMonitor.** The thread `axon-qos-monitor` with its three checks, a trigger
in two steps (count, eventfd) and a take in three (load, store, read). A take
blocks in its last step while the eventfd is zero.

**Endpoints.** An operation is a sequence of steps, one for each time a lock is
taken, so the ten programs at the top of the module can be laid beside the
code: the creates, the destroys, and the two ways in which the use of a service or
client puts an entry that is missing (`ensure_request_sub`, `ensure_response_sub`).
The locks that the code holds across steps are taken and released. `orphans` counts
the creates that failed after they had counted their endpoint.

**ServiceCalls.** A client on the server's host and one on another host. A remote
request is a task with attempts; the server's end is a stream, the handler task
and the list of pending responses. Rings are sequences of which the last `Depth`
are there.

**RemoteRoutes.** A publish and a `sync_daemon_matches` are sequences of steps
between which no lock is held. The queue of a peer is what its ordered pipeline
was given, `pending` how much of it waits for the worker, and `lost` what live
samples of a best-effort publisher have pushed out again. The worker's takes
(`Work`) are left until they make a difference to that. `Complete` and `Deliver` are
the completion task of a history send.

**GraphView.** Sessions create and destroy endpoints: the session's counts change,
and a topic is appended to the session's slot in two steps (read the count, write
the entry), from which nothing removes it. The queries are operators over counts
and slots.

**DaemonStart.** `ensure_daemon_running` under its file lock, `with_quic` after
it, and the start of a daemon (PID file, stale segment, new segment, its size,
ready), also by hand. Daemons crash and are stopped; a wait may time out. A session
that opens the segment before it has its size is killed (`Killed`): it reads the
magic of an empty mapping.

**NodeTable.** A slot's state word and its other fields are written in separate
steps, in the order of the code, by sessions, by the monitor thread and by the
two merging threads. The monitor's load of Pending and store of Active are one step;
a session that unregisters between them, and whose mark is overwritten, is the second
way to `Leave`.

**PeerSync.** Two daemons. Generations are relative (old or current), so the
counter needs no bound. `Push`, `Serve` and `Pull` are the three steps of a
sync; `SyncFails` may end one anywhere, and a remote node may expire at any time.
`Watch` says whether the history variables are kept: `lapsed`, the nodes that have
expired since the last merge, and `crossed`, whether two syncs have crossed, which
the next sync that a daemon completes alone mends. The run for liveness does without
them.

**QkdSessions.** Two daemons, HELLOs, key announcements and acknowledgements as a
set of datagrams that are lost, repeated and reordered; restarts draw a new id.
A key is its number.

**QkdMessageKeys.** The hash table in shared memory in which the processes of a
host claim, publish, evict and recover keys, one step per atomic access that
matters. `freed` is history: the keys that can be asked for again because an entry
on their way was emptied or theirs was evicted.

**SealedSends.** The workers of the peers, each with futures that look up, make or
wait for an envelope in the shared cache and use or renew the key under its lock.
A worker that reconnects does not run its futures. The publisher is a reliable one;
what a best-effort one drops is in `RemoteRoutes`.

Memory is sequentially consistent in all modules. The code uses acquire and
release orders on its atomics; what weaker hardware may reorder beyond them, in
the plain copies of payloads above all, is not modelled.

## The runs

All passing runs finish without error; state counts are distinct states. Six of
them check several components, which share no variables, next to each other: a
chooser variable says of a behaviour which of them runs, and the others stay as
they are initially. A property of a component says nothing of the behaviours of
another one, so this is the same as a run for each. The type invariants of the
components are conjuncts of a property of their run (`Types` in `MCGraph`, `MCHost`
and `MCQkd`; `InOrderOnceFromBoth`, `AccountedIfNoOverlap`, `MeetUnlessReplaced` and
`ResponsesCorrelated` elsewhere), except for those of `ShmRing`, `WaitSet`,
`EventMonitor` and `EventFds`, which are only proved.

| Run | States | What it shows |
|---|---|---|
| `MCShmRing` | 1.10 M | Two producers, crashes, a reader with buffers that may be too short. A read is torn only if a producer was lapped (`TornOnlyIfLapped`); what stays retained is found (`RetainedIsFound`); until a producer is lapped the ring implements `TopicLog` (`LogSpec`). |
| `MCSubscription` | 1.86 M | A latched subscription on the ring with two writers, a crash and new generations: the probe tells of every unread message, only lost messages are skipped, nothing of an earlier generation is delivered, and the subscription catches up (`UnreadIsAvailableUnlessMixed`, `SkipOnlyLost`, `NoEarlierGeneration`, `CatchesUp`). One on ring and queue, KeepLast and KeepAll, with a lifespan: messages of a source come in order and once, and unread ones are told of as long as one source only was used (`InOrderOnceFromBoth`, `AvailableUnlessMixed`). |
| `MCChannels` | 515 k | `Endpoints`: outside of overlaps endpoints have what they need (`UsableIfNoOverlap`), the counts are those of the application and of failed creates, and nothing is left behind but what belongs to these and the registrations with the event monitor (`AccountedIfNoOverlap`). `Segments`: what one process published is in the ring of the others (`MeetUnlessReplaced`). `EventFds`: a publication signals what the others poll (`WokenUnlessSplit`). `ServiceCalls`: responses go to their own requests and once to a client (`ResponsesCorrelated`); a request is executed twice only if its connection broke (`ExecutedOnceUnlessBroken`). All: calls end (`CallsEnd`). |
| `MCPeerSyncLive` | 354 k | Each host has, again and again, what the nodes of the other one advertise or, while one of them has no node in the domain and they do not sync, has forgotten the nodes that are gone (`SyncedAgain`). HELLOs are lost at will. Nodes register, advertise and leave, or a sync fails and a peer falls silent after they have registered. |
| `MCGraph` | 1.03 M | `RemoteRoutes`: outside of overlaps the routes follow the matches, nothing comes late or is lost but what a best-effort publisher pushes out beyond its depth, and a late joiner gets the retained samples (five properties). `PeerSync`: a daemon that recorded its peer's generation has the peer's nodes, but for those that have expired since, and none of them once the peer has recorded the daemon's generation too, unless syncs crossed and none has run alone since (`NodeRevisionUncrossed`). `GraphView`: queries miss no endpoint that was advertised, and invent none before the first destroy (`NoneMissing`, `NoneInvented`). |
| `MCWaiting` | 618 k | `WaitSet` with two executors, a timeout and a descriptor nobody signals: no missed wake-up or trigger, every trigger is reported, every message is taken. `EventMonitor`: the eventfd has enough for all takes (`EnoughUnlessOverlap`). |
| `MCHost` | 824 k | `NodeTable`: outside of the named races a session keeps its slot, and a node has one complete entry. `DaemonStart`: the sessions that are up see each other (`TogetherUnlessCrossed`), a session that is not killed by a half-made segment fails only after a fault (`FailsOnlyAfterFault`). Both: slots of the dead are freed, starts end (`SettlesAgain`). |
| `MCQkd` | 943 k | `SealedSends`: peers of a daemon get one envelope (`SealedOnceUnlessRemoved`), keys are used up before new ones are asked for (`KeysUsedUp`). `QkdMessageKeys`: a host asks for a key once, unless an entry on the way was emptied or the key evicted (`AskedOnceUnlessFreed`). `QkdSessions`: an active session is shared (`ActiveIsShared`). All: no one waits for ever (`Served`), with the exceptions `Frozen`, `Orphaned`, `freed` and `split` below. |
| `MCWaitSetSpurious`, `MCEndpointsClient`, `MCGraphViewService`, `MCEventMonitorPoll` | violated | see below |

**Bounds.** The ring has two slots and three reservations, so that a slot is
reused and the writer of sequence number 2 laps the one of 0; a third message is
the first one that can tear. `Subscription` lets the ring be overrun twice.
`WaitSet` has two messages and two triggers, so that a token or a trigger of the
one can be confused with the other. `EventMonitor` has a deadline, a lease, two
events of the application, two takers, three triggers and a destroy. `Endpoints`
allows four operations of two threads: two endpoints of a kind, a destroy, and a
create that meets it. `Segments` has two processes with all pairs of three
sizes, a segment left over from an earlier run, and a fault; `EventFds` three
processes, since two that come apart need a third they met. `ServiceCalls` has
rings of one slot, two attempts, two faults and a restart of the server.
`RemoteRoutes` allows five events, for all four kinds of publisher, and a behaviour of
it ends with the first overlap, after which its properties claim nothing; `PeerSync` has three changes, or one change, a failure
and a silence after all nodes have registered; `GraphView` two sessions with room for two topics in a slot and
three creates, or two threads each and two creates. `NodeTable` has two slots
for three nodes, so that a slot must be reused; `DaemonStart` two sessions, four
daemons, one of them by hand, and two faults. `QkdSessions` has three keys, so
that a key can be late twice; `QkdMessageKeys` a table of two slots and four
keys, three of them with one hash, so that every process can evict and be evicted; `SealedSends` two peers, two publications and a key that seals
two.

Larger instances were checked once and give the same results: the ring with two
lengths (4.69 M states), `RemoteRoutes` with six events (2.18 M), `PeerSync` with
two nodes on a host (1.71 M), `GraphView` with two threads and three creates
(1.45 M), `EventMonitor` with four triggers (0.77 M), and the liveness of `PeerSync`
with changes and faults in one behaviour (1.33 M).

Symmetry is used in two runs. `MCShmRing` permutes the writers: `LogSpec` is an
initial condition and an action property that does not tell writers apart, so
the reduction is sound for it. `MCGraph` permutes the peers, and exchanges the two hosts
of `PeerSync`; it has no temporal property. Where a temporal property of a composed run is about all threads,
processes or sessions, and these are alike (no constant or initial state
distinguishes them), it is checked for one of them. `MCQkd` opens one of the keys
that have a hash in common and have left no trace, for all of them (`OneOfAlike`);
without it the run has 1.6 M states and the same result.

**Fairness.** Threads and processes of the program that are in a call keep
running (weak fairness of `TakeStep`, `WaitStep`, `Step`, `Run`, `Monitor`,
`MergeStep`, `SessionStep`, `DaemonStep`, `Worker`), and a publisher or trigger
that has done the first half does the second. Nothing makes an application
publish, create, crash or leave. `epoll_wait` is called in slices of bounded
length, so a wait that nobody signals still looks again: this, not the eventfd,
is what `AllTaken` rests on for the descriptor outside `Signalled`. For a service
call, the executors of server and client take what their wait sets report, and
the server answers what it takes: this is the application's part. For HELLOs
over UDP, `PeerSync` assumes that one that carries the current generation
arrives if they keep being sent (strong fairness); one may always be lost. In
`QkdSessions` a datagram that is not lost is handled, and losses are bounded.

## What is proved

Eight modules of proofs, all for every value of the constants: any number of
slots, processes, threads, peers, messages, keys and faults, any depths, sizes and
lengths. The assumptions on the constants are the named `ASSUME`s of the modules;
they give the constants their types (natural numbers, not zero where the code has
a depth, a size or a number of tries), keep the names for "none" apart from the
others, and nothing more unless said below. Of the 40 properties that the passing
runs check, 25 are proved. Each proof has the same shape: an inductive invariant,
one lemma per action (or per kind of change that actions have in common), and the
properties as consequences. What follows says for each why the property is not
inductive itself, and what the invariant adds.

*The ring* (`ShmRingProofs`; `RingAssumption`). `InvariantHolds` is
`Spec => []IInv`. A torn read is only prevented by the second look at the marker,
so the invariant must say what a reader's half filled buffer is worth *if* that
look is going to succeed (`ReaderInv`): its chunks are those of the message in the
slot, or of the one whose writer has only the marker left to store. That needs to
know what a marked slot holds (`MarkedSlot`), what a writer has done so far
(`SlotOfWriter`), that two busy writers are in different slots, which follows from
their being within N of each other (`WithinWindow`, lemma `SlotsDiffer`), and that
numbers are handed out once (`NumbersDistinct`). A slot that was never written has
marker 0 like the slot of message 0; the zero length is what keeps readers off it,
hence the clauses on number 0. All but the types and `NumbersDistinct` hold until a
writer was lapped; `SingleNotLapped` shows that with one writer this never happens,
which gives `NoTornReadSingle`. `TornOnlyIfLappedHolds` and `RetainedIsFoundHolds`
follow from the invariant.

*The ring implements the log* (`ShmRingProofs`). `RingImplementsLog` is
`Spec => LogSpec`, the property that `MCShmRing` checks. The refinement mapping
reads a reader's call off its locals (`CallOf`). Beside `IInv` the proof needs
`CallsInv`: a buffer that is being filled is large enough, the last comparison of
`data_available_from` uses an index that was handed out, and a message on its way
has a number and a length of the log. A reservation is then the log's `Reserve`,
the store of the marker its `Commit`, the begin of a read its `Call`, the step that
sets the result its answer, and every other step leaves the log alone.

*Its segment* (`ShmRingProofs`; `SegmentAssumption`). `MeetUnlessReplacedHolds`
looks at the processes that have mapped a ring. It follows from what they use
before: a process uses the segment that it builds, looks at or has mapped, and as
long as none of the exceptions has happened all segments of use that anybody uses
are the one that the name stands for (`OneInUse`). That a message stays in it needs
that nobody is about to zero its slots (`Kept`). The rest of `SegmentsInv` says how
far a creator is (`Built`, `Mapped`), why a process is about to unlink the name
(`Replacing`), what the daemon has found before it reaps (`Reaping`), and that
the loops end with their retries (`Tried`).

*Subscriptions* (`SubscriptionProofs`; `SubscriptionAssumption`). One cursor
numbers the messages of two sources. `SubInv` relates it to both: what was taken
lies before it (`Behind`) and in order (`Ordered`), what a take has found lies at
or after it (`Ahead`); for the queue this needs that the numbers it gives out stay
at a fixed distance from the arrivals, also when it is emptied (`Numbered`,
`OfQueue`). `InOrderOnceHolds` and `NoEarlierGenerationHolds` follow, and
`SkipOnlyLostHolds` from `Skipping`: a take that began while the message at the
cursor was there has that message, or the ring has overwritten it. That the probe
tells of unread messages (`UnreadIsAvailableUnlessMixedHolds`) needs to know why the
cursor is where it is: at its start, at a message that is there, or behind one that
was taken (`ToldByRing`, `ToldByQueue`). For a cursor that the ring has overtaken
the probe compares with `read_index`, which the only reader of a ring raises to the
end only if it goes on to take the newest message (`Reread`); with other readers
this is the exception `Overtaken`. The proof found both this exception and that the
property as it was first stated holds for one subscription only. The run checks the
same properties on a second instance with both sources (`InOrderOnceFromBoth`,
`AvailableUnlessMixed`).

*Service calls* (`ServiceCallsProofs`; `CallsAssumption`). The two properties are
about the ends, what a client takes and what the service executes. `CallsInv` says
where a request can be in between: first nowhere (`Fresh`); a remote one on one
stream unless its connection broke (`OneAttempt`), in one place of channel, handler
and ring (`CarriedOnce`), executed when the cursor passes it (`ExecutedOnce`). The
response is once in the server's ring (`AnsweredOnce`), goes back over the stream
of its request (`Replies`), once into the ring of the client's host
(`DeliveredOnce`), and is taken from there once (`TakenOnce`).
`ResponsesCorrelatedHolds` and `ExecutedOnceUnlessBrokenHolds` follow.

*Waiting* (`WaitingProofs`; `WaitSetAssumption`). The invariant adds to the types
that an executor which found an entity ready has data for it (`ReadyHasData`), that
data which an executor may sleep on comes with a token in its own eventfd or with a
publisher about to put one (`TokenForData`), and the same of triggers
(`TriggerPending`). `NoMissedWakeupHolds` and `NoMissedTriggerHolds` follow.

*QoS events* (`WaitingProofs`; `EventsAssumption`: the sets of events, leases and
threads are finite). `EnoughUnlessOverlapHolds` weighs the eventfd against the takes
that are about to read it and the events that have a count. Storing the zero moves
one from the events to the takes only if the count was not zero, so the invariant
needs that what a take has loaded is still there, and that no other take is about
to store the same zero (`Loaded`); this holds until two threads take one event at
once (`overlapped`).

*Shared eventfds* (`WaitingProofs`; `SharersAssumption`). As long as nobody has
removed the socket of another process that is of use, a server of use is what the
name stands for (`Named`), so there is one at most; and every process that has the
channel open and no eventfd of another serves its own (`ServesOrShares`).
`WokenUnlessSplitHolds` follows: two open processes without a foreign eventfd are
the same, and the eventfds that others received are those of the one server, unless
one of them has left (`Orphaned`).

*The node table* (`HostProofs`; `NodeTableAssumption`). An entry is that of the
session it names only if nobody else is about to wipe or overwrite it, so
`TableInv` follows every slot that somebody has in hand: a session that fills one
(`Held`, `ClaimedOnce`), the monitor that frees one (`Freed`), a merge that has
chosen one (`Placing`, `OneMerges`), beside what an entry at rest holds (`Coherent`,
`Unique`). All but the types hold until one of the named races (`raced`).
`IdentityUnlessRacedHolds` and `PublishedOnceUnlessRacedHolds` follow.

*The start of the daemon* (`HostProofs`; `StartAssumption`). Who sees whom rests on
what a daemon has left behind at each step of its start (`Shown`), on the file lock
(`LockHeld`), which makes a spawned daemon the only one unless a user starts another
(`OnlyChild`, `AtMostTwo`), and on sessions joining only a daemon that serves
(`JoinedServing`). `TogetherUnlessCrossedHolds` follows; `FailsOnlyAfterFaultHolds`
needs what a start without faults looks like from the outside (`Faultless`).
`HostInvariant` carries both invariants over to the specification of the run.

*Routes* (`RemoteRoutesProofs`; `RoutesAssumption`). The five properties are proved
from one invariant, since each needs the others: that nothing is lost needs that the
routes are the matches, that a late joiner is served needs to know who counts as
served, and the order needs that a peer which counts as served has the history up to
the sample being sent. Without overlap at most one thread is in a call (`Alone`), and
`Tables` and `Rebuilds` say for each step of its rebuild what the tables hold; with
overlap nothing is claimed but types and generations. What is pushed out of a
pipeline has an invariant of its own (`LossInvariant`): it was of a best-effort
publisher, and at least as many samples as the history is deep have been pushed
behind it (`Kept`).

*Sealed sends* (`SealedSendsProofs`; `SealedSendsAssumption`: the set of peers is
finite). `KeysUsedUpHolds` rests on the lock of the keys being held over the call of
the KME (`KmeWithLock`) and on the uses of a key being those that are counted
(`KeysCounted`). `SealedOnceUnlessRemovedHolds` rests on who seals being the first
to have asked for its cell, which is still empty (`SealsFirst`), and on every future
being in, or having its envelope from, the cell of its entry unless that entry left
the cache (`OfEntry`).

*QKD sessions* (`QkdProofs`; `SessionsAssumption`). The acknowledgement that makes a
session active may be late, and its key may have been announced before a restart.
`SessionInv` says of every key which daemon may still offer it (`OneMaker`), under
which id (`AnnouncedNow`), and what an acknowledgement on its way stands for
(`AckIsShared`); `ActiveIsSharedHolds` follows.

Only model-checked:

- All liveness properties (`CatchesUp`, `CallsEnd`, `SyncedAgain`, `TriggerReported`,
  `AllTaken`, `SettlesAgain`, `Served`): the prover does not reason about fairness.
- `UsableIfNoOverlap` and `AccountedIfNoOverlap` (`Endpoints`) and the queries of
  `GraphView` (`NoneMissing`, `NoneInvented`): they count endpoints along step
  programs and fold over slots, so a proof needs induction over data.
- `NodeRevisionUncrossed` (`PeerSync`): a statement about two daemons, and about how
  pushes, answers, expiry and HELLOs of both interleave; it is checked with all of
  them, and no inductive invariant was worked out.
- `AskedOnceUnlessFreed` (`QkdMessageKeys`): what a claim relies on is what the
  probes of all tasks have passed before it, and no inductive invariant was found
  for tables of any size; it is a result about the instance of the run.

## What the code does not guarantee

Modelling met properties that comments, tests or names suggest and that do not
hold. Four have runs of their own. The others are defined in their modules with a
note; the passing runs check the variant that holds, which names the condition
(`...UnlessOverlap`, `...UnlessRaced`, `...IfNoOverlap`, `...UnlessMixed`).

| Property | Module | What happens |
|---|---|---|
| `InfiniteReturnsReady` (run `MCWaitSetSpurious`) | WaitSet | A token left from a message already taken ends a wait without timeout, and `rmw_wait` returns with everything null. |
| `Usable` (run `MCEndpointsClient`) | Endpoints | `destroy_client` gives up the count before its removals, which then take the entries of an endpoint created meanwhile. |
| `AvailableOnlyIfServed` (run `MCGraphViewService`) | GraphView | Nothing removes the topics of a destroyed endpoint from the session's slot, so `service_available` stays true (`graph.rs:725`), and a slot fills up (`routing.rs:315`). |
| `ObservableByPolling` (run `MCEventMonitorPoll`) | EventMonitor | A missed deadline triggers an event that `create_publisher` made for itself, never the one that the application polls (`publish.rs:223`). |
| `NoTornRead`, two writers | ShmRing | A writer that is lapped writes into the slot of the later message after its marker is stored (`local.rs:540`; the test at 1503 reads back "for corruption"). |
| `ProbeFindsNewer` | ShmRing | The probe looks at one slot; for a cursor that fell behind, its stamp is that of a later message, and the answer is "not ready" though the ring holds newer messages (`local.rs:718`, comment 693-695). |
| `ReadIndexMonotone` | ShmRing | `read` stores `read_index` after a load, and another process may have moved it further in between (`local.rs:562`; the test at 1225 says of `write` that it "must not move backwards", which holds). |
| `UnreadIsAvailable`, that is `HasUnread(s) => Available(s)` | Subscription | Ring and queue number their messages apart but share one cursor, so a cursor moved by one passes over the other (`subscribe.rs:493`). And for a cursor that the ring has overtaken the probe compares with `read_index`, which any reader raises: if another one has read everything, it answers "not ready" (`local.rs:718`, comment 693-699). |
| `NoTruncation`, `ReadsRetained`, `RefusedOnlyIfUnread` | Subscription | A push may drop the message whose size was checked before another one is copied (`subscribe.rs:492`); a retry that finds the slot unwritten goes to the newest message (`subscribe.rs:607`); `read_at` removes nothing, so a full KeepAll queue refuses messages although everybody has read it (`subscriber_queue.rs:41`). |
| `CatchesUp` with a lifespan | Subscription | An expired message is an error of the take and does not advance the cursor (`subscribe.rs:645`). |
| `TimeoutMeansNothing` | WaitSet | A wait that times out while its guard condition is triggered leaves the guard condition non-null and still returns `RMW_RET_TIMEOUT` (`wait.cpp:440`). |
| (part of `AccountedIfNoOverlap`) | Endpoints | `create_named_service` counts before it opens its second channel; if that fails, the count stays (`service.rs:132`), and with it what the later destroys of servers would have removed. |
| (step `Killed`) | DaemonStart | "The daemon may have created the SHM name before finishing header/table initialization, so wait" (`session/mod.rs:815-817`): between `shm_open` and `ftruncate` (`daemon/discovery_shm.rs:148-156`) a waiting session maps an empty segment, reads its magic (228) before its size (264), and is killed by SIGBUS. |
| `NodeRevision`, `TopicRevision`, `StaysWhileAlive` | PeerSync | When syncs cross, an older answer can be merged over a newer push; a new topic of a known node raises no generation; a remote node expires 30 s after its last sync though HELLOs arrive. |
| `RoutesFresh`, `Lossless`, `InOrder`, `FirstInOrder`, `LateJoinerServed`, `StartupOnce`, `DeliveredHasHistory` | RemoteRoutes | Of two overlapping calls of `sync_daemon_matches` the one with the older matches may write the routes last; a publish may find the generation seen by a call that has yet to fill the routes; history may follow live samples that it contains, and a first reader gets as history what it had live; a completion task may mark a peer served after its record was dropped. |
| `Identity`, `Unique`, `Published` | NodeTable | A session may claim a slot that a thread of the daemon still has in hand, whose later writes then fall on it; two merges at once may enter a node twice; the sync thread marks a slot Active before it has filled it. A process that dies while Claiming leaks its slot. |

Elsewhere the exception is part of the property, as a history variable: in
`Segments` (`why`: a segment in use is replaced because its slots are too small,
its creator is slow, the name has come to stand for another one, an opener ran
out of memory, or the daemon reaped a name whose users were not in its table
yet; `early`: a message was written before the creator had zeroed the slots),
`EventFds` (`why`: a socket in use was removed, or a process found nobody to
ask; and a server that leaves the others with an eventfd that later comers do
not get), `EventMonitor` (`overlapped`), `ServiceCalls` (`broken`, `skipped`),
`DaemonStart` (`crossed`: a daemon started by hand, outside of the lock),
`QkdSessions` (`split`: one side forgets or replaces the session alone, and then
nobody announces a key), `QkdMessageKeys` (`freed`: an entry on the way of a
probe is emptied, or a key is evicted; `Orphaned`: a claimant dies between the swap
that evicts an entry and the store of its pid, `qkd.rs:1064`, and the entry names its
last writer, which is alive, so that nobody recovers it) and `SealedSends` (`again`, and `Frozen`: a worker that
reconnects stops running futures that hold the lock of the keys).

The comment at `local.rs:826` says that eventfds are not shareable across
processes; `create_or_open` shares them all the same, as `EventFds` models.

## What is left out of the modelled parts

- *ShmRing*: loans, which `rmw` never offers (`can_loan_messages` is false).
- *Subscription*: loaned and serialized takes.
- *WaitSet*: `EINTR`, errors of `epoll`, and the path without descriptors, which
  only sleeps and looks again.
- *Endpoints*: which `LocalPubSub` an entry points to. A create of a publisher or
  subscription opens the channel also where the code may use one that is there.
- *ServiceCalls*: several servers of one service.
- *RemoteRoutes*: the batch to a peer is queued in one step; a slot that is not
  Active; the retry flag of history sends, which is never set because
  `send_retained_history` always completes with success.
- *GraphView*: types, QoS and GIDs, which follow the topic; remote hosts, whose
  nodes are entries like others.
- *NodeTable*: one peer daemon, so no node of two origins; clearing the nodes of
  a peer that fell silent is in `PeerSync`. A process ends with its session, so
  an unregister that was overwritten is made up for when the entry is found dead.
- *PeerSync*: one domain and topic, no restart of a daemon, no full table.
- *DaemonStart*: permissions and paths; signals to orphans always arrive.
- *QkdSessions*, *QkdMessageKeys*, *SealedSends*: cryptography, and what the KME
  does beyond giving a key once or failing. The session store has as many entries as
  there are ids, where the code has 32 and overwrites entry 0 when they are full
  (`qkd.rs:863-868`). In the key table a load, the comparison of the key and the
  compare-and-swap that follows are one step: that an entry is recovered and claimed
  anew by two other processes in between (`qkd.rs:1024-1040`) is not seen.

## Not modelled

- The receive loop and the handshakes of `quic_transport.rs`: the loop hands
  messages to a channel and drops them when it is full (`quic_transport.rs:1722`).
- `resource.rs`: the rate limiter is only used under a lock (`publish.rs:317`), so
  its two compare-exchanges never interleave.
- `qos.rs`, `compress.rs`, `filter.rs`, `serialize.rs`, `trace.rs`, `daemon/rpc.rs`,
  `daemon/handler.rs`, `security_mode.rs`: comparisons, conversions and request
  loops without state of their own.
- The C bridge and the entry points of `rmw`, except where a module uses them: they
  check arguments and pass calls on.
