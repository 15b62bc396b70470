---------------------------- MODULE DaemonStart -----------------------------
(***************************************************************************)
(* How the sessions of a host get their daemon.                            *)
(*                                                                         *)
(* A session takes a file lock, and starts a daemon if it finds no live    *)
(* one: it looks at the segment with the node table and at the process     *)
(* named in its header, at the pid file, and at the process list.  A       *)
(* daemon checks the pid file, forks, writes the pid file, and replaces    *)
(* the segment.  A user who starts a daemon by hand takes no lock.         *)
(*                                                                         *)
(* Daemons have numbers in the order they are started, and stand for their *)
(* pids and for the segments they create.  Daemon 0 is one that had died   *)
(* before, at some point of its life.  Timeouts of 5 s are steps that a    *)
(* session may take at any time; one that a daemon on its way would have   *)
(* prevented counts as a fault.                                            *)
(*                                                                         *)
(* A segment is made by shm_open and gets its size by ftruncate.  A        *)
(* process that opens it in between, or after its daemon died in between,  *)
(* maps it and reads its magic before it looks at its size, and is killed  *)
(* by SIGBUS.                                                              *)
(***************************************************************************)
EXTENDS Integers, FiniteSets

CONSTANTS
  Sessions,
  MaxDaemons,  \* bound on the daemons started
  MaxByHand,   \* bound on those that a user starts
  MaxFaults    \* bound on crashes, stops and timeouts of daemons

Daemons == 0..MaxDaemons
Nobody == -1

VARIABLES
  shm,      \* SHM_NAME: the daemon that made the segment, its size and its magic
  pidFile,  \* the daemon named in the pid file
  daemon,   \* daemon[d]: how far d has come
  lock,     \* the session that has the start lock
  session,  \* session[s]: how far s has come, the daemon it spawned or joined
  started, byHand, faults,
  crossed   \* history: did a user start a daemon while another start was under way?

vars == <<shm, pidFile, daemon, lock, session, started, byHand, faults, crossed>>
counters == <<started, byHand, faults>>

NoShm == [by |-> Nobody, sized |-> FALSE, ready |-> FALSE]

Init ==
  /\ shm \in {NoShm} \cup {m \in [by : {0}, sized : BOOLEAN, ready : BOOLEAN] : m.ready => m.sized}
  /\ pidFile \in {Nobody, 0}
  /\ daemon = [d \in Daemons |-> IF d = 0 THEN "dead" ELSE "none"]
  /\ lock = Nobody
  /\ session = [s \in Sessions |-> [pc |-> "lock", of |-> Nobody]]
  /\ started = 0 /\ byHand = 0 /\ faults = 0 /\ crossed = FALSE

----------------------------------------------------------------------------
(* The daemon *)

Alive(d) == d # Nobody /\ daemon[d] \notin {"none", "refused", "aborted", "dead"}
UnderWay == \E d \in Daemons : Alive(d) /\ daemon[d] # "serving"
Step(d, pc) == daemon' = [daemon EXCEPT ![d] = pc]

\* check_pid, which also removes a stale pid file; the ports have fallbacks; daemonize.
CheckPid(d) ==
  /\ daemon[d] = "new"
  /\ IF Alive(pidFile)
     THEN Step(d, "refused") /\ UNCHANGED pidFile
     ELSE Step(d, "forked") /\ pidFile' = Nobody
  /\ UNCHANGED <<shm, lock, session, counters, crossed>>

WritePid(d) ==
  /\ daemon[d] = "forked"
  /\ Step(d, "pid")
  /\ pidFile' = d
  /\ UNCHANGED <<shm, lock, session, counters, crossed>>

\* ShmDiscovery::destroy: a stale segment is removed, whoever made it ...
RemoveStale(d) ==
  /\ daemon[d] = "pid"
  /\ Step(d, "cleared")
  /\ shm' = NoShm
  /\ UNCHANGED <<pidFile, lock, session, counters, crossed>>

\* ... and ShmDiscovery::create makes a new one: shm_open with O_EXCL, ...
CreateShm(d) ==
  /\ daemon[d] = "cleared"
  /\ IF shm = NoShm
     THEN Step(d, "opened") /\ shm' = [by |-> d, sized |-> FALSE, ready |-> FALSE]
     ELSE Step(d, "dead") /\ UNCHANGED shm
  /\ UNCHANGED <<pidFile, lock, session, counters, crossed>>

\* ... ftruncate, ...
SizeShm(d) ==
  /\ daemon[d] = "opened"
  /\ Step(d, "created")
  /\ shm' = IF shm.by = d THEN [shm EXCEPT !.sized = TRUE] ELSE shm
  /\ UNCHANGED <<pidFile, lock, session, counters, crossed>>

\* ... and the magic value when the table is ready.  The daemon then opens the segment by
\* its name like a session, and panics if it cannot.
Ready(d) ==
  /\ daemon[d] = "created"
  /\ shm' = IF shm.by = d THEN [shm EXCEPT !.ready = TRUE] ELSE shm
  /\ Step(d, IF shm.by = d \/ shm.ready THEN "serving" ELSE "dead")
  /\ UNCHANGED <<pidFile, lock, session, counters, crossed>>

Crash(d) ==
  /\ Alive(d) /\ faults < MaxFaults
  /\ faults' = faults + 1
  /\ Step(d, IF daemon[d] = "new" THEN "aborted" ELSE "dead")
  /\ UNCHANGED <<shm, pidFile, lock, session, started, byHand, crossed>>

\* SIGTERM from a user: remove_pid, and the segment stays.
Stop(d) ==
  /\ daemon[d] = "serving" /\ faults < MaxFaults
  /\ faults' = faults + 1
  /\ Step(d, "dead")
  /\ pidFile' = Nobody
  /\ UNCHANGED <<shm, lock, session, started, byHand, crossed>>

StartByHand ==
  /\ byHand < MaxByHand /\ started < MaxDaemons
  /\ byHand' = byHand + 1 /\ started' = started + 1
  /\ Step(started + 1, "new")
  /\ crossed' = (crossed \/ lock # Nobody \/ UnderWay)
  /\ UNCHANGED <<shm, pidFile, lock, session, faults>>

----------------------------------------------------------------------------
(* The session: ensure_daemon_running, and with_quic *)

At(s, pc) == session[s].pc = pc
Goto(s, pc) == session' = [session EXCEPT ![s].pc = pc]

\* ShmDiscovery::open: a segment whose table is not ready has a bad magic; one without a
\* size has none that can be read.
Opened ==
  IF shm = NoShm THEN "NotFound"
  ELSE IF ~shm.sized THEN "SIGBUS"
  ELSE IF shm.ready THEN "Ok" ELSE "InvalidData"
Readable == Opened # "SIGBUS"

\* open_live_daemon_shm
Live == Opened = "Ok" /\ Alive(shm.by)

\* May a wait run out?  A daemon that is on its way makes it a fault.
TimesOut ==
  /\ ~Live
  /\ IF UnderWay
     THEN faults < MaxFaults /\ faults' = faults + 1
     ELSE UNCHANGED faults

Taken_Shared(s) == UNCHANGED lock

\* flock: it ends with ensure_daemon_running.
Taken(s) == lock = Nobody /\ lock' = s

Lock(s) ==
  /\ At(s, "lock")
  /\ Taken(s)
  /\ Goto(s, "check")
  /\ UNCHANGED <<shm, pidFile, daemon, counters, crossed>>

Done(s, pc) == Goto(s, pc) /\ lock' = Nobody

Check(s) ==
  /\ At(s, "check") /\ Readable
  /\ IF Live THEN Done(s, "join")
     ELSE /\ IF Opened = "InvalidData" \/ Alive(pidFile)
             THEN Goto(s, "wait")
             ELSE Goto(s, "orphans")
          /\ UNCHANGED lock
  /\ UNCHANGED <<shm, pidFile, daemon, counters, crossed>>

WaitLive(s) ==
  /\ At(s, "wait") /\ Live
  /\ Done(s, "join")
  /\ UNCHANGED <<shm, pidFile, daemon, counters, crossed>>

\* terminate_daemon_from_pid_file and ShmDiscovery::destroy
GiveUpWaiting(s) ==
  /\ At(s, "wait") /\ Readable /\ TimesOut
  /\ daemon' = [d \in Daemons |-> IF d = pidFile /\ Alive(d) THEN "dead" ELSE daemon[d]]
  /\ pidFile' = Nobody
  /\ shm' = NoShm
  /\ Goto(s, "orphans")
  /\ UNCHANGED <<lock, started, byHand, crossed>>

Terminated_None(d) == FALSE

\* terminate_orphan_daemon_processes: every daemon process there is; one that stops in
\* time removes the pid file.
Terminated(d) == Alive(d)

TerminateOrphans(s) ==
  /\ At(s, "orphans")
  /\ daemon' = [d \in Daemons |-> IF Terminated(d) THEN "dead" ELSE daemon[d]]
  /\ \/ UNCHANGED pidFile
     \/ \E d \in Daemons : Terminated(d) /\ daemon[d] = "serving" /\ pidFile' = Nobody
  /\ Goto(s, "spawn")
  /\ UNCHANGED <<shm, lock, counters, crossed>>

Spawn(s) ==
  /\ At(s, "spawn") /\ started < MaxDaemons
  /\ started' = started + 1
  /\ Step(started + 1, "new")
  /\ session' = [session EXCEPT ![s] = [pc |-> "watch", of |-> started + 1]]
  /\ UNCHANGED <<shm, pidFile, lock, byHand, faults, crossed>>

\* The child has exited: because the daemon has forked, because another one runs, which
\* is waited for, or with another error.
AfterExit(s) ==
  IF daemon[session[s].of] = "aborted" THEN Done(s, "failed") ELSE Goto(s, "await") /\ UNCHANGED lock

ChildExited(s) ==
  /\ At(s, "watch") /\ daemon[session[s].of] # "new"
  /\ AfterExit(s)
  /\ UNCHANGED <<shm, pidFile, daemon, counters, crossed>>

\* There is a live segment although the child runs: it gets 100 ms more ...
SeesLive(s) ==
  /\ At(s, "watch") /\ daemon[session[s].of] = "new" /\ Live
  /\ Goto(s, "settle")
  /\ UNCHANGED <<shm, pidFile, daemon, lock, counters, crossed>>

\* ... and if it has exited with an error by then, the segment is destroyed.
Settle(s) ==
  /\ At(s, "settle")
  /\ IF daemon[session[s].of] \in {"refused", "aborted"}
     THEN shm' = NoShm /\ AfterExit(s)
     ELSE Done(s, "join") /\ UNCHANGED shm
  /\ UNCHANGED <<pidFile, daemon, counters, crossed>>

AwaitLive(s) ==
  /\ At(s, "await") /\ Live
  /\ Done(s, "join")
  /\ UNCHANGED <<shm, pidFile, daemon, counters, crossed>>

\* A child that has not forked is killed; a daemon that has is left alone.
Fail(s) ==
  /\ At(s, "watch") \/ (At(s, "await") /\ Readable)
  /\ TimesOut
  /\ daemon' = [daemon EXCEPT ![session[s].of] = IF @ = "new" THEN "dead" ELSE @]
  /\ Done(s, "failed")
  /\ UNCHANGED <<shm, pidFile, started, byHand, crossed>>

\* with_quic opens the segment once more, without the lock.
Join(s) ==
  /\ At(s, "join") /\ Live
  /\ session' = [session EXCEPT ![s] = [pc |-> "up", of |-> shm.by]]
  /\ UNCHANGED <<shm, pidFile, daemon, lock, counters, crossed>>

JoinFails(s) ==
  /\ At(s, "join") /\ Readable /\ TimesOut
  /\ Goto(s, "failed")
  /\ UNCHANGED <<shm, pidFile, daemon, lock, started, byHand, crossed>>

\* The session opens a segment without a size: its process is killed, and the lock goes
\* with it.  The daemon it may have spawned lives on.
Killed(s) ==
  /\ ~Readable
  /\ \/ session[s].pc \in {"check", "wait", "await", "join"}
     \/ At(s, "watch") /\ daemon[session[s].of] = "new"
  /\ Goto(s, "killed")
  /\ lock' = IF lock = s THEN Nobody ELSE lock
  /\ UNCHANGED <<shm, pidFile, daemon, counters, crossed>>

----------------------------------------------------------------------------
DaemonStep(d) == CheckPid(d) \/ WritePid(d) \/ RemoveStale(d) \/ CreateShm(d) \/ SizeShm(d) \/ Ready(d)

SessionStep(s) ==
  \/ Lock(s) \/ Check(s) \/ WaitLive(s) \/ GiveUpWaiting(s) \/ TerminateOrphans(s)
  \/ Spawn(s) \/ ChildExited(s) \/ SeesLive(s) \/ Settle(s) \/ AwaitLive(s)
  \/ Fail(s) \/ Join(s) \/ JoinFails(s) \/ Killed(s)

Next ==
  \/ StartByHand
  \/ \E d \in Daemons : DaemonStep(d) \/ Crash(d) \/ Stop(d)
  \/ \E s \in Sessions : SessionStep(s)

Spec == Init /\ [][Next]_vars

\* Processes run.
FairSpec ==
  /\ Spec
  /\ \A d \in Daemons : WF_vars(DaemonStep(d))
  /\ \A s \in Sessions : WF_vars(SessionStep(s))

----------------------------------------------------------------------------
(* Properties *)

DaemonStates == {"none", "new", "refused", "aborted", "forked", "pid", "cleared",
                 "opened", "created", "serving", "dead"}
SessionStates == {"lock", "check", "wait", "orphans", "spawn", "watch", "settle", "await",
                  "join", "up", "failed", "killed"}
Segments == [by : Daemons \cup {Nobody}, sized : BOOLEAN, ready : BOOLEAN]

TypeOK ==
  /\ shm \in Segments
  /\ pidFile \in Daemons \cup {Nobody}
  /\ daemon \in [Daemons -> DaemonStates]
  /\ lock \in Sessions \cup {Nobody}
  /\ session \in [Sessions -> [pc : SessionStates, of : Daemons \cup {Nobody}]]
  /\ started \in Daemons /\ {byHand, faults} \subseteq Nat /\ crossed \in BOOLEAN

\* The sessions that are up and whose daemon is alive are in the segment that new sessions
\* find, so they all see each other, unless a user started a daemon while another start was
\* under way (terminate_orphan_daemon_processes, ShmDiscovery::destroy).
Together == \A s \in Sessions : At(s, "up") /\ Alive(session[s].of) => shm.by = session[s].of /\ Live
TogetherUnlessCrossed == crossed \/ Together

\* A session that starts gets a daemon, whatever the last daemon left behind and however
\* many sessions start at once, unless it is killed by a segment without a size: it returns
\* with an error only after a daemon has crashed, was stopped or was slow, or in a cross
\* with a user, and not because of the sessions that were killed and the daemons they leave
\* half started (ensure_daemon_running).
FailsOnlyAfterFault == (\E s \in Sessions : At(s, "failed")) => faults > 0 \/ crossed

\* s waits for the lock, or for a daemon.
Starting(s) == session[s].pc \notin {"up", "failed", "killed"}

=============================================================================
