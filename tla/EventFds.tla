------------------------------ MODULE EventFds ------------------------------
(***************************************************************************)
(* How the processes that have a topic's channel open come to share an     *)
(* eventfd (LocalPubSub::create_or_open and Drop in local.rs, scm.rs).     *)
(*                                                                         *)
(* The process that binds the topic's socket serves its eventfd to the     *)
(* others, which ask for it when they open the channel and never again.  A *)
(* socket that no one answers at is taken for the rest of a dead process   *)
(* and removed.  The socket is a name in the file system, as in Segments:  *)
(* whoever removes it removes what it stands for at that moment.           *)
(*                                                                         *)
(* A process opens the channel once; its socket and its eventfd are named  *)
(* after it.                                                               *)
(***************************************************************************)
EXTENDS Naturals

CONSTANTS
  Processes,
  MaxFaults,   \* bound on crashes and on server threads that cannot be started
  Old,         \* the socket of an earlier run
  None

VARIABLES
  path,      \* the socket that the name stands for, or None
  proc,      \* proc[p]: pc, the server it is connected to, cross_process_eventfd
  server,    \* server[p]: "none", "bound", "listening", "serving", "unlinked" or "closed"
  faults,
  why        \* history: what has kept processes from sharing an eventfd

vars == <<path, proc, server, faults, why>>

Init ==
  /\ path \in {None, Old}
  /\ proc = [p \in Processes |-> [pc |-> "start", to |-> None, cross |-> None]]
  /\ server = [p \in Processes |-> "none"]
  /\ faults = 0 /\ why = {}

At(p, pc) == proc[p].pc = pc
Go(p, pc) == proc' = [proc EXCEPT ![p].pc = pc]
Fault == faults < MaxFaults /\ faults' = faults + 1

\* A server that can still hand out its eventfd, now or when it is ready.
Useful(s) == s \in Processes /\ server[s] \in {"bound", "listening", "serving"}

\* connect: the socket of a server that listens, also if it does not accept any more.
Answers(s) == s \in Processes /\ server[s] \in {"listening", "serving"}

\* Removal of the name by p.
remove_file(p) ==
  /\ path' = None
  /\ why' = IF path # p /\ Useful(path) THEN why \cup {"removed"} ELSE why

-----------------------------------------------------------------------------
(* EventFdServer::bind                                                     *)

Bound(p) == path = None /\ path' = p /\ server' = [server EXCEPT ![p] = "bound"]

Bind(p) ==
  /\ At(p, "start")
  /\ \/ Bound(p) /\ Go(p, "listen")
     \/ path # None /\ Go(p, "probe") /\ UNCHANGED <<path, server>>
  /\ UNCHANGED <<faults, why>>

\* UnixListener::bind listens after it has bound.
Listen(p) ==
  /\ At(p, "listen")
  /\ server' = [server EXCEPT ![p] = "listening"]
  /\ Go(p, "spawn")
  /\ UNCHANGED <<path, faults, why>>

\* The name is in use: does anyone answer?
Probe(p) ==
  /\ At(p, "probe")
  /\ Go(p, IF Answers(path) THEN "receive" ELSE "remove")
  /\ UNCHANGED <<path, server, faults, why>>

Remove(p) ==
  /\ At(p, "remove")
  /\ remove_file(p)
  /\ Go(p, "bind")
  /\ UNCHANGED <<server, faults>>

BindAgain(p) ==
  /\ At(p, "bind")
  /\ \/ Bound(p) /\ Go(p, "listen")
     \/ path # None /\ Go(p, "receive") /\ UNCHANGED <<path, server>>
  /\ UNCHANGED <<faults, why>>

-----------------------------------------------------------------------------
(* create_or_open after it: a server thread, or the eventfd of another      *)

\* spawn_eventfd_server; if there is no thread, the server is dropped.
Spawn(p) ==
  /\ At(p, "spawn")
  /\ Go(p, "open")
  /\ \/ server' = [server EXCEPT ![p] = "serving"] /\ UNCHANGED <<path, faults, why>>
     \/ /\ Fault
        /\ server' = [server EXCEPT ![p] = "closed"]
        /\ path' = None
        /\ why' = why \cup {"alone"} \cup IF path # p /\ Useful(path) THEN {"removed"} ELSE {}

\* receive_eventfd: without an answer the process has no eventfd but its own, which
\* it does not serve.
Connect(p) ==
  /\ At(p, "receive")
  /\ \/ /\ Answers(path)
        /\ proc' = [proc EXCEPT ![p].pc = "recvmsg", ![p].to = path]
        /\ UNCHANGED why
     \/ ~ Answers(path) /\ Go(p, "open") /\ why' = why \cup {"alone"}
  /\ UNCHANGED <<path, server, faults>>

\* recvmsg: the end of the stream, if the server is closed before it has accepted.
Refused(p) ==
  /\ At(p, "recvmsg") /\ server[proc[p].to] = "closed"
  /\ Go(p, "open")
  /\ why' = why \cup {"alone"}
  /\ UNCHANGED <<path, server, faults>>

-----------------------------------------------------------------------------
(* The thread of the server: serve_eventfd_loop_until                      *)

Received(s, p) == proc' = [proc EXCEPT ![p].pc = "open", ![p].cross = s]

\* serve_eventfd_single
Serve_Single(s) ==
  /\ server[s] = "serving"
  /\ \A q \in Processes : proc[q].cross # s
  /\ \E p \in Processes : At(p, "recvmsg") /\ proc[p].to = s /\ Received(s, p)
  /\ UNCHANGED <<path, server, faults, why>>

\* The loop accepts who has connected, and sends the eventfd.
Serve(s) ==
  /\ server[s] = "serving"
  /\ \E p \in Processes : At(p, "recvmsg") /\ proc[p].to = s /\ Received(s, p)
  /\ UNCHANGED <<path, server, faults, why>>

\* stop and the wake eventfd end the loop: the socket is removed, ...
Unlink(s) ==
  /\ server[s] = "serving" /\ At(s, "closing")
  /\ server' = [server EXCEPT ![s] = "unlinked"]
  /\ remove_file(s)
  /\ UNCHANGED <<proc, faults>>

\* ... and then the listener is closed.
CloseListener(s) ==
  /\ server[s] = "unlinked"
  /\ server' = [server EXCEPT ![s] = "closed"]
  /\ UNCHANGED <<path, proc, faults, why>>

-----------------------------------------------------------------------------
(* The end of a channel                                                    *)

\* Drop for LocalPubSub ...
Close(p) ==
  /\ At(p, "open")
  /\ Go(p, "closing")
  /\ UNCHANGED <<path, server, faults, why>>

\* ... joins the thread before it closes the eventfds.
Join(p) ==
  /\ At(p, "closing") /\ server[p] \in {"none", "closed"}
  /\ proc' = [proc EXCEPT ![p].pc = "done", ![p].cross = None]
  /\ UNCHANGED <<path, server, faults, why>>

Crash(p) ==
  /\ proc[p].pc \notin {"start", "done", "dead"} /\ Fault
  /\ proc' = [proc EXCEPT ![p] = [pc |-> "dead", to |-> None, cross |-> None]]
  /\ server' = [server EXCEPT ![p] = IF @ = "none" THEN @ ELSE "closed"]
  /\ UNCHANGED <<path, why>>

Step(p) ==
  \/ Bind(p) \/ Listen(p) \/ Probe(p) \/ Remove(p) \/ BindAgain(p)
  \/ Spawn(p) \/ Connect(p) \/ Refused(p) \/ Join(p)

Thread(p) == Serve(p) \/ Unlink(p) \/ CloseListener(p)

Next == \E p \in Processes : Step(p) \/ Thread(p) \/ Close(p) \/ Crash(p)

Spec == Init /\ [][Next]_vars

\* Processes and server threads run.
FairSpec == Spec /\ \A p \in Processes : WF_vars(Step(p)) /\ WF_vars(Thread(p))

-----------------------------------------------------------------------------
\* publish_with_gid and signal write to these, ...
Signalled_Own(p) == {p}
Signalled(p) == {p, proc[p].cross} \ {None}

\* ... and event_fd is this one, which rmw_wait polls.
event_fd(p) == IF proc[p].cross # None THEN proc[p].cross ELSE p

\* A process still has the eventfd of a server that has left; later comers get another.
Orphaned ==
  \E p \in Processes : At(p, "open") /\ proc[p].cross # None /\ ~ At(proc[p].cross, "open")

\* A publication of one process wakes the subscriptions of the others: every process
\* that has the channel open signals the eventfd that any other polls, whichever of
\* them came first and served its own.  The exceptions are the ones the code can
\* meet: the server has gone and the eventfd that the others share is served by
\* nobody (Orphaned), a process has removed the socket of another one that was about
\* to listen or had just replaced a dead one ("removed"), or a process found nobody
\* to get an eventfd from although the socket was in use, and serves none ("alone").
WokenUnlessSplit ==
  \A p, q \in Processes :
    At(p, "open") /\ At(q, "open") /\ ~ Orphaned /\ why = {} => event_fd(q) \in Signalled(p)

\* p opens or closes the channel.
Called(p) == proc[p].pc \notin {"open", "done", "dead"}

=============================================================================
