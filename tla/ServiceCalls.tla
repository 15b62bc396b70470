---------------------------- MODULE ServiceCalls ----------------------------
(***************************************************************************)
(* A service, from the request of a client to the response it takes.       *)
(*                                                                         *)
(* A client on the server's host writes its request into the request ring  *)
(* and reads the response ring, which all clients of a host share.  A      *)
(* client on another host also starts a task that carries the request over *)
(* a QUIC stream: the handler task of the server keeps the stream among    *)
(* the pending responses, writes the request into the ring, and            *)
(* send_response completes the stream of that request; the client's task   *)
(* then writes the response into the ring of its own host.  The task       *)
(* starts again, up to MaxAttempts times, after an error whose text looks  *)
(* like one of the connection.                                             *)
(*                                                                         *)
(* One service with one server.  A request is its client (its GID) and its *)
(* number.  A ring is the sequence of all it was given, of which the last  *)
(* Depth are there; a slot is reserved first and committed later.  Nobody  *)
(* reads the request ring of a host without a server, so it is left out.   *)
(***************************************************************************)
EXTENDS Integers, Sequences, FiniteSets, Functions

CONSTANTS
  Clients,
  Remote,       \* the clients on the other host
  Depth,        \* slots of a ring
  MaxRequests,  \* bound on the requests of a client
  MaxAttempts,  \* 3 in the code
  MaxFaults,    \* bound on failed connections, lost connections and timeouts
  MaxRestarts   \* bound on the times the server is destroyed

ASSUME CallsAssumption ==
  /\ Remote \subseteq Clients
  /\ MaxRequests \in Nat /\ {Depth, MaxAttempts} \subseteq Nat \ {0}

Requests == Clients \X (1..MaxRequests)
Calls == {r \in Requests : r[1] \in Remote}
Streams == Calls \X (1..MaxAttempts)
Hosts == {"server", "client"}
HostOf(c) == IF c \in Remote THEN "client" ELSE "server"

Nothing == <<>>

VARIABLES
  up,        \* does the service exist?
  routed,    \* is the server in the node table of the client's host?
  req,       \* the request ring of the server's host
  res,       \* res[h]: the response ring of host h
  sent,      \* sent[c]: service_request_sequence of client c
  call,      \* call[r]: the task of a remote request, and its attempts
  stream,    \* stream[s]: the server's end of the stream of an attempt
  reply,     \* reply[s]: the request whose response was put on the stream
  channel,   \* service_request_channels: requests for the handler task
  pending,   \* pending_service_responses
  handled,   \* the stream whose request the handler task is about to publish
  cursor,    \* next_seq of the server
  serving,   \* the request the server works on, and how far it is
  seen,      \* seen[c]: next_seq of client c
  got,       \* got[c]: the responses client c has taken
  faults, restarts,
  executed,  \* history: executed[r]: how often the server has taken request r
  broken,    \* history: requests whose connection broke after the request was written
  skipped    \* history: requests the server has passed over in its ring

rings == <<req, res>>
remote == <<call, stream, reply, channel, pending, handled>>
server == <<up, cursor, serving, restarts>>
history == <<executed, broken, skipped>>
vars == <<server, routed, rings, sent, remote, seen, got, faults, history>>

Init ==
  /\ up = TRUE /\ routed = FALSE
  /\ req = <<>> /\ res = [h \in Hosts |-> <<>>]
  /\ sent = [c \in Clients |-> 0]
  /\ call = [r \in Calls |-> [phase |-> "idle", attempt |-> 1]]
  /\ stream = [s \in Streams |-> "none"]
  /\ reply = [s \in Streams |-> Nothing]
  /\ channel = <<>> /\ pending = <<>> /\ handled = Nothing
  /\ cursor = 0 /\ serving = Nothing
  /\ seen = [c \in Clients |-> 0]
  /\ got = [c \in Clients |-> <<>>]
  /\ faults = 0 /\ restarts = 0
  /\ executed = [r \in Requests |-> 0]
  /\ broken = {} /\ skipped = {}

----------------------------------------------------------------------------
(* The rings *)

\* publish: a slot is reserved here and committed by Commit.
Reserved(r) == [of |-> r, ready |-> FALSE]
Busy(ring, R) == \E i \in DOMAIN ring : ring[i].of \in R /\ ~ring[i].ready
Oldest(ring) == IF Len(ring) > Depth THEN Len(ring) - Depth ELSE 0

Commit ==
  /\ \/ \E i \in DOMAIN req : ~req[i].ready /\ req' = [req EXCEPT ![i].ready = TRUE] /\ UNCHANGED res
     \/ \E h \in Hosts : \E i \in DOMAIN res[h] :
          ~res[h][i].ready /\ res' = [res EXCEPT ![h][i].ready = TRUE] /\ UNCHANGED req
  /\ UNCHANGED <<server, routed, sent, remote, seen, got, faults, history>>

----------------------------------------------------------------------------
(* Clients *)

\* seed_remote_service_route: a server in the node table is enough for a route.
seed_remote_service_route == routed

\* send_request_with_gid.  The request of a remote client whose host has no route yet
\* goes nowhere, although the call succeeds.
Send(c) ==
  /\ sent[c] < MaxRequests
  /\ LET r == <<c, sent[c] + 1>> IN
     /\ sent' = [sent EXCEPT ![c] = @ + 1]
     /\ IF c \in Remote
        THEN /\ call' = [call EXCEPT ![r].phase = IF seed_remote_service_route THEN "connect" ELSE "unrouted"]
             /\ UNCHANGED req
        ELSE /\ ~Busy(req, {c} \X (1..MaxRequests))
             /\ req' = Append(req, Reserved(r))
             /\ UNCHANGED call
  /\ UNCHANGED <<server, routed, res, stream, reply, channel, pending, handled, seen, got, faults, history>>

\* The daemon of the client's host merges the node of the server into its table.
Discover ==
  /\ ~routed /\ routed' = TRUE
  /\ UNCHANGED <<server, rings, sent, remote, seen, got, faults, history>>

\* take_response_for_client: the first slot from the cursor on that is still being
\* written or is addressed to the client; slots that were overwritten are passed over.
Found(c, ring) ==
  {i \in seen[c] + 1 .. Len(ring) : i > Oldest(ring) /\ (~ring[i].ready \/ ring[i].of[1] = c)}

TakeResponse(c) ==
  LET ring == res[HostOf(c)]
      found == Found(c, ring)
  IN
  /\ seen[c] < Len(ring)
  /\ \/ found = {} /\ seen' = [seen EXCEPT ![c] = Len(ring)] /\ UNCHANGED got
     \/ \E i \in found :
          /\ \A m \in found : i <= m
          /\ \/ ring[i].ready /\ seen' = [seen EXCEPT ![c] = i] /\ got' = [got EXCEPT ![c] = Append(@, ring[i].of)]
             \/ ~ring[i].ready /\ seen' = [seen EXCEPT ![c] = i - 1] /\ UNCHANGED got
  /\ UNCHANGED <<server, routed, rings, sent, remote, faults, history>>

----------------------------------------------------------------------------
(* The task of a remote request: service_call, and what send_request does with its result *)

Fault == faults < MaxFaults /\ faults' = faults + 1
StreamOf(r) == <<r, call[r].attempt>>

\* Errors with "connect", "handshake", "open bi" or "write" in their text are tried again.
Retried(r) ==
  IF call[r].attempt < MaxAttempts
  THEN [phase |-> "connect", attempt |-> call[r].attempt + 1]
  ELSE [call[r] EXCEPT !.phase = "failed"]

\* The connection, and the stream, cannot be opened.
ConnectFails(r) ==
  /\ call[r].phase = "connect"
  /\ Fault
  /\ call' = [call EXCEPT ![r] = Retried(r)]
  /\ UNCHANGED <<server, routed, rings, sent, stream, reply, channel, pending, handled, seen, got, history>>

WriteRequest(r) ==
  /\ call[r].phase = "connect"
  /\ call' = [call EXCEPT ![r].phase = "await"]
  /\ stream' = [stream EXCEPT ![StreamOf(r)] = "written"]
  /\ UNCHANGED <<server, routed, rings, sent, reply, channel, pending, handled, seen, got, faults, history>>

\* The connection breaks while the request is written or the response awaited ("connection
\* lost" has "connect" in it).  The server may get all of the request, or only a part.
ConnectionBreaks(r) ==
  /\ call[r].phase \in {"connect", "await"}
  /\ Fault
  /\ call' = [call EXCEPT ![r] = Retried(r)]
  /\ \/ stream[StreamOf(r)] = "none" /\ stream' = [stream EXCEPT ![StreamOf(r)] = "written"]
     \/ stream[StreamOf(r)] = "written" /\ stream' = [stream EXCEPT ![StreamOf(r)] = "closed"]
     \/ stream[StreamOf(r)] # "none" /\ UNCHANGED stream
  /\ broken' = broken \cup {r}
  /\ UNCHANGED <<server, routed, rings, sent, reply, channel, pending, handled, seen, got, executed, skipped>>

Abandoned_Retried(r) == Retried(r)

\* Any other error, and SERVICE_RESPONSE_TIMEOUT, ends the task.
Abandoned(r) == [call[r] EXCEPT !.phase = "failed"]

\* SERVICE_RESPONSE_TIMEOUT on the client's side, or finish() fails.
ClientTimeout(r) ==
  /\ call[r].phase = "await"
  /\ Fault
  /\ call' = [call EXCEPT ![r] = Abandoned(r)]
  /\ UNCHANGED <<server, routed, rings, sent, stream, reply, channel, pending, handled, seen, got, history>>

\* The server has finished the stream without a response.
Rejected(r) ==
  /\ call[r].phase = "await" /\ stream[StreamOf(r)] = "closed"
  /\ call' = [call EXCEPT ![r] = Abandoned(r)]
  /\ UNCHANGED <<server, routed, rings, sent, stream, reply, channel, pending, handled, seen, got, faults, history>>

\* The response is published in the response ring of the client's host.
ReadResponse(r) ==
  /\ call[r].phase = "await" /\ stream[StreamOf(r)] = "replied"
  /\ call' = [call EXCEPT ![r].phase = "done"]
  /\ res' = [res EXCEPT !["client"] = Append(@, Reserved(reply[StreamOf(r)]))]
  /\ UNCHANGED <<server, routed, req, sent, stream, reply, channel, pending, handled, seen, got, faults, history>>

----------------------------------------------------------------------------
(* The server's end: handle_bi_stream, and the handler task of create_named_service *)

\* handle_bi_stream hands the request to the handler task, if there is one.
Arrive(s) ==
  /\ stream[s] = "written"
  /\ IF up
     THEN stream' = [stream EXCEPT ![s] = "waiting"] /\ channel' = Append(channel, s)
     ELSE stream' = [stream EXCEPT ![s] = "closed"] /\ UNCHANGED channel
  /\ UNCHANGED <<server, routed, rings, sent, call, reply, pending, handled, seen, got, faults, history>>

\* SERVICE_RESPONSE_TIMEOUT on the server's side: the receiver of the response goes away.
ServerTimeout(s) ==
  /\ stream[s] = "waiting"
  /\ Fault
  /\ stream' = [stream EXCEPT ![s] = "closed"]
  /\ UNCHANGED <<server, routed, rings, sent, call, reply, channel, pending, handled, seen, got, history>>

\* The response is written on the stream and the stream finished.
Reply(s) ==
  /\ stream[s] = "answered"
  /\ stream' = [stream EXCEPT ![s] = "replied"]
  /\ UNCHANGED <<server, routed, rings, sent, call, reply, channel, pending, handled, seen, got, faults, history>>

\* The stream is made pending first, and the request published second.
HandlerReceive ==
  /\ handled = Nothing /\ channel # <<>> /\ ~Busy(req, Calls)
  /\ channel' = Tail(channel)
  /\ pending' = Append(pending, Head(channel))
  /\ handled' = Head(channel)
  /\ UNCHANGED <<server, routed, rings, sent, call, stream, reply, seen, got, faults, history>>

HandlerPublish ==
  /\ handled # Nothing
  /\ req' = Append(req, Reserved(handled[1]))
  /\ handled' = Nothing
  /\ UNCHANGED <<server, routed, res, sent, call, stream, reply, channel, pending, seen, got, faults, history>>

----------------------------------------------------------------------------
(* The server *)

\* rmw_take_request sends the cursor to the end of the ring when its slot was overwritten;
\* a slot that is being written leaves it where it is.
Overrun == cursor < Oldest(req)

\* take_request_with_info
TakeRequest ==
  /\ up /\ serving = Nothing /\ cursor < Len(req)
  /\ IF Overrun
     THEN /\ cursor' = Len(req)
          /\ skipped' = skipped \cup {req[i].of : i \in cursor + 1 .. Len(req)}
          /\ UNCHANGED <<serving, executed>>
     ELSE /\ req[cursor + 1].ready
          /\ cursor' = cursor + 1
          /\ serving' = [request |-> req[cursor + 1].of, step |-> "respond"]
          /\ executed' = [executed EXCEPT ![req[cursor + 1].of] = @ + 1]
          /\ UNCHANGED skipped
  /\ UNCHANGED <<up, restarts, routed, rings, sent, remote, seen, got, faults, broken>>

\* send_response_with_info publishes the response in the ring ...
SendResponse ==
  /\ serving # Nothing /\ serving.step = "respond"
  /\ res' = [res EXCEPT !["server"] = Append(@, Reserved(serving.request))]
  /\ serving' = [serving EXCEPT !.step = "complete"]
  /\ UNCHANGED <<up, cursor, restarts, routed, req, sent, remote, seen, got, faults, history>>

\* The pending responses whose stream still waits.  A response that is taken from the list
\* leaves a gap, so that the others keep the order in which they came.
Open == {i \in DOMAIN pending : pending[i] # Nothing /\ stream[pending[i]] = "waiting"}
Retained(kept) == [i \in DOMAIN pending |-> IF i \in kept THEN pending[i] ELSE Nothing]

Matching_Fifo(open, r) == open

\* ... and completes the stream that carried exactly this request, the first of them if
\* several attempts did; those that do not wait any more are dropped on the way.
Matching(open, r) == {i \in open : pending[i][1] = r}

try_complete_pending_response ==
  LET matching == Matching(Open, serving.request)
  IN
  /\ serving # Nothing /\ serving.step = "complete"
  /\ ~Busy(res["server"], Requests)
  /\ serving' = Nothing
  /\ \/ matching = {} /\ pending' = Retained(Open) /\ UNCHANGED <<stream, reply>>
     \/ \E i \in matching :
          /\ \A m \in matching : i <= m
          /\ pending' = Retained(Open \ {i})
          /\ stream' = [stream EXCEPT ![pending[i]] = "answered"]
          /\ reply' = [reply EXCEPT ![pending[i]] = serving.request]
  /\ UNCHANGED <<up, cursor, restarts, routed, rings, sent, call, channel, handled, seen, got, faults, history>>

\* destroy_service, between two callbacks: the handler task gets nothing more, and the
\* pending responses are dropped, which ends their streams.
destroy_service ==
  /\ up /\ serving = Nothing /\ restarts < MaxRestarts
  /\ up' = FALSE /\ restarts' = restarts + 1
  /\ stream' = [s \in Streams |-> IF stream[s] = "waiting" /\ s \in Range(pending) THEN "closed" ELSE stream[s]]
  /\ pending' = <<>>
  /\ UNCHANGED <<cursor, serving, routed, rings, sent, call, reply, channel, handled, seen, got, faults, history>>

\* create_service: the cursor starts at the end of the ring (service_initial_seq).
create_service ==
  /\ ~up
  /\ up' = TRUE
  /\ cursor' = Len(req)
  /\ skipped' = skipped \cup {req[i].of : i \in cursor + 1 .. Len(req)}
  /\ UNCHANGED <<serving, restarts, routed, rings, sent, remote, seen, got, faults, executed, broken>>

----------------------------------------------------------------------------

CallStep(r) == WriteRequest(r) \/ Rejected(r) \/ ReadResponse(r)
CallFault(r) == ConnectFails(r) \/ ConnectionBreaks(r) \/ ClientTimeout(r)
StreamStep(s) == Arrive(s) \/ Reply(s)
ServerStep == TakeRequest \/ SendResponse \/ try_complete_pending_response
HandlerStep == HandlerReceive \/ HandlerPublish

Next ==
  \/ Commit \/ Discover \/ HandlerStep \/ ServerStep \/ destroy_service \/ create_service
  \/ \E c \in Clients : Send(c) \/ TakeResponse(c)
  \/ \E r \in Calls : CallStep(r) \/ CallFault(r)
  \/ \E s \in Streams : StreamStep(s) \/ ServerTimeout(s)

Spec == Init /\ [][Next]_vars

\* The tasks run to their end, the executors of server and clients take what their wait
\* sets report, and a server answers every request it takes.
Fairness ==
  /\ WF_vars(Commit) /\ WF_vars(HandlerStep) /\ WF_vars(ServerStep)
  /\ \A c \in Clients : WF_vars(TakeResponse(c))
  /\ \A r \in Calls : WF_vars(CallStep(r))
  /\ \A s \in Streams : WF_vars(StreamStep(s))

FairSpec == Spec /\ Fairness

----------------------------------------------------------------------------

TypeOK ==
  /\ up \in BOOLEAN /\ routed \in BOOLEAN
  /\ \A i \in DOMAIN req : req[i].of \in Requests
  /\ \A h \in Hosts : \A i \in DOMAIN res[h] : res[h][i].of \in Requests
  /\ \A r \in Calls : call[r].attempt \in 1..MaxAttempts
  /\ cursor \in 0..Len(req)

\* The types; and a response never completes the stream of another request, and no client
\* takes two responses to one request, however often the request was carried and executed
\* (try_complete_pending_response, take_response_for_client).
ResponsesCorrelated ==
  /\ TypeOK
  /\ \A s \in Streams : reply[s] \in {Nothing, s[1]}
  /\ \A c \in Clients : IsInjective(got[c])

\* The server takes a request twice only if the connection that carried it broke after it
\* was written, which makes the client's task carry it again (send_request_with_gid).
ExecutedOnceUnlessBroken ==
  \A r \in Requests : executed[r] > 1 => r \in broken

Lapped(r) ==
  LET ring == res[HostOf(r[1])] IN \E i \in 1..Oldest(ring) : ring[i].of = r

\* A request that the server can get and that has no response yet which the client could
\* take: its task has not given up, and the server has not gone or passed over the request
\* in a ring that lapped it, nor was the response overwritten before the client came to it.
Unanswered(r) ==
  /\ sent[r[1]] >= r[2] /\ (r \in Calls => call[r].phase \notin {"unrouted", "failed"})
  /\ r \notin Range(got[r[1]])
  /\ r \notin skipped /\ up /\ ~ Lapped(r)

=============================================================================
