------------------------- MODULE ServiceCallsProofs -------------------------
EXTENDS ServiceCalls, TLAPS

(* Proofs about the service calls, for every number of clients on either host, *)
(* of requests, attempts and faults.                                           *)
(*                                                                             *)
(* Both properties are about the ends: what a client takes, and what the       *)
(* service executes.  They follow from where a request can be in between.  A   *)
(* request is first nowhere (Fresh); a remote one has one stream unless its    *)
(* connection broke (OneAttempt), is then in one place of channel, handler and *)
(* ring (CarriedOnce), and is executed when the cursor passes it, so once      *)
(* (ExecutedOnce).  The response goes once into the server's ring              *)
(* (AnsweredOnce), back over the stream of the request (Replies) and, when the *)
(* call is done, once into the ring of the client's host (DeliveredOnce), from *)
(* which take_response takes what it has not read yet (TakenOnce).             *)

\* A slot of a request or response ring, a call in progress, and a stream to the server.
Entries == [of : Requests, ready : BOOLEAN]
Phases == {"idle", "unrouted", "connect", "await", "done", "failed"}
StreamStates == {"none", "written", "waiting", "closed", "answered", "replied"}

\* The types of the state.
CallsTyped ==
  /\ up \in BOOLEAN /\ routed \in BOOLEAN
  /\ req \in Seq(Entries) /\ res \in [Hosts -> Seq(Entries)]
  /\ sent \in [Clients -> Nat]
  /\ call \in [Calls -> [phase : Phases, attempt : 1..MaxAttempts]]
  /\ stream \in [Streams -> StreamStates]
  /\ reply \in [Streams -> Requests \cup {Nothing}]
  /\ channel \in Seq(Streams)
  /\ pending \in Seq(Streams \cup {Nothing})
  /\ handled \in Streams \cup {Nothing}
  /\ cursor \in 0..Len(req)
  /\ serving \in {Nothing} \cup [request : Requests, step : {"respond", "complete"}]
  /\ seen \in [Clients -> Nat] /\ got \in [Clients -> Seq(Requests)]
  /\ \A c \in Clients : seen[c] <= Len(res[HostOf(c)])
  /\ executed \in [Requests -> Nat] /\ broken \subseteq Calls

\* A reply on a stream is to the stream's request.
Replies ==
  \A s \in Streams :
    /\ reply[s] \in {Nothing, s[1]}
    /\ stream[s] \in {"answered", "replied"} => reply[s] = s[1]

\* A request whose number has not been used is nowhere.
Fresh ==
  \A r \in Requests : r[2] > sent[r[1]] =>
    /\ r \in Calls => call[r].phase = "idle"
    /\ r \notin Calls => \A k \in DOMAIN req : req[k].of # r

\* A call whose connection did not break after the write has one stream, that of its attempt now.
OneAttempt ==
  \A r \in Calls \ broken : \A a \in 1..MaxAttempts : stream[<<r, a>>] # "none" =>
    a = call[r].attempt /\ call[r].phase \in {"await", "done", "failed"}

\* A stream of the request has reached the server.
Arrived(r) == \E a \in 1..MaxAttempts : stream[<<r, a>>] \notin {"none", "written"}

\* A request on its way is in one place of channel, handler's hand and ring, unless it broke:
\* in the channel, ...
InChannel ==
  \A i \in DOMAIN channel : channel[i][1] \notin broken =>
    /\ Arrived(channel[i][1])
    /\ \A j \in DOMAIN channel : channel[j][1] = channel[i][1] => j = i
    /\ handled # Nothing => handled[1] # channel[i][1]
    /\ \A k \in DOMAIN req : req[k].of # channel[i][1]

\* ... in the hand of the handler ...
InHand ==
  handled # Nothing /\ handled[1] \notin broken =>
    /\ Arrived(handled[1])
    /\ \A k \in DOMAIN req : req[k].of # handled[1]

\* ... or in the ring.
InRing ==
  \A k \in DOMAIN req : req[k].of \notin broken =>
    /\ req[k].of \in Calls => Arrived(req[k].of)
    /\ \A m \in DOMAIN req : req[m].of = req[k].of => m = k

CarriedOnce == InChannel /\ InHand /\ InRing

\* An execution is of an entry of the ring that the cursor has passed.
ExecutedOnce ==
  \A r \in Requests :
    /\ r \notin broken => executed[r] <= 1
    /\ executed[r] > 0 => \E k \in 1..cursor : req[k].of = r

\* The server's ring has a response once to each request that was executed once.
AnsweredOnce ==
  /\ \A i \in DOMAIN res["server"] :
       /\ executed[res["server"][i].of] > 0
       /\ res["server"][i].of \notin broken =>
            \A j \in DOMAIN res["server"] : res["server"][j].of = res["server"][i].of => j = i
  /\ serving # Nothing => executed[serving.request] > 0
  /\ serving # Nothing /\ serving.step = "respond" /\ serving.request \notin broken =>
       \A i \in DOMAIN res["server"] : res["server"][i].of # serving.request

\* The client host's ring has a response once to each call that is done.
DeliveredOnce ==
  \A i \in DOMAIN res["client"] :
    /\ res["client"][i].of \in Calls /\ call[res["client"][i].of].phase = "done"
    /\ \A j \in DOMAIN res["client"] : res["client"][j].of = res["client"][i].of => j = i

\* What a client took are entries it has read, to its own requests, each once.
TakenOnce ==
  \A c \in Clients :
    /\ \A k \in DOMAIN got[c] :
         got[c][k][1] = c /\ \E i \in 1..seen[c] : res[HostOf(c)][i].of = got[c][k]
    /\ IsInjective(got[c])

\* The inductive invariant.
CallsInv ==
  /\ CallsTyped /\ Replies /\ Fresh /\ OneAttempt /\ CarriedOnce
  /\ ExecutedOnce /\ AnsweredOnce /\ DeliveredOnce /\ TakenOnce

\* What Append does, for the rings, the channel and the list of pending requests.
LEMMA AppendKnown ==
  ASSUME NEW D, NEW s \in Seq(D), NEW x \in D
  PROVE  /\ Append(s, x) \in Seq(D)
         /\ DOMAIN s = 1..Len(s) /\ Len(s) \in Nat
         /\ Len(Append(s, x)) = Len(s) + 1
         /\ DOMAIN Append(s, x) = 1..(Len(s) + 1)
         /\ \A i \in 1..Len(s) : Append(s, x)[i] = s[i]
         /\ Append(s, x)[Len(s) + 1] = x
  BY SMT

\* What Head and Tail of a channel are that has something in it.
LEMMA TailKnown ==
  ASSUME NEW D, NEW s \in Seq(D), s # <<>>
  PROVE  /\ Tail(s) \in Seq(D) /\ Head(s) \in D
         /\ Len(s) \in Nat \ {0} /\ DOMAIN s = 1..Len(s)
         /\ DOMAIN Tail(s) = 1..(Len(s) - 1)
         /\ \A i \in 1..(Len(s) - 1) : Tail(s)[i] = s[i + 1]
         /\ Head(s) = s[1]
  BY SMT

\* Each part of the invariant is kept by a step that leaves the state it reads alone.
LEMMA RepliesKept ==
  ASSUME Replies, UNCHANGED <<stream, reply>>
  PROVE  Replies'
  BY Zenon DEF Replies

\* The same for the requests that are still to be sent.
LEMMA FreshKept ==
  ASSUME Fresh, UNCHANGED <<sent, call, req>>
  PROVE  Fresh'
  BY Zenon DEF Fresh

\* The same for the attempts of a call.
LEMMA OneAttemptKept ==
  ASSUME OneAttempt, UNCHANGED <<call, stream, broken>>
  PROVE  OneAttempt'
  BY Zenon DEF OneAttempt

\* The same for the requests on their way to the server.
LEMMA CarriedOnceKept ==
  ASSUME CarriedOnce, UNCHANGED <<stream, channel, handled, req, broken>>
  PROVE  CarriedOnce'
  BY Zenon DEF CarriedOnce, InChannel, InHand, InRing, Arrived

\* The same for the executions.
LEMMA ExecutedOnceKept ==
  ASSUME ExecutedOnce, UNCHANGED <<executed, req, cursor, broken>>
  PROVE  ExecutedOnce'
  BY Zenon DEF ExecutedOnce

\* The same for the server's response ring.
LEMMA AnsweredOnceKept ==
  ASSUME AnsweredOnce, UNCHANGED <<res, serving, executed, broken>>
  PROVE  AnsweredOnce'
  BY Zenon DEF AnsweredOnce

\* The same for the client host's response ring.
LEMMA DeliveredOnceKept ==
  ASSUME DeliveredOnce, UNCHANGED <<res, call>>
  PROVE  DeliveredOnce'
  BY Zenon DEF DeliveredOnce

\* The same for the responses taken.
LEMMA TakenOnceKept ==
  ASSUME TakenOnce, UNCHANGED <<res, seen, got>>
  PROVE  TakenOnce'
  BY Zenon DEF TakenOnce

\* The invariant holds when the service has been created and nothing has been sent.
LEMMA CallsInitially == Init => CallsInv
<1> SUFFICES ASSUME Init PROVE CallsInv
  OBVIOUS
<1>1. CallsTyped
  <2>1. /\ req \in Seq(Entries) /\ channel \in Seq(Streams)
        /\ pending \in Seq(Streams \cup {Nothing})
    BY SMT DEF Init
  <2>2. res \in [Hosts -> Seq(Entries)]
    BY SMT DEF Init
  <2>3. got \in [Clients -> Seq(Requests)]
    BY SMT DEF Init
  <2>4. call \in [Calls -> [phase : Phases, attempt : 1..MaxAttempts]]
    BY CallsAssumption, SMT DEF Init, Phases
  <2>5. stream \in [Streams -> StreamStates] /\ reply \in [Streams -> Requests \cup {Nothing}]
    BY Zenon DEF Init, StreamStates
  <2>6. /\ sent \in [Clients -> Nat] /\ seen \in [Clients -> Nat]
        /\ executed \in [Requests -> Nat] /\ cursor \in 0..Len(req)
        /\ \A c \in Clients : seen[c] <= Len(res[HostOf(c)])
    BY SMT DEF Init, HostOf, Hosts
  <2>7. /\ up \in BOOLEAN /\ routed \in BOOLEAN /\ handled \in Streams \cup {Nothing}
        /\ serving \in {Nothing} \cup [request : Requests, step : {"respond", "complete"}]
        /\ broken \subseteq Calls
    BY Zenon DEF Init
  <2> QED
    BY <2>1, <2>2, <2>3, <2>4, <2>5, <2>6, <2>7, Zenon DEF CallsTyped
<1>2. Replies /\ OneAttempt
  BY SMT DEF Init, Replies, OneAttempt, Streams
<1>3. Fresh
  BY SMT DEF Init, Fresh
<1>4. CarriedOnce
  BY SMT DEF Init, CarriedOnce, InChannel, InHand, InRing
<1>5. ExecutedOnce
  BY SMT DEF Init, ExecutedOnce
<1>6. AnsweredOnce
  BY SMT DEF Init, AnsweredOnce, Hosts
<1>7. DeliveredOnce
  BY SMT DEF Init, DeliveredOnce, Hosts
<1>8. TakenOnce
  BY SMT DEF Init, TakenOnce, IsInjective
<1> QED
  BY <1>1, <1>2, <1>3, <1>4, <1>5, <1>6, <1>7, <1>8, Zenon DEF CallsInv

\* The responses taken stay in a ring of which no entry that has been read is rewritten.
LEMMA TakenStays ==
  ASSUME TakenOnce, UNCHANGED <<seen, got>>,
         \A c \in Clients : \A i \in 1..seen[c] : res'[HostOf(c)][i].of = res[HostOf(c)][i].of
  PROVE  TakenOnce'
<1>1. ASSUME NEW c \in Clients, NEW k \in DOMAIN got[c]
      PROVE  got[c][k][1] = c /\ \E i \in 1..seen[c] : res'[HostOf(c)][i].of = got[c][k]
  <2>1. got[c][k][1] = c
    BY Zenon DEF TakenOnce
  <2>2. PICK i \in 1..seen[c] : res[HostOf(c)][i].of = got[c][k]
    BY Zenon DEF TakenOnce
  <2> QED
    BY <2>1, <2>2, Zenon
<1>2. \A c \in Clients : IsInjective(got[c])
  BY Zenon DEF TakenOnce
<1> SUFFICES ASSUME NEW c \in Clients
             PROVE  (/\ \A k \in DOMAIN got[c] :
                          got[c][k][1] = c /\ \E i \in 1..seen[c] : res[HostOf(c)][i].of = got[c][k]
                     /\ IsInjective(got[c]))'
  BY Zenon DEF TakenOnce
<1> QED
  BY <1>1, <1>2, Zenon

\* Committing a slot of a ring changes neither its length nor which request any entry is
\* of.
LEMMA ReadyKnown ==
  ASSUME NEW s \in Seq(Entries), NEW i \in DOMAIN s, NEW t, t = [s EXCEPT ![i].ready = TRUE]
  PROVE  /\ t \in Seq(Entries) /\ DOMAIN t = DOMAIN s /\ Len(t) = Len(s)
         /\ \A k \in DOMAIN s : t[k].of = s[k].of
<1> DEFINE e == [s[i] EXCEPT !.ready = TRUE]
<1>1. s[i] \in Entries
  BY SMT
<1>2. e \in Entries
  BY <1>1, Zenon DEF Entries
<1>3. e.of = s[i].of
  BY <1>1, Zenon DEF Entries
<1>4. t = [s EXCEPT ![i] = e]
  BY Zenon
<1> HIDE DEF e
<1>5. s \in [1..Len(s) -> Entries] /\ Len(s) \in Nat /\ DOMAIN s = 1..Len(s)
  BY SMT
<1>6. t \in [1..Len(s) -> Entries] /\ \A k \in DOMAIN s : t[k] = IF k = i THEN e ELSE s[k]
  BY <1>2, <1>4, <1>5, Zenon
<1>7. t \in Seq(Entries) /\ DOMAIN t = DOMAIN s /\ Len(t) = Len(s)
  BY <1>5, <1>6, SMT
<1> QED
  BY <1>3, <1>6, <1>7, Zenon

\* A commit keeps the types, and every ring as a sequence of requests.
LEMMA CommitSame ==
  ASSUME CallsTyped, Commit
  PROVE  /\ CallsTyped'
         /\ DOMAIN req' = DOMAIN req /\ Len(req') = Len(req)
         /\ \A k \in DOMAIN req : req'[k].of = req[k].of
         /\ \A h \in Hosts :
              /\ DOMAIN res'[h] = DOMAIN res[h]
              /\ \A i \in DOMAIN res[h] : res'[h][i].of = res[h][i].of
<1>1. UNCHANGED <<server, routed, sent, remote, seen, got, faults, history>>
  BY Zenon DEF Commit
<1>2. CASE \E i \in DOMAIN req : ~req[i].ready /\ req' = [req EXCEPT ![i].ready = TRUE] /\ UNCHANGED res
  <2>1. PICK i \in DOMAIN req : req' = [req EXCEPT ![i].ready = TRUE] /\ UNCHANGED res
    BY <1>2, Zenon
  <2>2. req \in Seq(Entries)
    BY Zenon DEF CallsTyped
  <2>3. \A t : t = [req EXCEPT ![i].ready = TRUE] =>
               /\ t \in Seq(Entries) /\ DOMAIN t = DOMAIN req /\ Len(t) = Len(req)
               /\ \A k \in DOMAIN req : t[k].of = req[k].of
    BY <2>2, ReadyKnown, Zenon
  <2>4. /\ req' \in Seq(Entries) /\ DOMAIN req' = DOMAIN req /\ Len(req') = Len(req)
        /\ \A k \in DOMAIN req : req'[k].of = req[k].of
    BY <2>1, <2>3, Zenon
  <2>5. CallsTyped'
    BY <1>1, <2>1, <2>4, Zenon DEF CallsTyped, server, remote, history
  <2> QED
    BY <2>1, <2>4, <2>5, Zenon
<1>3. CASE \E h \in Hosts : \E i \in DOMAIN res[h] :
             ~res[h][i].ready /\ res' = [res EXCEPT ![h][i].ready = TRUE] /\ UNCHANGED req
  <2>1. PICK h \in Hosts : \E i \in DOMAIN res[h] : res' = [res EXCEPT ![h][i].ready = TRUE] /\ UNCHANGED req
    BY <1>3, Zenon
  <2>2. PICK i \in DOMAIN res[h] : res' = [res EXCEPT ![h][i].ready = TRUE] /\ UNCHANGED req
    BY <2>1, Zenon
  <2>3. res \in [Hosts -> Seq(Entries)]
    BY Zenon DEF CallsTyped
  <2>4. res[h] \in Seq(Entries)
    BY <2>3, Zenon
  <2>9. \A t : t = [res[h] EXCEPT ![i].ready = TRUE] =>
               /\ t \in Seq(Entries) /\ DOMAIN t = DOMAIN res[h] /\ Len(t) = Len(res[h])
               /\ \A k \in DOMAIN res[h] : t[k].of = res[h][k].of
    BY <2>4, ReadyKnown, Zenon
  <2>10. PICK t : /\ res' = [res EXCEPT ![h] = t]
                  /\ t \in Seq(Entries) /\ DOMAIN t = DOMAIN res[h] /\ Len(t) = Len(res[h])
                  /\ \A k \in DOMAIN res[h] : t[k].of = res[h][k].of
    BY <2>2, <2>9, Zenon
  <2>5. res' \in [Hosts -> Seq(Entries)] /\ \A g \in Hosts : Len(res'[g]) = Len(res[g])
    BY <2>3, <2>10, SMT
  <2>6. \A g \in Hosts : /\ DOMAIN res'[g] = DOMAIN res[g]
                         /\ \A k \in DOMAIN res[g] : res'[g][k].of = res[g][k].of
    BY <2>3, <2>10, SMT
  <2>7. \A c \in Clients : seen[c] <= Len(res'[HostOf(c)])
    BY <2>5, Zenon DEF CallsTyped, HostOf, Hosts
  <2>8. CallsTyped'
    BY <1>1, <2>2, <2>5, <2>7, Zenon DEF CallsTyped, server, remote, history, HostOf
  <2> QED
    BY <2>2, <2>6, <2>8, Zenon
<1> QED
  BY <1>2, <1>3, Zenon DEF Commit

\* A writer that commits its slot keeps the invariant.
LEMMA CommitKeeps ==
  ASSUME CallsInv, Commit
  PROVE  CallsInv'
<1>1. UNCHANGED <<cursor, serving, sent, call, stream, reply, channel, handled, seen, got, executed, broken>>
  BY Zenon DEF Commit, server, remote, history
<1>2. /\ CallsTyped /\ Replies /\ Fresh /\ OneAttempt /\ CarriedOnce
      /\ ExecutedOnce /\ AnsweredOnce /\ DeliveredOnce /\ TakenOnce
  BY Zenon DEF CallsInv
<1>3. /\ CallsTyped'
      /\ DOMAIN req' = DOMAIN req
      /\ \A k \in DOMAIN req : req'[k].of = req[k].of
      /\ \A h \in Hosts :
           /\ DOMAIN res'[h] = DOMAIN res[h]
           /\ \A i \in DOMAIN res[h] : res'[h][i].of = res[h][i].of
  BY <1>2, CommitSame, Zenon
<1>4. Replies' /\ OneAttempt'
  BY <1>1, <1>2, RepliesKept, OneAttemptKept, Zenon
<1>5. Fresh'
  BY <1>1, <1>2, <1>3, Zenon DEF Fresh
<1>6. CarriedOnce'
  <2>1. InChannel'
    BY <1>1, <1>2, <1>3, Zenon DEF CarriedOnce, InChannel, Arrived
  <2>2. InHand'
    BY <1>1, <1>2, <1>3, Zenon DEF CarriedOnce, InHand, Arrived
  <2>3. InRing'
    BY <1>1, <1>2, <1>3, Zenon DEF CarriedOnce, InRing, Arrived
  <2> QED
    BY <2>1, <2>2, <2>3, Zenon DEF CarriedOnce
<1>7. ExecutedOnce'
  <2>1. \A k \in 1..cursor : k \in DOMAIN req
    BY <1>2, SMT DEF CallsTyped
  <2> QED
    BY <1>1, <1>2, <1>3, <2>1, Zenon DEF ExecutedOnce
<1>8. AnsweredOnce'
  <2>1. /\ DOMAIN res'["server"] = DOMAIN res["server"]
        /\ \A i \in DOMAIN res["server"] : res'["server"][i].of = res["server"][i].of
    BY <1>3, Zenon DEF Hosts
  <2> QED
    BY <1>1, <1>2, <2>1, Zenon DEF AnsweredOnce
<1>9. DeliveredOnce'
  <2>1. /\ DOMAIN res'["client"] = DOMAIN res["client"]
        /\ \A i \in DOMAIN res["client"] : res'["client"][i].of = res["client"][i].of
    BY <1>3, Zenon DEF Hosts
  <2> QED
    BY <1>1, <1>2, <2>1, Zenon DEF DeliveredOnce
<1>10. TakenOnce'
  <2>1. \A c \in Clients : HostOf(c) \in Hosts /\ \A i \in 1..seen[c] : i \in DOMAIN res[HostOf(c)]
    BY <1>2, SMT DEF CallsTyped, HostOf, Hosts
  <2>2. \A c \in Clients : \A i \in 1..seen[c] : res'[HostOf(c)][i].of = res[HostOf(c)][i].of
    BY <1>3, <2>1, Zenon
  <2> QED
    BY <1>1, <1>2, <2>2, TakenStays, Zenon
<1> QED
  BY <1>2, <1>3, <1>4, <1>5, <1>6, <1>7, <1>8, <1>9, <1>10, Zenon DEF CallsInv

\* What the channel, the handler and the rings carry are requests of the clients.
LEMMA CarriersKnown ==
  ASSUME CallsTyped
  PROVE  /\ \A i \in DOMAIN channel : channel[i] \in Streams /\ channel[i][1] \in Calls
         /\ handled # Nothing => handled \in Streams /\ handled[1] \in Calls
         /\ \A k \in DOMAIN req : req[k].of \in Requests
         /\ \A h \in Hosts : \A i \in DOMAIN res[h] : res[h][i].of \in Requests
<1>1. \A s \in Streams : s[1] \in Calls
  BY SMT DEF Streams
<1>2. channel \in Seq(Streams) /\ handled \in Streams \cup {Nothing} /\ req \in Seq(Entries)
      /\ res \in [Hosts -> Seq(Entries)]
  BY Zenon DEF CallsTyped
<1>3. \A i \in DOMAIN channel : channel[i] \in Streams
  BY <1>2, SMT
<1>4. \A k \in DOMAIN req : req[k] \in Entries
  BY <1>2, SMT
<1>5. \A h \in Hosts : \A i \in DOMAIN res[h] : res[h][i] \in Entries
  <2> SUFFICES ASSUME NEW h \in Hosts PROVE \A i \in DOMAIN res[h] : res[h][i] \in Entries
    OBVIOUS
  <2>1. res[h] \in Seq(Entries)
    BY <1>2, Zenon
  <2> QED
    BY <2>1, SMT
<1>6. \A e \in Entries : e.of \in Requests
  BY Zenon DEF Entries
<1> QED
  BY <1>1, <1>2, <1>3, <1>4, <1>5, <1>6, Zenon

\* Streams that move on, and calls that break, leave the requests on their way where they
\* are.
LEMMA CarriedStays ==
  ASSUME CallsTyped, CarriedOnce, UNCHANGED <<channel, handled, req>>, broken \subseteq broken',
         \A r \in Calls : r \notin broken' /\ Arrived(r) => Arrived(r)'
  PROVE  CarriedOnce'
<1>1. InChannel'
  <2>1. \A i \in DOMAIN channel : channel[i][1] \in Calls
    BY CarriersKnown, Zenon
  <2> QED
    BY <2>1, Zenon DEF CarriedOnce, InChannel
<1>2. InHand'
  <2>1. handled # Nothing => handled[1] \in Calls
    BY CarriersKnown, Zenon
  <2> QED
    BY <2>1, Zenon DEF CarriedOnce, InHand
<1>3. InRing'
  BY Zenon DEF CarriedOnce, InRing
<1> QED
  BY <1>1, <1>2, <1>3, Zenon DEF CarriedOnce

\* A stream that was opened stays open or ends: no attempt begins, and what has arrived
\* has arrived.
LEMMA StreamsMove ==
  ASSUME CallsTyped, OneAttempt, CarriedOnce, UNCHANGED <<call, channel, handled, req, broken>>,
         \A s \in Streams : /\ stream'[s] # "none" => stream[s] # "none"
                            /\ stream'[s] \in {"none", "written"} => stream[s] \in {"none", "written"}
  PROVE  OneAttempt' /\ CarriedOnce'
<1>1. \A r \in Calls : \A a \in 1..MaxAttempts : <<r, a>> \in Streams
  BY Zenon DEF Streams
<1>2. OneAttempt'
  BY <1>1, Zenon DEF OneAttempt
<1>3. \A r \in Calls : Arrived(r) => Arrived(r)'
  BY <1>1, Zenon DEF Arrived
<1>4. CarriedOnce'
  BY <1>3, CarriedStays, Zenon
<1> QED
  BY <1>2, <1>4, Zenon

\* The call of a client that waits for the connection or the answer has nothing in the
\* response ring yet.
LEMMA CallMoves ==
  ASSUME CallsTyped, Fresh, DeliveredOnce, UNCHANGED <<sent, req>>,
         NEW r \in Calls, NEW n, call' = [call EXCEPT ![r] = n],
         call[r].phase \in {"connect", "await"}
  PROVE  /\ Fresh'
         /\ \A i \in DOMAIN res["client"] : call'[res["client"][i].of] = call[res["client"][i].of]
<1>1. r \in Requests /\ \A q \in Calls : call'[q] = IF q = r THEN n ELSE call[q]
  BY Zenon DEF Calls, CallsTyped
<1>2. Fresh'
  BY <1>1, SMT DEF Fresh
<1>3. ASSUME NEW i \in DOMAIN res["client"]
      PROVE  call'[res["client"][i].of] = call[res["client"][i].of]
  <2>1. res["client"][i].of \in Calls /\ call[res["client"][i].of].phase = "done"
    BY Zenon DEF DeliveredOnce
  <2>2. res["client"][i].of # r
    BY <2>1, Zenon
  <2> QED
    BY <1>1, <2>1, <2>2, Zenon
<1> QED
  BY <1>2, <1>3, Zenon

\* A reserved slot is an entry of a ring.
LEMMA ReservedTyped ==
  ASSUME NEW r \in Requests
  PROVE  Reserved(r) \in Entries /\ Reserved(r).of = r
  BY Zenon DEF Reserved, Entries

\* A request appended to the request ring is past the cursor, and leaves the executions
\* as they were.
LEMMA ReqAppends ==
  ASSUME CallsTyped, ExecutedOnce, NEW r \in Requests, req' = Append(req, Reserved(r)),
         UNCHANGED <<executed, cursor, broken>>
  PROVE  /\ req' \in Seq(Entries) /\ cursor' \in 0..Len(req')
         /\ DOMAIN req = 1..Len(req) /\ Len(req) \in Nat /\ DOMAIN req' = 1..(Len(req) + 1)
         /\ \A k \in DOMAIN req : k \in DOMAIN req' /\ req'[k] = req[k]
         /\ req'[Len(req) + 1].of = r
         /\ \A k \in DOMAIN req' : k \in DOMAIN req \/ k = Len(req) + 1
         /\ ExecutedOnce'
<1>1. req \in Seq(Entries) /\ Reserved(r) \in Entries /\ Reserved(r).of = r /\ cursor \in 0..Len(req)
  BY ReservedTyped, Zenon DEF CallsTyped
<1>2. /\ Append(req, Reserved(r)) \in Seq(Entries)
      /\ DOMAIN req = 1..Len(req) /\ Len(req) \in Nat
      /\ Len(Append(req, Reserved(r))) = Len(req) + 1
      /\ DOMAIN Append(req, Reserved(r)) = 1..(Len(req) + 1)
      /\ \A i \in 1..Len(req) : Append(req, Reserved(r))[i] = req[i]
      /\ Append(req, Reserved(r))[Len(req) + 1] = Reserved(r)
  BY <1>1, AppendKnown, Zenon
<1>3. /\ req' \in Seq(Entries) /\ DOMAIN req = 1..Len(req) /\ Len(req) \in Nat /\ Len(req') = Len(req) + 1
      /\ DOMAIN req' = 1..(Len(req) + 1)
      /\ \A k \in DOMAIN req : req'[k] = req[k]
      /\ req'[Len(req) + 1].of = r
  BY <1>1, <1>2, Zenon
<1>4. /\ cursor' \in 0..Len(req') /\ \A k \in 1..cursor : k \in DOMAIN req
      /\ \A k \in DOMAIN req : k \in DOMAIN req'
      /\ \A k \in DOMAIN req' : k \in DOMAIN req \/ k = Len(req) + 1
  BY <1>1, <1>3, SMT
<1>5. ASSUME NEW q \in Requests, executed[q] > 0
      PROVE  \E k \in 1..cursor : req'[k].of = q
  <2>1. PICK k \in 1..cursor : req[k].of = q
    BY <1>5, Zenon DEF ExecutedOnce
  <2> QED
    BY <1>3, <1>4, <2>1, Zenon
<1>6. ExecutedOnce'
  BY <1>5, Zenon DEF ExecutedOnce
<1> QED
  BY <1>3, <1>4, <1>6, Zenon

\* A response appended to a response ring is past what anybody has read, and what was
\* taken stays taken.
LEMMA ResAppends ==
  ASSUME CallsTyped, TakenOnce, NEW h \in Hosts, NEW r \in Requests,
         res' = [res EXCEPT ![h] = Append(@, Reserved(r))], UNCHANGED <<seen, got>>
  PROVE  /\ res' \in [Hosts -> Seq(Entries)]
         /\ \A c \in Clients : seen'[c] <= Len(res'[HostOf(c)])
         /\ \A g \in Hosts : g # h => res'[g] = res[g]
         /\ \A i \in DOMAIN res[h] : i \in DOMAIN res'[h] /\ res'[h][i] = res[h][i]
         /\ res'[h][Len(res[h]) + 1].of = r
         /\ Len(res[h]) + 1 \notin DOMAIN res[h]
         /\ \A i \in DOMAIN res'[h] : i \in DOMAIN res[h] \/ i = Len(res[h]) + 1
         /\ TakenOnce'
<1>1. /\ res \in [Hosts -> Seq(Entries)] /\ Reserved(r) \in Entries /\ Reserved(r).of = r
      /\ seen \in [Clients -> Nat] /\ \A c \in Clients : seen[c] <= Len(res[HostOf(c)])
      /\ res[h] \in Seq(Entries)
  BY ReservedTyped, Zenon DEF CallsTyped
<1>2. /\ Append(res[h], Reserved(r)) \in Seq(Entries)
      /\ DOMAIN res[h] = 1..Len(res[h]) /\ Len(res[h]) \in Nat
      /\ Len(Append(res[h], Reserved(r))) = Len(res[h]) + 1
      /\ DOMAIN Append(res[h], Reserved(r)) = 1..(Len(res[h]) + 1)
      /\ \A i \in 1..Len(res[h]) : Append(res[h], Reserved(r))[i] = res[h][i]
      /\ Append(res[h], Reserved(r))[Len(res[h]) + 1] = Reserved(r)
  <2>1. res[h] \in Seq(Entries) /\ Reserved(r) \in Entries
    BY <1>1, Zenon
  <2> QED
    BY <2>1, AppendKnown, SMT
<1>3. \A g \in Hosts : res'[g] = IF g = h THEN Append(res[h], Reserved(r)) ELSE res[g]
  BY <1>1, Zenon
<1>4. res' \in [Hosts -> Seq(Entries)]
  BY <1>1, <1>2, Zenon
<1>5. /\ \A g \in Hosts : g # h => res'[g] = res[g]
      /\ DOMAIN res[h] = 1..Len(res[h]) /\ Len(res[h]) \in Nat
      /\ Len(res'[h]) = Len(res[h]) + 1 /\ DOMAIN res'[h] = 1..(Len(res[h]) + 1)
      /\ \A i \in 1..Len(res[h]) : res'[h][i] = res[h][i]
      /\ res'[h][Len(res[h]) + 1].of = r
  BY <1>1, <1>2, <1>3, Zenon
<1>6. /\ \A i \in DOMAIN res[h] : i \in DOMAIN res'[h] /\ res'[h][i] = res[h][i]
      /\ Len(res[h]) + 1 \notin DOMAIN res[h]
      /\ \A i \in DOMAIN res'[h] : i \in DOMAIN res[h] \/ i = Len(res[h]) + 1
  BY <1>5, SMT
<1>7. \A c \in Clients : HostOf(c) \in Hosts
  BY Zenon DEF HostOf, Hosts
<1>8. \A c \in Clients : seen[c] <= Len(res'[HostOf(c)])
  <2> SUFFICES ASSUME NEW c \in Clients PROVE seen[c] <= Len(res'[HostOf(c)])
    OBVIOUS
  <2>1. CASE HostOf(c) = h
    BY <1>1, <1>5, <2>1, SMT
  <2>2. CASE HostOf(c) # h
    BY <1>1, <1>5, <1>7, <2>2, Zenon
  <2> QED
    BY <2>1, <2>2, Zenon
<1>9. ASSUME NEW c \in Clients, NEW i \in 1..seen[c]
      PROVE  res'[HostOf(c)][i] = res[HostOf(c)][i]
  <2>1. CASE HostOf(c) = h
    <3>1. i \in 1..Len(res[h])
      BY <1>1, <1>5, <2>1, SMT
    <3> QED
      BY <1>5, <2>1, <3>1, Zenon
  <2>2. CASE HostOf(c) # h
    BY <1>5, <1>7, <2>2, Zenon
  <2> QED
    BY <2>1, <2>2, Zenon
<1>10. TakenOnce'
  BY <1>9, TakenStays, Zenon
<1> QED
  BY <1>4, <1>5, <1>6, <1>8, <1>10, Zenon DEF HostOf

\* The request ring still has each request once when one is appended that it did not
\* have.
LEMMA RingGrows ==
  ASSUME InRing, UNCHANGED <<stream, broken>>, NEW r, NEW n,
         \A k \in DOMAIN req : k \in DOMAIN req' /\ req'[k] = req[k],
         \A k \in DOMAIN req' : k \in DOMAIN req \/ k = n,
         req'[n].of = r,
         r \notin broken => /\ r \in Calls => Arrived(r)
                           /\ \A k \in DOMAIN req : req[k].of # r
  PROVE  InRing'
<1>1. \A q : Arrived(q)' <=> Arrived(q)
  BY Zenon DEF Arrived
<1> SUFFICES ASSUME NEW k \in DOMAIN req', NEW q, q = req'[k].of, q \notin broken'
             PROVE  /\ q \in Calls => Arrived(q)'
                    /\ \A m \in DOMAIN req' : req'[m].of = q => m = k
  BY Zenon DEF InRing
<1>2. CASE k \in DOMAIN req
  <2>1. q \notin broken /\ q = req[k].of
    BY <1>2, Zenon
  <2>2. q \in Calls => Arrived(q)
    BY <1>2, <2>1, Zenon DEF InRing
  <2>3. \A m \in DOMAIN req : req[m].of = q => m = k
    BY <1>2, <2>1, Zenon DEF InRing
  <2>4. q # r
    BY <1>2, <2>1, Zenon
  <2> QED
    BY <1>1, <2>2, <2>3, <2>4, Zenon
<1>3. CASE k = n
  <2>1. q = r /\ r \notin broken
    BY <1>3, Zenon
  <2> QED
    BY <1>1, <1>3, <2>1, Zenon
<1> QED
  BY <1>2, <1>3, Zenon

\* A route that is discovered keeps the invariant.
LEMMA DiscoverKeeps ==
  ASSUME CallsInv, Discover
  PROVE  CallsInv'
<1>1. /\ UNCHANGED <<up, cursor, serving, req, res, sent, call, stream, reply, channel, pending, handled>>
      /\ UNCHANGED <<seen, got, executed, broken>> /\ routed' \in BOOLEAN
  BY Zenon DEF Discover, server, rings, remote, history
<1>2. /\ CallsTyped /\ Replies /\ Fresh /\ OneAttempt /\ CarriedOnce
      /\ ExecutedOnce /\ AnsweredOnce /\ DeliveredOnce /\ TakenOnce
  BY Zenon DEF CallsInv
<1>3. CallsTyped'
  BY <1>1, <1>2, Zenon DEF CallsTyped
<1> QED
  BY <1>1, <1>2, <1>3, RepliesKept, FreshKept, OneAttemptKept, CarriedOnceKept, ExecutedOnceKept,
     AnsweredOnceKept, DeliveredOnceKept, TakenOnceKept, Zenon DEF CallsInv

\* A request of a client on another host becomes a call, and nobody has heard of it
\* before.
LEMMA SendRemote ==
  ASSUME CallsInv, NEW c \in Remote, Send(c)
  PROVE  CallsInv'
<1> DEFINE r == <<c, sent[c] + 1>>
           p == IF seed_remote_service_route THEN "connect" ELSE "unrouted"
<1>1. /\ sent' = [sent EXCEPT ![c] = @ + 1] /\ sent[c] < MaxRequests
      /\ call' = [call EXCEPT ![r].phase = p]
      /\ UNCHANGED <<up, cursor, serving, routed, req, res, stream, reply, channel, pending, handled>>
      /\ UNCHANGED <<seen, got, executed, broken>>
  BY Zenon DEF Send, server, history
<1>2. /\ CallsTyped /\ Replies /\ Fresh /\ OneAttempt /\ CarriedOnce
      /\ ExecutedOnce /\ AnsweredOnce /\ DeliveredOnce /\ TakenOnce
  BY Zenon DEF CallsInv
<1>3. c \in Clients /\ sent \in [Clients -> Nat] /\ MaxRequests \in Nat
  BY <1>2, CallsAssumption, Zenon DEF CallsTyped
<1>4. r \in Calls /\ r[1] = c /\ r[2] = sent[c] + 1
  BY <1>1, <1>3, SMT DEF Calls, Requests
<1> HIDE DEF r
<1>5. call[r].phase = "idle"
  <2>1. r \in Requests /\ r[2] > sent[r[1]]
    BY <1>3, <1>4, SMT DEF Calls
  <2> QED
    BY <1>2, <1>4, <2>1, Zenon DEF Fresh
<1>6. call \in [Calls -> [phase : Phases, attempt : 1..MaxAttempts]]
  BY <1>2, Zenon DEF CallsTyped
<1>7. p \in Phases
  BY Zenon DEF Phases
<1> HIDE DEF p
<1>8. /\ call' \in [Calls -> [phase : Phases, attempt : 1..MaxAttempts]]
      /\ \A q \in Calls : q # r => call'[q] = call[q]
  <2>1. call[r] \in [phase : Phases, attempt : 1..MaxAttempts]
    BY <1>4, <1>6, Zenon
  <2>2. [call[r] EXCEPT !.phase = p] \in [phase : Phases, attempt : 1..MaxAttempts]
    BY <1>7, <2>1, Zenon
  <2>3. call' = [call EXCEPT ![r] = [call[r] EXCEPT !.phase = p]]
    BY <1>1, Zenon
  <2> QED
    BY <1>6, <2>2, <2>3, Zenon
<1>9. /\ sent' \in [Clients -> Nat]
      /\ \A q \in Requests : q[2] > sent'[q[1]] => q[2] > sent[q[1]] /\ q # r
  <2>1. ASSUME NEW q \in Requests, q[2] > sent'[q[1]]
        PROVE  q[2] > sent[q[1]] /\ q # r
    <3>1. q[1] \in Clients /\ q[2] \in Nat
      BY <1>3, SMT DEF Requests
    <3> QED
      BY <1>1, <1>3, <1>4, <2>1, <3>1, SMT
  <2> QED
    BY <1>1, <1>3, <2>1, SMT
<1>10. CallsTyped'
  BY <1>1, <1>2, <1>8, <1>9, Zenon DEF CallsTyped
<1>11. Fresh'
  <2> SUFFICES ASSUME NEW q \in Requests, q[2] > sent'[q[1]]
               PROVE  /\ q \in Calls => call'[q].phase = "idle"
                      /\ q \notin Calls => \A k \in DOMAIN req' : req'[k].of # q
    BY Zenon DEF Fresh
  <2>1. q[2] > sent[q[1]] /\ q # r
    BY <1>9, Zenon
  <2> QED
    BY <1>1, <1>2, <1>8, <2>1, Zenon DEF Fresh
<1>12. OneAttempt'
  BY <1>1, <1>2, <1>5, <1>8, Zenon DEF OneAttempt
<1>13. DeliveredOnce'
  BY <1>1, <1>2, <1>5, <1>8, Zenon DEF DeliveredOnce
<1> QED
  BY <1>1, <1>2, <1>10, <1>11, <1>12, <1>13, RepliesKept, CarriedOnceKept, ExecutedOnceKept,
     AnsweredOnceKept, TakenOnceKept, Zenon DEF CallsInv

\* A request of a client on the server's host goes into the request ring, which did not
\* have it.
LEMMA SendLocal ==
  ASSUME CallsInv, NEW c \in Clients \ Remote, Send(c)
  PROVE  CallsInv'
<1> DEFINE r == <<c, sent[c] + 1>>
<1>1. /\ sent' = [sent EXCEPT ![c] = @ + 1] /\ sent[c] < MaxRequests
      /\ req' = Append(req, Reserved(r))
      /\ UNCHANGED <<up, cursor, serving, routed, call, res, stream, reply, channel, pending, handled>>
      /\ UNCHANGED <<seen, got, executed, broken>>
  BY Zenon DEF Send, server, history
<1>2. /\ CallsTyped /\ Replies /\ Fresh /\ OneAttempt /\ CarriedOnce
      /\ ExecutedOnce /\ AnsweredOnce /\ DeliveredOnce /\ TakenOnce
  BY Zenon DEF CallsInv
<1>3. c \in Clients /\ sent \in [Clients -> Nat] /\ MaxRequests \in Nat
  BY <1>2, CallsAssumption, Zenon DEF CallsTyped
<1>4. r \in Requests /\ r \notin Calls /\ r[1] = c /\ r[2] = sent[c] + 1
  BY <1>1, <1>3, SMT DEF Calls, Requests
<1> HIDE DEF r
<1>5. \A k \in DOMAIN req : req[k].of # r
  <2>1. r[2] > sent[r[1]]
    BY <1>3, <1>4, SMT
  <2> QED
    BY <1>2, <1>4, <2>1, Zenon DEF Fresh
<1>6. /\ req' \in Seq(Entries) /\ cursor' \in 0..Len(req')
      /\ \A k \in DOMAIN req : k \in DOMAIN req' /\ req'[k] = req[k]
      /\ req'[Len(req) + 1].of = r
      /\ \A k \in DOMAIN req' : k \in DOMAIN req \/ k = Len(req) + 1
      /\ ExecutedOnce'
  BY <1>1, <1>2, <1>4, ReqAppends, Zenon
<1>7. /\ sent' \in [Clients -> Nat]
      /\ \A q \in Requests : q[2] > sent'[q[1]] => q[2] > sent[q[1]] /\ q # r
  <2>1. ASSUME NEW q \in Requests, q[2] > sent'[q[1]]
        PROVE  q[2] > sent[q[1]] /\ q # r
    <3>1. q[1] \in Clients /\ q[2] \in Nat
      BY <1>3, SMT DEF Requests
    <3> QED
      BY <1>1, <1>3, <1>4, <2>1, <3>1, SMT
  <2> QED
    BY <1>1, <1>3, <2>1, SMT
<1>8. CallsTyped'
  BY <1>1, <1>2, <1>6, <1>7, Zenon DEF CallsTyped
<1>9. Fresh'
  <2> SUFFICES ASSUME NEW q \in Requests, q[2] > sent'[q[1]]
               PROVE  /\ q \in Calls => call'[q].phase = "idle"
                      /\ q \notin Calls => \A k \in DOMAIN req' : req'[k].of # q
    BY Zenon DEF Fresh
  <2>1. q[2] > sent[q[1]] /\ q # r
    BY <1>7, Zenon
  <2>2. q \in Calls => call'[q].phase = "idle"
    BY <1>1, <1>2, <2>1, Zenon DEF Fresh
  <2>3. q \notin Calls => \A k \in DOMAIN req : req[k].of # q
    BY <1>2, <2>1, Zenon DEF Fresh
  <2> QED
    BY <1>6, <2>1, <2>2, <2>3, Zenon
<1>10. CarriedOnce'
  <2>1. /\ \A i \in DOMAIN channel : channel[i][1] \in Calls
        /\ handled # Nothing => handled[1] \in Calls
    BY <1>2, CarriersKnown, Zenon
  <2>2. InChannel /\ InHand /\ InRing
    BY <1>2, Zenon DEF CarriedOnce
  <2>3. \A q \in Calls : (\A k \in DOMAIN req : req[k].of # q) => \A k \in DOMAIN req' : req'[k].of # q
    BY <1>4, <1>6, Zenon
  <2>4. \A q : Arrived(q)' <=> Arrived(q)
    BY <1>1, Zenon DEF Arrived
  <2>5. InChannel'
    BY <1>1, <2>1, <2>2, <2>3, <2>4, Zenon DEF InChannel
  <2>6. InHand'
    BY <1>1, <2>1, <2>2, <2>3, <2>4, Zenon DEF InHand
  <2>7. InRing'
    BY <1>1, <1>4, <1>5, <1>6, <2>2, RingGrows, Zenon
  <2> QED
    BY <2>5, <2>6, <2>7, Zenon DEF CarriedOnce
<1> QED
  BY <1>1, <1>2, <1>6, <1>8, <1>9, <1>10, RepliesKept, OneAttemptKept, DeliveredOnceKept,
     AnsweredOnceKept, TakenOnceKept, Zenon DEF CallsInv

\* The ring that a client reads has one response at most for each of its requests: on the
\* server's host by AnsweredOnce (no such client's request is a call that may break), on
\* the other one by DeliveredOnce.
LEMMA OneResponse ==
  ASSUME CallsInv, NEW c \in Clients, NEW ring, ring = res[HostOf(c)],
         NEW i \in DOMAIN ring, NEW j \in DOMAIN ring, ring[i].of[1] = c, ring[j].of = ring[i].of
  PROVE  j = i
<1>1. CallsTyped /\ AnsweredOnce /\ DeliveredOnce
  BY Zenon DEF CallsInv
<1>2. CASE c \in Remote
  <2>1. ring = res["client"]
    BY <1>2, Zenon DEF HostOf
  <2> QED
    BY <1>1, <2>1, Zenon DEF DeliveredOnce
<1>3. CASE c \notin Remote
  <2>1. ring = res["server"]
    BY <1>3, Zenon DEF HostOf
  <2>2. ring[i].of \notin broken
    BY <1>1, <1>3, Zenon DEF CallsTyped, Calls
  <2> QED
    BY <1>1, <2>1, <2>2, Zenon DEF AnsweredOnce
<1> QED
  BY <1>2, <1>3, Zenon

\* take_response keeps the invariant: the entry found is past everything taken, so it is
\* not one of those.
LEMMA TakeResponseKeeps ==
  ASSUME CallsInv, NEW c \in Clients, TakeResponse(c)
  PROVE  CallsInv'
<1> DEFINE ring == res[HostOf(c)]
           found == Found(c, ring)
<1>1. /\ UNCHANGED <<up, routed, cursor, serving, req, res, sent, call, stream, reply, channel, pending, handled>>
      /\ UNCHANGED <<executed, broken>> /\ seen[c] < Len(ring)
      /\ \/ found = {} /\ seen' = [seen EXCEPT ![c] = Len(ring)] /\ UNCHANGED got
         \/ \E i \in found :
              \/ ring[i].ready /\ seen' = [seen EXCEPT ![c] = i] /\ got' = [got EXCEPT ![c] = Append(@, ring[i].of)]
              \/ ~ring[i].ready /\ seen' = [seen EXCEPT ![c] = i - 1] /\ UNCHANGED got
  BY Zenon DEF TakeResponse, server, rings, remote, history
<1>2. /\ CallsTyped /\ Replies /\ Fresh /\ OneAttempt /\ CarriedOnce
      /\ ExecutedOnce /\ AnsweredOnce /\ DeliveredOnce /\ TakenOnce
  BY Zenon DEF CallsInv
<1>3. /\ ring \in Seq(Entries) /\ seen \in [Clients -> Nat] /\ got \in [Clients -> Seq(Requests)]
      /\ \A d \in Clients : seen[d] <= Len(res[HostOf(d)])
  BY <1>2, Zenon DEF CallsTyped, HostOf, Hosts
<1>4. Len(ring) \in Nat /\ DOMAIN ring = 1..Len(ring)
  BY <1>3, SMT
<1>5. \A i \in found : /\ i \in DOMAIN ring /\ i \in Nat /\ i > seen[c] /\ i <= Len(ring)
                       /\ ring[i].ready => ring[i].of[1] = c
  BY <1>3, <1>4, SMT DEF Found
<1> HIDE DEF found
<1>6. ASSUME NEW n \in Nat, seen' = [seen EXCEPT ![c] = n], n >= seen[c], n <= Len(ring), UNCHANGED got
      PROVE  CallsTyped' /\ TakenOnce'
  <2>1. /\ seen' \in [Clients -> Nat] /\ \A d \in Clients : seen'[d] <= Len(res[HostOf(d)])
        /\ \A d \in Clients : \A i \in 1..seen[d] : i \in 1..seen'[d]
    BY <1>3, <1>6, SMT
  <2>2. CallsTyped'
    BY <1>1, <1>2, <1>6, <2>1, Zenon DEF CallsTyped, HostOf
  <2>3. ASSUME NEW d \in Clients, NEW k \in DOMAIN got[d]
        PROVE  got[d][k][1] = d /\ \E i \in 1..seen'[d] : res[HostOf(d)][i].of = got[d][k]
    BY <1>2, <2>1, Zenon DEF TakenOnce
  <2>4. \A d \in Clients : IsInjective(got[d])
    BY <1>2, Zenon DEF TakenOnce
  <2>5. UNCHANGED <<res, got>>
    BY <1>1, <1>6, Zenon
  <2>6. TakenOnce'
    BY <2>3, <2>4, <2>5, Zenon DEF TakenOnce
  <2> QED
    BY <2>2, <2>6, Zenon
<1>7. ASSUME NEW i \in found, ring[i].ready,
             seen' = [seen EXCEPT ![c] = i], got' = [got EXCEPT ![c] = Append(@, ring[i].of)]
      PROVE  CallsTyped' /\ TakenOnce'
  <2> DEFINE x == ring[i].of
  <2>1. /\ i \in DOMAIN ring /\ i \in Nat /\ i > seen[c] /\ i <= Len(ring) /\ x[1] = c
    BY <1>5, <1>7, Zenon
  <2>2. x \in Requests
    BY <1>2, <2>1, CarriersKnown, Zenon DEF HostOf, Hosts
  <2>3. ring[i].of = x
    OBVIOUS
  <2> HIDE DEF x
  <2>4. got[c] \in Seq(Requests)
    BY <1>3, Zenon
  <2>5. /\ Append(got[c], x) \in Seq(Requests)
        /\ DOMAIN got[c] = 1..Len(got[c]) /\ Len(got[c]) \in Nat
        /\ DOMAIN Append(got[c], x) = 1..(Len(got[c]) + 1)
        /\ \A k \in 1..Len(got[c]) : Append(got[c], x)[k] = got[c][k]
        /\ Append(got[c], x)[Len(got[c]) + 1] = x
    BY <2>2, <2>4, AppendKnown, SMT
  <2>6. /\ got' \in [Clients -> Seq(Requests)] /\ got'[c] = Append(got[c], x)
        /\ \A d \in Clients : d # c => got'[d] = got[d]
    BY <1>3, <1>7, <2>3, <2>5, Zenon
  <2>7. /\ seen' \in [Clients -> Nat] /\ \A d \in Clients : seen'[d] <= Len(res[HostOf(d)])
        /\ \A d \in Clients : \A m \in 1..seen[d] : m \in 1..seen'[d]
        /\ i \in 1..seen'[c] /\ i \notin 1..seen[c]
    BY <1>3, <1>4, <1>7, <2>1, SMT
  <2>8. CallsTyped'
    BY <1>1, <1>2, <2>6, <2>7, Zenon DEF CallsTyped, HostOf
  <2>9. \A m \in 1..seen[c] : ring[m].of # x
    <3> SUFFICES ASSUME NEW m \in 1..seen[c], ring[m].of = x PROVE FALSE
      OBVIOUS
    <3>1. m \in DOMAIN ring
      BY <1>3, <1>4, SMT
    <3>2. m = i
      BY <2>1, <2>3, <3>1, OneResponse, Zenon
    <3> QED
      BY <2>7, <3>2, Zenon
  <2>10. ASSUME NEW k \in DOMAIN got[c] PROVE got[c][k] # x
    <3>1. PICK m \in 1..seen[c] : ring[m].of = got[c][k]
      BY <1>2, Zenon DEF TakenOnce
    <3> QED
      BY <2>9, <3>1, Zenon
  <2>11. \A k \in DOMAIN got'[c] : k \in DOMAIN got[c] \/ k = Len(got[c]) + 1
    BY <2>5, <2>6, SMT
  <2>12. \A k \in DOMAIN got[c] : got'[c][k] = got[c][k]
    BY <2>5, <2>6, Zenon
  <2>13. got'[c][Len(got[c]) + 1] = x
    BY <2>5, <2>6, Zenon
  <2>14. IsInjective(got[c])
    BY <1>2, Zenon DEF TakenOnce
  <2>15. IsInjective(got'[c])
    BY <2>10, <2>11, <2>12, <2>13, <2>14, Zenon DEF IsInjective
  <2>16. \A k \in DOMAIN got'[c] : got'[c][k][1] = c /\ \E m \in 1..seen'[c] : ring[m].of = got'[c][k]
    <3> SUFFICES ASSUME NEW k \in DOMAIN got'[c]
                 PROVE  got'[c][k][1] = c /\ \E m \in 1..seen'[c] : ring[m].of = got'[c][k]
      OBVIOUS
    <3>1. CASE k \in DOMAIN got[c]
      <4>1. got[c][k][1] = c
        BY <1>2, <3>1, Zenon DEF TakenOnce
      <4>2. PICK m \in 1..seen[c] : ring[m].of = got[c][k]
        BY <1>2, <3>1, Zenon DEF TakenOnce
      <4> QED
        BY <2>7, <2>12, <3>1, <4>1, <4>2, Zenon
    <3>2. CASE k = Len(got[c]) + 1
      BY <2>1, <2>3, <2>7, <2>13, <3>2, Zenon
    <3> QED
      BY <2>11, <3>1, <3>2, Zenon
  <2>17. res' = res
    BY <1>1, Zenon
  <2>18. TakenOnce'
    <3> SUFFICES ASSUME NEW d \in Clients
                 PROVE  (/\ \A k \in DOMAIN got[d] :
                              got[d][k][1] = d /\ \E m \in 1..seen[d] : res[HostOf(d)][m].of = got[d][k]
                         /\ IsInjective(got[d]))'
      BY Zenon DEF TakenOnce
    <3>1. CASE d = c
      BY <2>15, <2>16, <2>17, <3>1, Zenon
    <3>2. CASE d # c
      <4>1. got'[d] = got[d] /\ \A m \in 1..seen[d] : m \in 1..seen'[d]
        BY <2>6, <2>7, <3>2, Zenon
      <4>2. /\ \A k \in DOMAIN got[d] :
                 got[d][k][1] = d /\ \E m \in 1..seen[d] : res[HostOf(d)][m].of = got[d][k]
            /\ IsInjective(got[d])
        BY <1>2, Zenon DEF TakenOnce
      <4> QED
        BY <2>17, <4>1, <4>2, Zenon
    <3> QED
      BY <3>1, <3>2, Zenon
  <2> QED
    BY <2>8, <2>18, Zenon
<1>8. CallsTyped' /\ TakenOnce'
  <2>1. CASE found = {} /\ seen' = [seen EXCEPT ![c] = Len(ring)] /\ UNCHANGED got
    <3>1. Len(ring) >= seen[c] /\ Len(ring) <= Len(ring)
      BY <1>1, <1>3, <1>4, SMT
    <3> QED
      BY <1>4, <1>6, <2>1, <3>1, Zenon
  <2>2. ASSUME NEW i \in found, ~ring[i].ready, seen' = [seen EXCEPT ![c] = i - 1], UNCHANGED got
        PROVE  CallsTyped' /\ TakenOnce'
    <3>1. i - 1 \in Nat /\ i - 1 >= seen[c] /\ i - 1 <= Len(ring)
      BY <1>3, <1>4, <1>5, SMT
    <3> QED
      BY <1>6, <2>2, <3>1, Zenon
  <2> QED
    BY <1>1, <1>7, <2>1, <2>2, Zenon
<1> QED
  BY <1>1, <1>2, <1>8, RepliesKept, FreshKept, OneAttemptKept, CarriedOnceKept, ExecutedOnceKept,
     AnsweredOnceKept, DeliveredOnceKept, Zenon DEF CallsInv

\* An update of one call leaves the others as they are.
LEMMA CallUpdates ==
  ASSUME CallsTyped, NEW r \in Calls, NEW n \in [phase : Phases, attempt : 1..MaxAttempts],
         call' = [call EXCEPT ![r] = n]
  PROVE  /\ call' \in [Calls -> [phase : Phases, attempt : 1..MaxAttempts]]
         /\ call'[r] = n /\ \A q \in Calls : q # r => call'[q] = call[q]
  BY Zenon DEF CallsTyped

\* What a call becomes when it is retried or given up.
LEMMA RetriedTyped ==
  ASSUME CallsTyped, NEW r \in Calls
  PROVE  /\ Retried(r) \in [phase : Phases, attempt : 1..MaxAttempts]
         /\ Abandoned(r) \in [phase : Phases, attempt : 1..MaxAttempts]
         /\ Abandoned(r).phase = "failed" /\ Abandoned(r).attempt = call[r].attempt
<1>1. call[r] \in [phase : Phases, attempt : 1..MaxAttempts] /\ MaxAttempts \in Nat
  BY CallsAssumption, Zenon DEF CallsTyped
<1>2. Abandoned(r) \in [phase : Phases, attempt : 1..MaxAttempts]
  BY <1>1, Zenon DEF Abandoned, Phases
<1>3. Abandoned(r).phase = "failed" /\ Abandoned(r).attempt = call[r].attempt
  BY <1>1, Zenon DEF Abandoned, Phases
<1>4. CASE call[r].attempt < MaxAttempts
  <2>1. call[r].attempt + 1 \in 1..MaxAttempts
    BY <1>1, <1>4, SMT
  <2> QED
    BY <1>2, <1>3, <1>4, <2>1, Zenon DEF Retried, Phases
<1>5. CASE ~ (call[r].attempt < MaxAttempts)
  BY <1>2, <1>3, <1>5, Zenon DEF Retried, Abandoned
<1> QED
  BY <1>4, <1>5, Zenon

\* A connection that fails before anything is written keeps the invariant: the call has
\* no stream.
LEMMA ConnectFailsKeeps ==
  ASSUME CallsInv, NEW r \in Calls, ConnectFails(r)
  PROVE  CallsInv'
<1>1. /\ call[r].phase = "connect" /\ call' = [call EXCEPT ![r] = Retried(r)]
      /\ UNCHANGED <<up, routed, cursor, serving, req, res, sent, stream, reply, channel, pending, handled>>
      /\ UNCHANGED <<seen, got, executed, broken>>
  BY Zenon DEF ConnectFails, server, rings, history
<1>2. /\ CallsTyped /\ Replies /\ Fresh /\ OneAttempt /\ CarriedOnce
      /\ ExecutedOnce /\ AnsweredOnce /\ DeliveredOnce /\ TakenOnce
  BY Zenon DEF CallsInv
<1>3. /\ call' \in [Calls -> [phase : Phases, attempt : 1..MaxAttempts]]
      /\ \A q \in Calls : q # r => call'[q] = call[q]
  BY <1>1, <1>2, CallUpdates, RetriedTyped, Zenon
<1>4. CallsTyped'
  BY <1>1, <1>2, <1>3, Zenon DEF CallsTyped
<1>5. /\ Fresh'
      /\ \A i \in DOMAIN res["client"] : call'[res["client"][i].of] = call[res["client"][i].of]
  BY <1>1, <1>2, CallMoves, Zenon
<1>6. OneAttempt'
  BY <1>1, <1>2, <1>3, Zenon DEF OneAttempt
<1>7. DeliveredOnce'
  BY <1>1, <1>2, <1>5, Zenon DEF DeliveredOnce
<1> QED
  BY <1>1, <1>2, <1>4, <1>5, <1>6, <1>7, RepliesKept, CarriedOnceKept, ExecutedOnceKept,
     AnsweredOnceKept, TakenOnceKept, Zenon DEF CallsInv

\* A call that is given up, at its deadline or because the server closed the stream,
\* keeps the invariant: it is not tried again.
LEMMA AbandonKeeps ==
  ASSUME CallsInv, NEW r \in Calls, ClientTimeout(r) \/ Rejected(r)
  PROVE  CallsInv'
<1>1. /\ call[r].phase = "await" /\ call' = [call EXCEPT ![r] = Abandoned(r)]
      /\ UNCHANGED <<up, routed, cursor, serving, req, res, sent, stream, reply, channel, pending, handled>>
      /\ UNCHANGED <<seen, got, executed, broken>>
  BY Zenon DEF ClientTimeout, Rejected, server, rings, history
<1>2. /\ CallsTyped /\ Replies /\ Fresh /\ OneAttempt /\ CarriedOnce
      /\ ExecutedOnce /\ AnsweredOnce /\ DeliveredOnce /\ TakenOnce
  BY Zenon DEF CallsInv
<1>3. /\ call' \in [Calls -> [phase : Phases, attempt : 1..MaxAttempts]]
      /\ call'[r] = Abandoned(r)
      /\ \A q \in Calls : q # r => call'[q] = call[q]
  BY <1>1, <1>2, CallUpdates, RetriedTyped, Zenon
<1>4. CallsTyped'
  BY <1>1, <1>2, <1>3, Zenon DEF CallsTyped
<1>5. /\ Fresh'
      /\ \A i \in DOMAIN res["client"] : call'[res["client"][i].of] = call[res["client"][i].of]
  BY <1>1, <1>2, CallMoves, Zenon
<1>6. OneAttempt'
  <2>1. call'[r].phase = "failed" /\ call'[r].attempt = call[r].attempt
    BY <1>2, <1>3, RetriedTyped, Zenon
  <2> SUFFICES ASSUME NEW q \in Calls \ broken', NEW a \in 1..MaxAttempts, stream'[<<q, a>>] # "none"
               PROVE  a = call'[q].attempt /\ call'[q].phase \in {"await", "done", "failed"}
    BY Zenon DEF OneAttempt
  <2>2. a = call[q].attempt /\ call[q].phase \in {"await", "done", "failed"}
    BY <1>1, <1>2, Zenon DEF OneAttempt
  <2> QED
    BY <1>3, <2>1, <2>2, Zenon
<1>7. DeliveredOnce'
  BY <1>1, <1>2, <1>5, Zenon DEF DeliveredOnce
<1> QED
  BY <1>1, <1>2, <1>4, <1>5, <1>6, <1>7, RepliesKept, CarriedOnceKept, ExecutedOnceKept,
     AnsweredOnceKept, TakenOnceKept, Zenon DEF CallsInv

\* A call that goes on to its next phase keeps its attempt.
LEMMA PhaseTyped ==
  ASSUME CallsTyped, NEW r \in Calls, NEW p \in Phases, call' = [call EXCEPT ![r].phase = p]
  PROVE  \E n \in [phase : Phases, attempt : 1..MaxAttempts] :
           call' = [call EXCEPT ![r] = n] /\ n.phase = p /\ n.attempt = call[r].attempt
<1> DEFINE n == [call[r] EXCEPT !.phase = p]
<1>1. call[r] \in [phase : Phases, attempt : 1..MaxAttempts]
  BY Zenon DEF CallsTyped
<1>2. n \in [phase : Phases, attempt : 1..MaxAttempts] /\ n.phase = p /\ n.attempt = call[r].attempt
  BY <1>1, Zenon
<1>3. call' = [call EXCEPT ![r] = n]
  BY Zenon
<1> HIDE DEF n
<1> QED
  BY <1>2, <1>3, Zenon

\* Writing the request opens a stream for an attempt that had none: no other attempt of
\* the call has one unless it broke.
LEMMA WriteRequestKeeps ==
  ASSUME CallsInv, NEW r \in Calls, WriteRequest(r)
  PROVE  CallsInv'
<1> DEFINE s == StreamOf(r)
<1>1. /\ call[r].phase = "connect" /\ call' = [call EXCEPT ![r].phase = "await"]
      /\ stream' = [stream EXCEPT ![s] = "written"]
      /\ UNCHANGED <<up, routed, cursor, serving, req, res, sent, reply, channel, pending, handled>>
      /\ UNCHANGED <<seen, got, executed, broken>>
  BY Zenon DEF WriteRequest, server, rings, history
<1>2. /\ CallsTyped /\ Replies /\ Fresh /\ OneAttempt /\ CarriedOnce
      /\ ExecutedOnce /\ AnsweredOnce /\ DeliveredOnce /\ TakenOnce
  BY Zenon DEF CallsInv
<1>3. PICK n \in [phase : Phases, attempt : 1..MaxAttempts] :
        call' = [call EXCEPT ![r] = n] /\ n.phase = "await" /\ n.attempt = call[r].attempt
  <2>1. "await" \in Phases
    BY Zenon DEF Phases
  <2> QED
    BY <1>1, <1>2, <2>1, PhaseTyped, Zenon
<1>4. /\ call' \in [Calls -> [phase : Phases, attempt : 1..MaxAttempts]]
      /\ call'[r] = n /\ \A q \in Calls : q # r => call'[q] = call[q]
  BY <1>2, <1>3, CallUpdates, Zenon
<1>5. s \in Streams /\ s[1] = r /\ s = <<r, call[r].attempt>>
  BY <1>2, SMT DEF StreamOf, Streams, CallsTyped
<1> HIDE DEF s
<1>6. /\ stream' \in [Streams -> StreamStates] /\ stream'[s] = "written"
      /\ \A t \in Streams : t # s => stream'[t] = stream[t]
  BY <1>1, <1>2, <1>5, Zenon DEF CallsTyped, StreamStates
<1>7. CallsTyped'
  BY <1>1, <1>2, <1>4, <1>6, Zenon DEF CallsTyped
<1>8. /\ Fresh'
      /\ \A i \in DOMAIN res["client"] : call'[res["client"][i].of] = call[res["client"][i].of]
  BY <1>1, <1>2, <1>3, CallMoves, Zenon
<1>9. Replies'
  BY <1>1, <1>2, <1>6, Zenon DEF Replies
<1>10. \A q \in Calls : \A a \in 1..MaxAttempts :
         <<q, a>> \in Streams /\ (<<q, a>> = s => q = r /\ a = call[r].attempt)
  BY <1>5, SMT DEF Streams
<1>11. r \notin broken => \A a \in 1..MaxAttempts : stream[<<r, a>>] = "none"
  BY <1>1, <1>2, Zenon DEF OneAttempt
<1>12. OneAttempt'
  <2> SUFFICES ASSUME NEW q \in Calls \ broken', NEW a \in 1..MaxAttempts, stream'[<<q, a>>] # "none"
               PROVE  a = call'[q].attempt /\ call'[q].phase \in {"await", "done", "failed"}
    BY Zenon DEF OneAttempt
  <2>1. CASE q = r
    <3>1. <<q, a>> = s
      BY <1>1, <1>6, <1>10, <1>11, <2>1, Zenon
    <3> QED
      BY <1>3, <1>4, <1>10, <2>1, <3>1, Zenon
  <2>2. CASE q # r
    <3>1. stream[<<q, a>>] # "none" /\ q \in Calls \ broken
      BY <1>1, <1>6, <1>10, <2>2, Zenon
    <3> QED
      BY <1>2, <1>4, <2>2, <3>1, Zenon DEF OneAttempt
  <2> QED
    BY <2>1, <2>2, Zenon
<1>13. \A q \in Calls : q \notin broken /\ Arrived(q) => q # r
  BY <1>11, Zenon DEF Arrived
<1>14. \A q \in Calls : q \notin broken /\ Arrived(q) => Arrived(q)'
  <2> SUFFICES ASSUME NEW q \in Calls, q \notin broken, Arrived(q) PROVE Arrived(q)'
    OBVIOUS
  <2>1. \A a \in 1..MaxAttempts : stream'[<<q, a>>] = stream[<<q, a>>]
    BY <1>6, <1>10, <1>13, Zenon
  <2> QED
    BY <2>1, Zenon DEF Arrived
<1>15. CarriedOnce'
  BY <1>1, <1>2, <1>14, CarriedStays, Zenon
<1>16. DeliveredOnce'
  BY <1>1, <1>2, <1>8, Zenon DEF DeliveredOnce
<1> QED
  BY <1>1, <1>2, <1>7, <1>8, <1>9, <1>12, <1>15, <1>16, ExecutedOnceKept,
     AnsweredOnceKept, TakenOnceKept, Zenon DEF CallsInv

\* A connection that breaks after the write makes the call one of the broken, of which
\* the invariant says no more.
LEMMA ConnectionBreaksKeeps ==
  ASSUME CallsInv, NEW r \in Calls, ConnectionBreaks(r)
  PROVE  CallsInv'
<1> DEFINE s == StreamOf(r)
<1>1. /\ call[r].phase \in {"connect", "await"} /\ call' = [call EXCEPT ![r] = Retried(r)]
      /\ \/ stream' = [stream EXCEPT ![s] = "written"]
         \/ stream' = [stream EXCEPT ![s] = "closed"]
         \/ UNCHANGED stream
      /\ broken' = broken \cup {r}
      /\ UNCHANGED <<up, routed, cursor, serving, req, res, sent, reply, channel, pending, handled>>
      /\ UNCHANGED <<seen, got, executed>>
  BY Zenon DEF ConnectionBreaks, server, rings, history
<1>2. /\ CallsTyped /\ Replies /\ Fresh /\ OneAttempt /\ CarriedOnce
      /\ ExecutedOnce /\ AnsweredOnce /\ DeliveredOnce /\ TakenOnce
  BY Zenon DEF CallsInv
<1>3. /\ call' \in [Calls -> [phase : Phases, attempt : 1..MaxAttempts]]
      /\ \A q \in Calls : q # r => call'[q] = call[q]
  BY <1>1, <1>2, CallUpdates, RetriedTyped, Zenon
<1>4. s \in Streams /\ s[1] = r /\ s = <<r, call[r].attempt>>
  BY <1>2, SMT DEF StreamOf, Streams, CallsTyped
<1> HIDE DEF s
<1>5. /\ stream' \in [Streams -> StreamStates]
      /\ stream'[s] \in {"written", "closed", stream[s]}
      /\ \A t \in Streams : t # s => stream'[t] = stream[t]
  <2>1. stream \in [Streams -> StreamStates]
    BY <1>2, Zenon DEF CallsTyped
  <2>2. CASE stream' = [stream EXCEPT ![s] = "written"]
    BY <1>4, <2>1, <2>2, Zenon DEF StreamStates
  <2>3. CASE stream' = [stream EXCEPT ![s] = "closed"]
    BY <1>4, <2>1, <2>3, Zenon DEF StreamStates
  <2>4. CASE UNCHANGED stream
    BY <1>4, <2>1, <2>4, Zenon
  <2> QED
    BY <1>1, <2>2, <2>3, <2>4, Zenon
<1>6. CallsTyped'
  BY <1>1, <1>2, <1>3, <1>5, Zenon DEF CallsTyped
<1>7. /\ Fresh'
      /\ \A i \in DOMAIN res["client"] : call'[res["client"][i].of] = call[res["client"][i].of]
  BY <1>1, <1>2, CallMoves, Zenon
<1>8. Replies'
  BY <1>1, <1>2, <1>5, Zenon DEF Replies
<1>9. \A q \in Calls : q # r => \A a \in 1..MaxAttempts : stream'[<<q, a>>] = stream[<<q, a>>]
  <2>1. \A q \in Calls : q # r => \A a \in 1..MaxAttempts : <<q, a>> \in Streams /\ <<q, a>> # s
    BY <1>4, SMT DEF Streams
  <2> QED
    BY <1>5, <2>1, Zenon
<1>10. OneAttempt'
  <2> SUFFICES ASSUME NEW q \in Calls \ broken', NEW a \in 1..MaxAttempts, stream'[<<q, a>>] # "none"
               PROVE  a = call'[q].attempt /\ call'[q].phase \in {"await", "done", "failed"}
    BY Zenon DEF OneAttempt
  <2>1. q # r /\ q \in Calls \ broken
    BY <1>1, Zenon
  <2>2. stream[<<q, a>>] # "none"
    BY <1>9, <2>1, Zenon
  <2> QED
    BY <1>2, <1>3, <2>1, <2>2, Zenon DEF OneAttempt
<1>11. CarriedOnce'
  <2>1. \A q \in Calls : q \notin broken' /\ Arrived(q) => Arrived(q)'
    BY <1>1, <1>9, Zenon DEF Arrived
  <2> QED
    BY <1>1, <1>2, <2>1, CarriedStays, Zenon
<1>12. ExecutedOnce'
  BY <1>1, <1>2, Zenon DEF ExecutedOnce
<1>13. AnsweredOnce'
  BY <1>1, <1>2, Zenon DEF AnsweredOnce
<1>14. DeliveredOnce'
  BY <1>1, <1>2, <1>7, Zenon DEF DeliveredOnce
<1> QED
  BY <1>1, <1>2, <1>6, <1>7, <1>8, <1>10, <1>11, <1>12, <1>13, <1>14, TakenOnceKept, Zenon DEF CallsInv

\* Reading the reply puts the response to this call, and no other, in the client host's
\* ring, which did not have it.
LEMMA ReadResponseKeeps ==
  ASSUME CallsInv, NEW r \in Calls, ReadResponse(r)
  PROVE  CallsInv'
<1>1. /\ call[r].phase = "await" /\ stream[StreamOf(r)] = "replied"
      /\ call' = [call EXCEPT ![r].phase = "done"]
      /\ res' = [res EXCEPT !["client"] = Append(@, Reserved(reply[StreamOf(r)]))]
      /\ UNCHANGED <<up, routed, cursor, serving, req, sent, stream, reply, channel, pending, handled>>
      /\ UNCHANGED <<seen, got, executed, broken>>
  BY Zenon DEF ReadResponse, server, history
<1>2. /\ CallsTyped /\ Replies /\ Fresh /\ OneAttempt /\ CarriedOnce
      /\ ExecutedOnce /\ AnsweredOnce /\ DeliveredOnce /\ TakenOnce
  BY Zenon DEF CallsInv
<1>3. PICK n \in [phase : Phases, attempt : 1..MaxAttempts] :
        call' = [call EXCEPT ![r] = n] /\ n.phase = "done" /\ n.attempt = call[r].attempt
  <2>1. "done" \in Phases
    BY Zenon DEF Phases
  <2> QED
    BY <1>1, <1>2, <2>1, PhaseTyped, Zenon
<1>4. /\ call' \in [Calls -> [phase : Phases, attempt : 1..MaxAttempts]]
      /\ call'[r] = n /\ \A q \in Calls : q # r => call'[q] = call[q]
  BY <1>2, <1>3, CallUpdates, Zenon
<1>5. StreamOf(r) \in Streams /\ StreamOf(r)[1] = r
  BY <1>2, SMT DEF StreamOf, Streams, CallsTyped
<1>6. reply[StreamOf(r)] = r
  BY <1>1, <1>2, <1>5, Zenon DEF Replies
<1>7. /\ res' \in [Hosts -> Seq(Entries)]
      /\ \A c \in Clients : seen'[c] <= Len(res'[HostOf(c)])
      /\ \A g \in Hosts : g # "client" => res'[g] = res[g]
      /\ \A i \in DOMAIN res["client"] : i \in DOMAIN res'["client"] /\ res'["client"][i] = res["client"][i]
      /\ res'["client"][Len(res["client"]) + 1].of = r
      /\ \A i \in DOMAIN res'["client"] : i \in DOMAIN res["client"] \/ i = Len(res["client"]) + 1
      /\ TakenOnce'
  <2>1. "client" \in Hosts /\ r \in Requests
    BY Zenon DEF Hosts, Calls
  <2>2. res' = [res EXCEPT !["client"] = Append(@, Reserved(r))] /\ UNCHANGED <<seen, got>>
    BY <1>1, <1>6, Zenon
  <2> QED
    BY <1>2, <2>1, <2>2, ResAppends, Zenon
<1>8. CallsTyped'
  BY <1>1, <1>2, <1>4, <1>7, Zenon DEF CallsTyped, HostOf
<1>9. /\ Fresh'
      /\ \A i \in DOMAIN res["client"] : call'[res["client"][i].of] = call[res["client"][i].of]
  BY <1>1, <1>2, <1>3, CallMoves, Zenon
<1>10. OneAttempt'
  <2> SUFFICES ASSUME NEW q \in Calls \ broken', NEW a \in 1..MaxAttempts, stream'[<<q, a>>] # "none"
               PROVE  a = call'[q].attempt /\ call'[q].phase \in {"await", "done", "failed"}
    BY Zenon DEF OneAttempt
  <2>1. a = call[q].attempt /\ call[q].phase \in {"await", "done", "failed"}
    BY <1>1, <1>2, Zenon DEF OneAttempt
  <2> QED
    BY <1>3, <1>4, <2>1, Zenon
<1>11. AnsweredOnce'
  <2>1. res'["server"] = res["server"]
    BY <1>7, Zenon DEF Hosts
  <2>2. UNCHANGED <<serving, executed, broken>>
    BY <1>1, Zenon
  <2> QED
    BY <1>2, <2>1, <2>2, Zenon DEF AnsweredOnce
<1>12. DeliveredOnce'
  <2> SUFFICES ASSUME NEW i \in DOMAIN res'["client"]
               PROVE  /\ res'["client"][i].of \in Calls /\ call'[res'["client"][i].of].phase = "done"
                      /\ \A j \in DOMAIN res'["client"] : res'["client"][j].of = res'["client"][i].of => j = i
    BY Zenon DEF DeliveredOnce
  <2>1. \A j \in DOMAIN res["client"] : res["client"][j].of # r
    BY <1>1, <1>2, Zenon DEF DeliveredOnce
  <2>2. CASE i \in DOMAIN res["client"]
    <3>1. res'["client"][i].of = res["client"][i].of
      BY <1>7, <2>2, Zenon
    <3>2. res["client"][i].of \in Calls /\ call'[res["client"][i].of].phase = "done"
      BY <1>2, <1>9, <2>2, Zenon DEF DeliveredOnce
    <3>3. \A j \in DOMAIN res["client"] : res["client"][j].of = res["client"][i].of => j = i
      BY <1>2, <2>2, Zenon DEF DeliveredOnce
    <3> QED
      BY <1>7, <2>1, <2>2, <3>1, <3>2, <3>3, Zenon
  <2>3. CASE i = Len(res["client"]) + 1
    BY <1>3, <1>4, <1>7, <2>1, <2>3, Zenon
  <2> QED
    BY <1>7, <2>2, <2>3, Zenon
<1> QED
  BY <1>1, <1>2, <1>7, <1>8, <1>9, <1>10, <1>11, <1>12, RepliesKept, CarriedOnceKept, ExecutedOnceKept,
     Zenon DEF CallsInv

\* A stream that arrives puts its request in the channel: it had not arrived before, so
\* it is nowhere else.
LEMMA ArriveKeeps ==
  ASSUME CallsInv, NEW s \in Streams, Arrive(s)
  PROVE  CallsInv'
<1>1. /\ stream[s] = "written"
      /\ \/ stream' = [stream EXCEPT ![s] = "waiting"] /\ channel' = Append(channel, s)
         \/ stream' = [stream EXCEPT ![s] = "closed"] /\ UNCHANGED channel
      /\ UNCHANGED <<up, routed, cursor, serving, req, res, sent, call, reply, pending, handled>>
      /\ UNCHANGED <<seen, got, executed, broken>>
  BY Zenon DEF Arrive, server, rings, history
<1>2. /\ CallsTyped /\ Replies /\ Fresh /\ OneAttempt /\ CarriedOnce
      /\ ExecutedOnce /\ AnsweredOnce /\ DeliveredOnce /\ TakenOnce
  BY Zenon DEF CallsInv
<1>3. /\ stream' \in [Streams -> StreamStates] /\ stream'[s] \in {"waiting", "closed"}
      /\ \A t \in Streams : t # s => stream'[t] = stream[t]
  <2>1. stream \in [Streams -> StreamStates]
    BY <1>2, Zenon DEF CallsTyped
  <2>2. CASE stream' = [stream EXCEPT ![s] = "waiting"]
    BY <2>1, <2>2, Zenon DEF StreamStates
  <2>3. CASE stream' = [stream EXCEPT ![s] = "closed"]
    BY <2>1, <2>3, Zenon DEF StreamStates
  <2> QED
    BY <1>1, <2>2, <2>3, Zenon
<1>4. \A t \in Streams : /\ stream'[t] # "none" => stream[t] # "none"
                         /\ stream'[t] \in {"none", "written"} => stream[t] \in {"none", "written"}
  BY <1>1, <1>3, Zenon
<1>5. Replies'
  BY <1>1, <1>2, <1>3, Zenon DEF Replies
<1>6. CASE UNCHANGED channel
  <2>1. CallsTyped'
    BY <1>1, <1>2, <1>3, <1>6, Zenon DEF CallsTyped
  <2>2. OneAttempt' /\ CarriedOnce'
    BY <1>1, <1>2, <1>4, <1>6, StreamsMove, Zenon
  <2> QED
    BY <1>1, <1>2, <1>5, <2>1, <2>2, FreshKept, ExecutedOnceKept, AnsweredOnceKept, DeliveredOnceKept,
       TakenOnceKept, Zenon DEF CallsInv
<1>7. CASE channel' = Append(channel, s)
  <2>1. channel \in Seq(Streams)
    BY <1>2, Zenon DEF CallsTyped
  <2>2. /\ channel' \in Seq(Streams)
        /\ \A i \in DOMAIN channel : i \in DOMAIN channel' /\ channel'[i] = channel[i]
        /\ channel'[Len(channel) + 1] = s
        /\ \A i \in DOMAIN channel' : i \in DOMAIN channel \/ i = Len(channel) + 1
    <3>1. /\ Append(channel, s) \in Seq(Streams)
          /\ DOMAIN channel = 1..Len(channel) /\ Len(channel) \in Nat
          /\ DOMAIN Append(channel, s) = 1..(Len(channel) + 1)
          /\ \A i \in 1..Len(channel) : Append(channel, s)[i] = channel[i]
          /\ Append(channel, s)[Len(channel) + 1] = s
      BY <2>1, AppendKnown, SMT
    <3> QED
      BY <1>7, <3>1, SMT
  <2>3. CallsTyped'
    BY <1>1, <1>2, <1>3, <2>2, Zenon DEF CallsTyped
  <2>4. \A r \in Calls : \A a \in 1..MaxAttempts : <<r, a>> \in Streams
    BY Zenon DEF Streams
  <2>5. OneAttempt'
    BY <1>1, <1>2, <1>4, <2>4, Zenon DEF OneAttempt
  <2>6. \A r \in Calls : Arrived(r) => Arrived(r)'
    BY <1>4, <2>4, Zenon DEF Arrived
  <2> DEFINE r == s[1]
  <2>7. PICK a \in 1..MaxAttempts : s = <<r, a>> /\ r \in Calls
    BY SMT DEF Streams
  <2>8. s[1] = r
    OBVIOUS
  <2> HIDE DEF r
  <2>9. Arrived(r)'
    BY <1>3, <2>7, Zenon DEF Arrived
  <2>10. r \notin broken => ~ Arrived(r)
    <3>1. ASSUME r \notin broken, NEW b \in 1..MaxAttempts PROVE stream[<<r, b>>] \in {"none", "written"}
      <4>1. stream[s] # "none" => a = call[r].attempt
        BY <1>2, <2>7, <3>1, Zenon DEF OneAttempt
      <4>2. stream[<<r, b>>] # "none" => b = call[r].attempt
        BY <1>2, <2>7, <3>1, Zenon DEF OneAttempt
      <4> QED
        BY <1>1, <2>7, <4>1, <4>2, Zenon
    <3> QED
      BY <3>1, Zenon DEF Arrived
  <2>11. InChannel /\ InHand /\ InRing
    BY <1>2, Zenon DEF CarriedOnce
  <2>12. r \notin broken => /\ \A i \in DOMAIN channel : channel[i][1] # r
                            /\ handled # Nothing => handled[1] # r
                            /\ \A k \in DOMAIN req : req[k].of # r
    <3>1. r \notin broken => \A i \in DOMAIN channel : channel[i][1] # r
      BY <2>10, <2>11, Zenon DEF InChannel
    <3>2. r \notin broken => (handled # Nothing => handled[1] # r)
      BY <2>10, <2>11, Zenon DEF InHand
    <3>3. r \notin broken => \A k \in DOMAIN req : req[k].of # r
      BY <2>7, <2>10, <2>11, Zenon DEF InRing
    <3> QED
      BY <3>1, <3>2, <3>3, Zenon
  <2>13. /\ \A i \in DOMAIN channel : channel[i][1] \in Calls
         /\ handled # Nothing => handled[1] \in Calls
    BY <1>2, CarriersKnown, Zenon
  <2>14. InChannel'
    <3> SUFFICES ASSUME NEW i \in DOMAIN channel', NEW q, q = channel'[i][1], q \notin broken'
                 PROVE  /\ Arrived(q)'
                        /\ \A j \in DOMAIN channel' : channel'[j][1] = q => j = i
                        /\ handled' # Nothing => handled'[1] # q
                        /\ \A k \in DOMAIN req' : req'[k].of # q
      BY Zenon DEF InChannel
    <3>1. CASE i \in DOMAIN channel
      <4>1. q = channel[i][1] /\ q \notin broken /\ q \in Calls
        BY <1>1, <2>2, <2>13, <3>1, Zenon
      <4>2. q # r
        BY <2>12, <3>1, <4>1, Zenon
      <4>3. /\ Arrived(q)
            /\ \A j \in DOMAIN channel : channel[j][1] = q => j = i
            /\ handled # Nothing => handled[1] # q
            /\ \A k \in DOMAIN req : req[k].of # q
        BY <2>11, <3>1, <4>1, Zenon DEF InChannel
      <4>4. \A j \in DOMAIN channel' : channel'[j][1] = q => j = i
        BY <2>2, <2>8, <4>2, <4>3, Zenon
      <4> QED
        BY <1>1, <2>6, <4>1, <4>3, <4>4, Zenon
    <3>2. CASE i = Len(channel) + 1
      <4>1. q = r /\ r \notin broken
        BY <1>1, <2>2, <2>8, <3>2, Zenon
      <4>2. \A j \in DOMAIN channel' : channel'[j][1] = q => j = i
        BY <2>2, <2>12, <3>2, <4>1, Zenon
      <4> QED
        BY <1>1, <2>9, <2>12, <4>1, <4>2, Zenon
    <3> QED
      BY <2>2, <3>1, <3>2, Zenon
  <2>15. InHand'
    BY <1>1, <2>6, <2>11, <2>13, Zenon DEF InHand
  <2>16. InRing'
    BY <1>1, <2>6, <2>11, Zenon DEF InRing
  <2>17. CarriedOnce'
    BY <2>14, <2>15, <2>16, Zenon DEF CarriedOnce
  <2> QED
    BY <1>1, <1>2, <1>5, <2>3, <2>5, <2>17, FreshKept, ExecutedOnceKept, AnsweredOnceKept, DeliveredOnceKept,
       TakenOnceKept, Zenon DEF CallsInv
<1> QED
  BY <1>1, <1>6, <1>7, Zenon

\* A server that times out or replies ends the stream with what it has.
LEMMA StreamEndKeeps ==
  ASSUME CallsInv, NEW s \in Streams, ServerTimeout(s) \/ Reply(s)
  PROVE  CallsInv'
<1>1. /\ \/ stream[s] = "waiting" /\ stream' = [stream EXCEPT ![s] = "closed"]
         \/ stream[s] = "answered" /\ stream' = [stream EXCEPT ![s] = "replied"]
      /\ UNCHANGED <<up, routed, cursor, serving, req, res, sent, call, reply, channel, pending, handled>>
      /\ UNCHANGED <<seen, got, executed, broken>>
  BY Zenon DEF ServerTimeout, Reply, server, rings, history
<1>2. /\ CallsTyped /\ Replies /\ Fresh /\ OneAttempt /\ CarriedOnce
      /\ ExecutedOnce /\ AnsweredOnce /\ DeliveredOnce /\ TakenOnce
  BY Zenon DEF CallsInv
<1>3. /\ stream' \in [Streams -> StreamStates]
      /\ \/ stream[s] = "waiting" /\ stream'[s] = "closed"
         \/ stream[s] = "answered" /\ stream'[s] = "replied"
      /\ \A t \in Streams : t # s => stream'[t] = stream[t]
  <2>1. stream \in [Streams -> StreamStates]
    BY <1>2, Zenon DEF CallsTyped
  <2>2. CASE stream[s] = "waiting" /\ stream' = [stream EXCEPT ![s] = "closed"]
    BY <2>1, <2>2, Zenon DEF StreamStates
  <2>3. CASE stream[s] = "answered" /\ stream' = [stream EXCEPT ![s] = "replied"]
    BY <2>1, <2>3, Zenon DEF StreamStates
  <2> QED
    BY <1>1, <2>2, <2>3, Zenon
<1>4. \A t \in Streams : /\ stream'[t] # "none" => stream[t] # "none"
                         /\ stream'[t] \in {"none", "written"} => stream[t] \in {"none", "written"}
  BY <1>3, Zenon
<1>5. Replies'
  BY <1>1, <1>2, <1>3, Zenon DEF Replies
<1>6. CallsTyped'
  BY <1>1, <1>2, <1>3, Zenon DEF CallsTyped
<1>7. OneAttempt' /\ CarriedOnce'
  BY <1>1, <1>2, <1>4, StreamsMove, Zenon
<1> QED
  BY <1>1, <1>2, <1>5, <1>6, <1>7, FreshKept, ExecutedOnceKept, AnsweredOnceKept, DeliveredOnceKept,
     TakenOnceKept, Zenon DEF CallsInv

\* The handler takes the first request of the channel, and it is in the channel no more.
LEMMA HandlerReceiveKeeps ==
  ASSUME CallsInv, HandlerReceive
  PROVE  CallsInv'
<1>1. /\ handled = Nothing /\ channel # <<>>
      /\ channel' = Tail(channel) /\ pending' = Append(pending, Head(channel)) /\ handled' = Head(channel)
      /\ UNCHANGED <<up, routed, cursor, serving, req, res, sent, call, stream, reply>>
      /\ UNCHANGED <<seen, got, executed, broken>>
  BY Zenon DEF HandlerReceive, server, rings, history
<1>2. /\ CallsTyped /\ Replies /\ Fresh /\ OneAttempt /\ CarriedOnce
      /\ ExecutedOnce /\ AnsweredOnce /\ DeliveredOnce /\ TakenOnce
  BY Zenon DEF CallsInv
<1>3. channel \in Seq(Streams) /\ pending \in Seq(Streams \cup {Nothing})
  BY <1>2, Zenon DEF CallsTyped
<1>4. /\ Tail(channel) \in Seq(Streams) /\ Head(channel) \in Streams
      /\ Len(channel) \in Nat \ {0} /\ DOMAIN channel = 1..Len(channel)
      /\ DOMAIN Tail(channel) = 1..(Len(channel) - 1)
      /\ \A i \in 1..(Len(channel) - 1) : Tail(channel)[i] = channel[i + 1]
      /\ Head(channel) = channel[1]
  BY <1>1, <1>3, TailKnown, SMT
<1>5. /\ channel' \in Seq(Streams) /\ handled' \in Streams /\ handled' = channel[1] /\ 1 \in DOMAIN channel
      /\ \A i \in DOMAIN channel' : /\ i + 1 \in DOMAIN channel /\ i + 1 # 1
                                    /\ channel'[i] = channel[i + 1]
      /\ \A i, j \in DOMAIN channel' : i + 1 = j + 1 => i = j
  BY <1>1, <1>4, SMT
<1>6. pending' \in Seq(Streams \cup {Nothing})
  BY <1>1, <1>3, <1>4, SMT
<1>7. CallsTyped'
  BY <1>1, <1>2, <1>5, <1>6, Zenon DEF CallsTyped
<1>8. InChannel /\ InHand /\ InRing
  BY <1>2, Zenon DEF CarriedOnce
<1>9. \A q : Arrived(q)' <=> Arrived(q)
  BY <1>1, Zenon DEF Arrived
<1>10. InChannel'
  <2> SUFFICES ASSUME NEW i \in DOMAIN channel', NEW q, q = channel'[i][1], q \notin broken'
               PROVE  /\ Arrived(q)'
                      /\ \A j \in DOMAIN channel' : channel'[j][1] = q => j = i
                      /\ handled' # Nothing => handled'[1] # q
                      /\ \A k \in DOMAIN req' : req'[k].of # q
    BY Zenon DEF InChannel
  <2>1. i + 1 \in DOMAIN channel /\ i + 1 # 1 /\ q = channel[i + 1][1] /\ q \notin broken
    BY <1>1, <1>5, Zenon
  <2>2. /\ Arrived(q)
        /\ \A j \in DOMAIN channel : channel[j][1] = q => j = i + 1
        /\ \A k \in DOMAIN req : req[k].of # q
    BY <1>8, <2>1, Zenon DEF InChannel
  <2>3. \A j \in DOMAIN channel' : channel'[j][1] = q => j = i
    BY <1>5, <2>2, Zenon
  <2>4. handled'[1] # q
    BY <1>5, <2>1, <2>2, Zenon
  <2> QED
    BY <1>1, <1>9, <2>2, <2>3, <2>4, Zenon
<1>11. InHand'
  <2> SUFFICES ASSUME NEW q, q = handled'[1], q \notin broken'
               PROVE  Arrived(q)' /\ \A k \in DOMAIN req' : req'[k].of # q
    BY Zenon DEF InHand
  <2>1. q = channel[1][1] /\ q \notin broken
    BY <1>1, <1>5, Zenon
  <2>2. Arrived(q) /\ \A k \in DOMAIN req : req[k].of # q
    BY <1>5, <1>8, <2>1, Zenon DEF InChannel
  <2> QED
    BY <1>1, <1>9, <2>2, Zenon
<1>12. InRing'
  BY <1>1, <1>8, <1>9, Zenon DEF InRing
<1>13. CarriedOnce'
  BY <1>10, <1>11, <1>12, Zenon DEF CarriedOnce
<1> QED
  BY <1>1, <1>2, <1>7, <1>13, RepliesKept, FreshKept, OneAttemptKept, ExecutedOnceKept,
     AnsweredOnceKept, DeliveredOnceKept, TakenOnceKept, Zenon DEF CallsInv

\* The handler puts the request that it has in hand in the ring, which did not have it.
LEMMA HandlerPublishKeeps ==
  ASSUME CallsInv, HandlerPublish
  PROVE  CallsInv'
<1>1. /\ handled # Nothing /\ req' = Append(req, Reserved(handled[1])) /\ handled' = Nothing
      /\ UNCHANGED <<up, routed, cursor, serving, res, sent, call, stream, reply, channel, pending>>
      /\ UNCHANGED <<seen, got, executed, broken>>
  BY Zenon DEF HandlerPublish, server, history
<1>2. /\ CallsTyped /\ Replies /\ Fresh /\ OneAttempt /\ CarriedOnce
      /\ ExecutedOnce /\ AnsweredOnce /\ DeliveredOnce /\ TakenOnce
  BY Zenon DEF CallsInv
<1> DEFINE r == handled[1]
<1>3. r \in Calls /\ r \in Requests /\ \A i \in DOMAIN channel : channel[i][1] \in Calls
  BY <1>1, <1>2, CarriersKnown, Zenon DEF Calls
<1>4. /\ req' \in Seq(Entries) /\ cursor' \in 0..Len(req')
      /\ \A k \in DOMAIN req : k \in DOMAIN req' /\ req'[k] = req[k]
      /\ req'[Len(req) + 1].of = r
      /\ \A k \in DOMAIN req' : k \in DOMAIN req \/ k = Len(req) + 1
      /\ ExecutedOnce'
  BY <1>1, <1>2, <1>3, ReqAppends, Zenon
<1>5. CallsTyped'
  BY <1>1, <1>2, <1>4, Zenon DEF CallsTyped
<1>6. InChannel /\ InHand /\ InRing
  BY <1>2, Zenon DEF CarriedOnce
<1>7. r \notin broken => /\ Arrived(r)
                         /\ \A k \in DOMAIN req : req[k].of # r
                         /\ \A i \in DOMAIN channel : channel[i][1] # r
  <2>1. r \notin broken => Arrived(r) /\ \A k \in DOMAIN req : req[k].of # r
    BY <1>1, <1>6, Zenon DEF InHand
  <2>2. r \notin broken => \A i \in DOMAIN channel : channel[i][1] # r
    BY <1>1, <1>6, Zenon DEF InChannel
  <2> QED
    BY <2>1, <2>2, Zenon
<1> HIDE DEF r
<1>8. \A q : Arrived(q)' <=> Arrived(q)
  BY <1>1, Zenon DEF Arrived
<1>9. Fresh'
  <2> SUFFICES ASSUME NEW q \in Requests, q[2] > sent'[q[1]]
               PROVE  /\ q \in Calls => call'[q].phase = "idle"
                      /\ q \notin Calls => \A k \in DOMAIN req' : req'[k].of # q
    BY Zenon DEF Fresh
  <2>1. q[2] > sent[q[1]]
    BY <1>1, Zenon
  <2>2. q \in Calls => call'[q].phase = "idle"
    BY <1>1, <1>2, <2>1, Zenon DEF Fresh
  <2>3. q \notin Calls => \A k \in DOMAIN req : req[k].of # q
    BY <1>2, <2>1, Zenon DEF Fresh
  <2> QED
    BY <1>3, <1>4, <2>2, <2>3, Zenon
<1>10. InChannel'
  <2> SUFFICES ASSUME NEW i \in DOMAIN channel', NEW q, q = channel'[i][1], q \notin broken'
               PROVE  /\ Arrived(q)'
                      /\ \A j \in DOMAIN channel' : channel'[j][1] = q => j = i
                      /\ handled' # Nothing => handled'[1] # q
                      /\ \A k \in DOMAIN req' : req'[k].of # q
    BY Zenon DEF InChannel
  <2>1. i \in DOMAIN channel /\ q = channel[i][1] /\ q \notin broken
    BY <1>1, Zenon
  <2>2. /\ Arrived(q)
        /\ \A j \in DOMAIN channel : channel[j][1] = q => j = i
        /\ \A k \in DOMAIN req : req[k].of # q
    BY <1>6, <2>1, Zenon DEF InChannel
  <2>3. q # r
    BY <1>7, <2>1, Zenon
  <2>4. \A k \in DOMAIN req' : req'[k].of # q
    BY <1>4, <2>2, <2>3, Zenon
  <2> QED
    BY <1>1, <1>8, <2>2, <2>4, Zenon
<1>11. InHand'
  BY <1>1, Zenon DEF InHand
<1>12. InRing'
  <2>1. /\ UNCHANGED <<stream, broken>>
        /\ r \notin broken => (r \in Calls => Arrived(r)) /\ \A k \in DOMAIN req : req[k].of # r
    BY <1>1, <1>7, Zenon
  <2>2. /\ \A k \in DOMAIN req : k \in DOMAIN req' /\ req'[k] = req[k]
        /\ \A k \in DOMAIN req' : k \in DOMAIN req \/ k = Len(req) + 1
        /\ req'[Len(req) + 1].of = r
    BY <1>4, Zenon
  <2> QED
    BY <1>6, <2>1, <2>2, RingGrows, Zenon
<1>13. CarriedOnce'
  BY <1>10, <1>11, <1>12, Zenon DEF CarriedOnce
<1> QED
  BY <1>1, <1>2, <1>4, <1>5, <1>9, <1>13, RepliesKept, OneAttemptKept,
     AnsweredOnceKept, DeliveredOnceKept, TakenOnceKept, Zenon DEF CallsInv

\* A cursor that skips to the end of the ring executes nothing.
LEMMA CursorKeeps ==
  ASSUME CallsInv, cursor' = Len(req), UNCHANGED <<routed, serving, req, res, sent>>,
         UNCHANGED <<call, stream, reply, channel, pending, handled>>,
         UNCHANGED <<seen, got, executed, broken>>, up' \in BOOLEAN
  PROVE  CallsInv'
<1>1. /\ CallsTyped /\ Replies /\ Fresh /\ OneAttempt /\ CarriedOnce
      /\ ExecutedOnce /\ AnsweredOnce /\ DeliveredOnce /\ TakenOnce
  BY Zenon DEF CallsInv
<1>2. cursor' \in 0..Len(req) /\ \A k \in 1..cursor : k \in 1..cursor'
  BY <1>1, SMT DEF CallsTyped
<1>3. CallsTyped'
  BY <1>1, <1>2, Zenon DEF CallsTyped
<1>4. ExecutedOnce'
  <2> SUFFICES ASSUME NEW r \in Requests
               PROVE  /\ r \notin broken' => executed'[r] <= 1
                      /\ executed'[r] > 0 => \E k \in 1..cursor' : req'[k].of = r
    BY Zenon DEF ExecutedOnce
  <2>1. /\ r \notin broken => executed[r] <= 1
        /\ executed[r] > 0 => \E k \in 1..cursor : req[k].of = r
    BY <1>1, Zenon DEF ExecutedOnce
  <2>2. UNCHANGED <<broken, executed, req>>
    OBVIOUS
  <2>3. /\ r \notin broken' => executed'[r] <= 1
    BY <2>1, <2>2, Zenon
  <2>4. ASSUME executed[r] > 0 PROVE \E k \in 1..cursor' : req[k].of = r
    <3>1. PICK k \in 1..cursor : req[k].of = r
      BY <2>1, <2>4, Zenon
    <3>2. k \in 1..cursor'
      BY <1>2, <3>1, Zenon
    <3> QED
      BY <3>1, <3>2, Zenon
  <2> QED
    BY <2>2, <2>3, <2>4, Zenon
<1> QED
  BY <1>1, <1>3, <1>4, RepliesKept, FreshKept, OneAttemptKept, CarriedOnceKept,
     AnsweredOnceKept, DeliveredOnceKept, TakenOnceKept, Zenon DEF CallsInv

\* take_request executes the entry after the cursor: its request has not been executed,
\* for no entry up to the cursor is of it.
LEMMA ExecuteKeeps ==
  ASSUME CallsInv, cursor < Len(req), serving = Nothing, cursor' = cursor + 1,
         NEW r, r = req[cursor + 1].of,
         serving' = [request |-> r, step |-> "respond"],
         executed' = [executed EXCEPT ![r] = @ + 1],
         UNCHANGED <<up, routed, req, res, sent, call, stream, reply, channel, pending, handled>>,
         UNCHANGED <<seen, got, broken>>
  PROVE  CallsInv'
<1>1. /\ CallsTyped /\ Replies /\ Fresh /\ OneAttempt /\ CarriedOnce
      /\ ExecutedOnce /\ AnsweredOnce /\ DeliveredOnce /\ TakenOnce
  BY Zenon DEF CallsInv
<1>2. req \in Seq(Entries) /\ cursor \in 0..Len(req) /\ executed \in [Requests -> Nat]
  BY <1>1, Zenon DEF CallsTyped
<1>3. /\ cursor' \in 0..Len(req) /\ cursor + 1 \in DOMAIN req /\ cursor + 1 \in 1..cursor'
      /\ \A k \in 1..cursor : k \in 1..cursor' /\ k \in DOMAIN req /\ k # cursor + 1
  BY <1>2, SMT
<1>4. r \in Requests
  BY <1>1, <1>3, CarriersKnown, Zenon
<1>5. /\ executed' \in [Requests -> Nat] /\ executed'[r] = executed[r] + 1
      /\ \A q \in Requests : q # r => executed'[q] = executed[q]
      /\ executed'[r] > 0
  BY <1>2, <1>4, SMT
<1>6. serving' \in [request : Requests, step : {"respond", "complete"}]
  BY <1>4, Zenon
<1>7. CallsTyped'
  BY <1>1, <1>3, <1>5, <1>6, Zenon DEF CallsTyped
<1>8. r \notin broken => ~ (executed[r] > 0)
  <2> SUFFICES ASSUME r \notin broken, executed[r] > 0 PROVE FALSE
    OBVIOUS
  <2>1. PICK k \in 1..cursor : req[k].of = r
    BY <1>1, <1>4, Zenon DEF ExecutedOnce
  <2>2. k = cursor + 1
    BY <1>1, <1>3, <2>1, Zenon DEF CarriedOnce, InRing
  <2> QED
    BY <1>3, <2>1, <2>2, Zenon
<1>9. \A q \in Requests : executed[q] > 0 => executed'[q] > 0
  BY <1>5, Zenon
<1>10. ExecutedOnce'
  <2> SUFFICES ASSUME NEW q \in Requests
               PROVE  /\ q \notin broken' => executed'[q] <= 1
                      /\ executed'[q] > 0 => \E k \in 1..cursor' : req'[k].of = q
    BY Zenon DEF ExecutedOnce
  <2>1. CASE q = r
    <3>1. q \notin broken' => executed'[q] <= 1
      BY <1>2, <1>4, <1>5, <1>8, <2>1, SMT
    <3>2. cursor + 1 \in 1..cursor' /\ req'[cursor + 1].of = q
      BY <1>3, <2>1, Zenon
    <3> QED
      BY <3>1, <3>2, Zenon
  <2>2. CASE q # r
    <3>1. executed'[q] = executed[q] /\ broken' = broken /\ req' = req
      BY <1>5, <2>2, Zenon
    <3>2. /\ q \notin broken => executed[q] <= 1
          /\ executed[q] > 0 => \E k \in 1..cursor : req[k].of = q
      BY <1>1, Zenon DEF ExecutedOnce
    <3>3. executed[q] > 0 => \E k \in 1..cursor' : req[k].of = q
      BY <1>3, <3>2, Zenon
    <3> QED
      BY <3>1, <3>2, <3>3, Zenon
  <2> QED
    BY <2>1, <2>2, Zenon
<1>11. \A i \in DOMAIN res["server"] : res["server"][i].of \in Requests
  BY <1>1, CarriersKnown, Zenon DEF Hosts
<1>12. r \notin broken => \A i \in DOMAIN res["server"] : res["server"][i].of # r
  BY <1>1, <1>8, Zenon DEF AnsweredOnce
<1>13. serving'.request = r
  OBVIOUS
<1>14. AnsweredOnce'
  <2>1. \A i \in DOMAIN res["server"] :
       /\ executed'[res["server"][i].of] > 0
       /\ res["server"][i].of \notin broken =>
            \A j \in DOMAIN res["server"] : res["server"][j].of = res["server"][i].of => j = i
    BY <1>1, <1>9, <1>11, Zenon DEF AnsweredOnce
  <2>2. UNCHANGED res /\ UNCHANGED broken
    OBVIOUS
  <2>3. executed'[serving'.request] > 0
    BY <1>5, <1>13, Zenon
  <2>4. serving'.request \notin broken =>
          \A i \in DOMAIN res["server"] : res["server"][i].of # serving'.request
    BY <1>12, <1>13, Zenon
  <2> QED
    BY <2>1, <2>2, <2>3, <2>4, Zenon DEF AnsweredOnce
<1> QED
  BY <1>1, <1>7, <1>10, <1>14, RepliesKept, FreshKept, OneAttemptKept, CarriedOnceKept,
     DeliveredOnceKept, TakenOnceKept, Zenon DEF CallsInv

\* Either outcome of take_request keeps the invariant.
LEMMA TakeRequestKeeps ==
  ASSUME CallsInv, TakeRequest
  PROVE  CallsInv'
<1>1. /\ serving = Nothing /\ cursor < Len(req)
      /\ UNCHANGED <<up, routed, req, res, sent, call, stream, reply, channel, pending, handled>>
      /\ UNCHANGED <<seen, got, broken>>
      /\ \/ cursor' = Len(req) /\ UNCHANGED <<serving, executed>>
         \/ /\ cursor' = cursor + 1
            /\ serving' = [request |-> req[cursor + 1].of, step |-> "respond"]
            /\ executed' = [executed EXCEPT ![req[cursor + 1].of] = @ + 1]
  BY Zenon DEF TakeRequest, rings, remote
<1>2. up \in BOOLEAN
  BY Zenon DEF CallsInv, CallsTyped
<1>3. CASE cursor' = Len(req) /\ UNCHANGED <<serving, executed>>
  BY <1>1, <1>2, <1>3, CursorKeeps, Zenon
<1>4. CASE /\ cursor' = cursor + 1
           /\ serving' = [request |-> req[cursor + 1].of, step |-> "respond"]
           /\ executed' = [executed EXCEPT ![req[cursor + 1].of] = @ + 1]
  BY <1>1, <1>4, ExecuteKeeps, Zenon
<1> QED
  BY <1>1, <1>3, <1>4, Zenon

\* A service that is created again starts at the end of the ring.
LEMMA CreateServiceKeeps ==
  ASSUME CallsInv, create_service
  PROVE  CallsInv'
<1>1. /\ cursor' = Len(req) /\ up' = TRUE
      /\ UNCHANGED <<routed, serving, req, res, sent>>
      /\ UNCHANGED <<call, stream, reply, channel, pending, handled>>
      /\ UNCHANGED <<seen, got, executed, broken>>
  BY Zenon DEF create_service, rings, remote
<1> QED
  BY <1>1, CursorKeeps, Zenon

\* send_response puts the response to the request being served in the server's ring,
\* which did not have it.
LEMMA SendResponseKeeps ==
  ASSUME CallsInv, SendResponse
  PROVE  CallsInv'
<1>1. /\ serving # Nothing /\ serving.step = "respond"
      /\ res' = [res EXCEPT !["server"] = Append(@, Reserved(serving.request))]
      /\ serving' = [serving EXCEPT !.step = "complete"]
      /\ UNCHANGED <<up, routed, cursor, req, sent, call, stream, reply, channel, pending, handled>>
      /\ UNCHANGED <<seen, got, executed, broken>>
  BY Zenon DEF SendResponse, remote, history
<1>2. /\ CallsTyped /\ Replies /\ Fresh /\ OneAttempt /\ CarriedOnce
      /\ ExecutedOnce /\ AnsweredOnce /\ DeliveredOnce /\ TakenOnce
  BY Zenon DEF CallsInv
<1> DEFINE r == serving.request
<1>3. serving \in [request : Requests, step : {"respond", "complete"}] /\ r \in Requests
  BY <1>1, <1>2, Zenon DEF CallsTyped
<1>4. /\ serving' \in [request : Requests, step : {"respond", "complete"}]
      /\ serving'.request = r /\ serving'.step = "complete"
  BY <1>1, <1>3, Zenon
<1>5. r = serving.request /\ executed[r] > 0
  BY <1>1, <1>2, Zenon DEF AnsweredOnce
<1>6. r \notin broken => \A i \in DOMAIN res["server"] : res["server"][i].of # r
  BY <1>1, <1>2, Zenon DEF AnsweredOnce
<1>7. res' = [res EXCEPT !["server"] = Append(@, Reserved(r))]
  BY <1>1, Zenon
<1> HIDE DEF r
<1>8. /\ res' \in [Hosts -> Seq(Entries)]
      /\ \A c \in Clients : seen'[c] <= Len(res'[HostOf(c)])
      /\ \A g \in Hosts : g # "server" => res'[g] = res[g]
      /\ \A i \in DOMAIN res["server"] : i \in DOMAIN res'["server"] /\ res'["server"][i] = res["server"][i]
      /\ res'["server"][Len(res["server"]) + 1].of = r
      /\ \A i \in DOMAIN res'["server"] : i \in DOMAIN res["server"] \/ i = Len(res["server"]) + 1
      /\ TakenOnce'
  <2>1. "server" \in Hosts /\ UNCHANGED <<seen, got>>
    BY <1>1, Zenon DEF Hosts
  <2> QED
    BY <1>2, <1>3, <1>7, <2>1, ResAppends, Zenon
<1>9. CallsTyped'
  BY <1>1, <1>2, <1>4, <1>8, Zenon DEF CallsTyped, HostOf
<1>10. UNCHANGED executed /\ UNCHANGED broken
  BY <1>1, Zenon
<1>11. AnsweredOnce'
  <2>1. ASSUME NEW i \in DOMAIN res'["server"]
        PROVE  /\ executed[res'["server"][i].of] > 0
               /\ res'["server"][i].of \notin broken =>
                    \A j \in DOMAIN res'["server"] : res'["server"][j].of = res'["server"][i].of => j = i
    <3>1. CASE i \in DOMAIN res["server"]
      <4> DEFINE q == res["server"][i].of
      <4>1. res'["server"][i].of = q
        BY <1>8, <3>1, Zenon
      <4>2. executed[q] > 0 /\ (q \notin broken => \A j \in DOMAIN res["server"] : res["server"][j].of = q => j = i)
        BY <1>2, <3>1, Zenon DEF AnsweredOnce
      <4>3. q \notin broken => q # r
        BY <1>6, <3>1, Zenon
      <4> HIDE DEF q
      <4> QED
        BY <1>8, <4>1, <4>2, <4>3, Zenon
    <3>2. CASE i = Len(res["server"]) + 1
      BY <1>5, <1>6, <1>8, <3>2, Zenon
    <3> QED
      BY <1>8, <3>1, <3>2, Zenon
  <2>2. executed[serving'.request] > 0 /\ serving'.step # "respond"
    BY <1>4, <1>5, Zenon
  <2> QED
    BY <1>10, <2>1, <2>2, Zenon DEF AnsweredOnce
<1>12. DeliveredOnce'
  <2>1. res'["client"] = res["client"]
    BY <1>8, Zenon DEF Hosts
  <2>2. UNCHANGED call
    BY <1>1, Zenon
  <2> QED
    BY <1>2, <2>1, <2>2, Zenon DEF DeliveredOnce
<1> QED
  BY <1>1, <1>2, <1>8, <1>9, <1>11, <1>12, RepliesKept, FreshKept, OneAttemptKept, CarriedOnceKept,
     ExecutedOnceKept, Zenon DEF CallsInv

\* What retain keeps of the pending requests.
LEMMA RetainedTyped ==
  ASSUME CallsTyped, NEW kept
  PROVE  Retained(kept) \in Seq(Streams \cup {Nothing})
<1>1. pending \in Seq(Streams \cup {Nothing})
  BY Zenon DEF CallsTyped
<1>2. /\ Len(pending) \in Nat /\ DOMAIN pending = 1..Len(pending)
      /\ \A i \in DOMAIN pending : pending[i] \in Streams \cup {Nothing}
  BY <1>1, SMT
<1>3. Retained(kept) \in [1..Len(pending) -> Streams \cup {Nothing}]
  BY <1>2, Zenon DEF Retained
<1> QED
  BY <1>2, <1>3, SMT

\* try_complete_pending_response answers a stream whose request is the one that was
\* served.
LEMMA CompleteKeeps ==
  ASSUME CallsInv, try_complete_pending_response
  PROVE  CallsInv'
<1> DEFINE matching == Matching(Open, serving.request)
<1>1. /\ serving # Nothing /\ serving' = Nothing
      /\ \/ pending' = Retained(Open) /\ UNCHANGED <<stream, reply>>
         \/ \E i \in matching :
              /\ pending' = Retained(Open \ {i})
              /\ stream' = [stream EXCEPT ![pending[i]] = "answered"]
              /\ reply' = [reply EXCEPT ![pending[i]] = serving.request]
      /\ UNCHANGED <<up, cursor, routed, req, res, sent, call, channel, handled, seen, got, executed, broken>>
  BY Zenon DEF try_complete_pending_response, rings, history
<1>2. /\ CallsTyped /\ Replies /\ Fresh /\ OneAttempt /\ CarriedOnce
      /\ ExecutedOnce /\ AnsweredOnce /\ DeliveredOnce /\ TakenOnce
  BY Zenon DEF CallsInv
<1>3. pending' \in Seq(Streams \cup {Nothing})
  BY <1>1, <1>2, RetainedTyped, Zenon
<1>4. AnsweredOnce'
  BY <1>1, <1>2, Zenon DEF AnsweredOnce
<1>5. CASE UNCHANGED <<stream, reply>>
  <2>1. CallsTyped'
    BY <1>1, <1>2, <1>3, <1>5, Zenon DEF CallsTyped
  <2> QED
    BY <1>1, <1>2, <1>4, <1>5, <2>1, RepliesKept, FreshKept, OneAttemptKept, CarriedOnceKept,
       ExecutedOnceKept, DeliveredOnceKept, TakenOnceKept, Zenon DEF CallsInv
<1>6. ASSUME NEW i \in matching,
             stream' = [stream EXCEPT ![pending[i]] = "answered"],
             reply' = [reply EXCEPT ![pending[i]] = serving.request]
      PROVE  CallsInv'
  <2> DEFINE s == pending[i]
  <2>1. i \in DOMAIN pending /\ s # Nothing /\ stream[s] = "waiting" /\ s[1] = serving.request
    BY Zenon DEF Matching, Open
  <2>2. s \in Streams
    <3>1. pending \in Seq(Streams \cup {Nothing})
      BY <1>2, Zenon DEF CallsTyped
    <3>2. pending[i] \in Streams \cup {Nothing}
      BY <2>1, <3>1, SMT
    <3> QED
      BY <2>1, <3>2, Zenon
  <2>3. stream' = [stream EXCEPT ![s] = "answered"] /\ reply' = [reply EXCEPT ![s] = s[1]]
    BY <1>6, <2>1, Zenon
  <2> HIDE DEF s
  <2>4. s[1] \in Requests
    BY <2>2, SMT DEF Streams, Calls
  <2>5. stream \in [Streams -> StreamStates] /\ reply \in [Streams -> Requests \cup {Nothing}]
    BY <1>2, Zenon DEF CallsTyped
  <2>6. /\ stream' \in [Streams -> StreamStates] /\ stream'[s] = "answered"
        /\ \A t \in Streams : t # s => stream'[t] = stream[t]
    BY <2>2, <2>3, <2>5, Zenon DEF StreamStates
  <2>7. /\ reply' \in [Streams -> Requests \cup {Nothing}] /\ reply'[s] = s[1]
        /\ \A t \in Streams : t # s => reply'[t] = reply[t]
    BY <2>2, <2>3, <2>4, <2>5, Zenon
  <2>8. CallsTyped'
    BY <1>1, <1>2, <1>3, <2>6, <2>7, Zenon DEF CallsTyped
  <2>9. Replies'
    BY <1>2, <2>6, <2>7, Zenon DEF Replies
  <2>10. \A t \in Streams : /\ stream'[t] # "none" => stream[t] # "none"
                            /\ stream'[t] \in {"none", "written"} => stream[t] \in {"none", "written"}
    BY <2>1, <2>6, Zenon DEF s
  <2>11. OneAttempt' /\ CarriedOnce'
    BY <1>1, <1>2, <2>10, StreamsMove, Zenon
  <2> QED
    BY <1>1, <1>2, <1>4, <2>8, <2>9, <2>11, FreshKept, ExecutedOnceKept, DeliveredOnceKept,
       TakenOnceKept, Zenon DEF CallsInv
<1> QED
  BY <1>1, <1>5, <1>6, Zenon

\* destroy_service closes the streams that wait, and keeps the rest.
LEMMA DestroyKeeps ==
  ASSUME CallsInv, destroy_service
  PROVE  CallsInv'
<1>1. /\ up' = FALSE /\ pending' = <<>>
      /\ stream' = [s \in Streams |-> IF stream[s] = "waiting" /\ s \in Range(pending) THEN "closed" ELSE stream[s]]
      /\ UNCHANGED <<cursor, serving, routed, req, res, sent, call, reply, channel, handled>>
      /\ UNCHANGED <<seen, got, executed, broken>>
  BY Zenon DEF destroy_service, rings, history
<1>2. /\ CallsTyped /\ Replies /\ Fresh /\ OneAttempt /\ CarriedOnce
      /\ ExecutedOnce /\ AnsweredOnce /\ DeliveredOnce /\ TakenOnce
  BY Zenon DEF CallsInv
<1>3. \A s \in Streams : stream'[s] = stream[s] \/ (stream[s] = "waiting" /\ stream'[s] = "closed")
  <2> SUFFICES ASSUME NEW s \in Streams
               PROVE  stream'[s] = stream[s] \/ (stream[s] = "waiting" /\ stream'[s] = "closed")
    OBVIOUS
  <2>1. stream'[s] = IF stream[s] = "waiting" /\ s \in Range(pending) THEN "closed" ELSE stream[s]
    BY <1>1, Zenon
  <2> QED
    BY <2>1, SMT
<1>4. stream' \in [Streams -> StreamStates]
  <2>1. stream \in [Streams -> StreamStates]
    BY <1>2, Zenon DEF CallsTyped
  <2> QED
    BY <1>1, <2>1, Zenon DEF StreamStates
<1>5. pending' \in Seq(Streams \cup {Nothing})
  BY <1>1, SMT
<1>6. CallsTyped'
  BY <1>1, <1>2, <1>4, <1>5, Zenon DEF CallsTyped
<1>7. Replies'
  BY <1>1, <1>2, <1>3, Zenon DEF Replies
<1>8. \A s \in Streams : /\ stream'[s] # "none" => stream[s] # "none"
                         /\ stream'[s] \in {"none", "written"} => stream[s] \in {"none", "written"}
  BY <1>3, Zenon
<1>9. UNCHANGED <<call, channel, handled, req, broken>>
  BY <1>1, Zenon
<1>10. OneAttempt' /\ CarriedOnce'
  BY <1>2, <1>8, <1>9, StreamsMove, Zenon
<1> QED
  BY <1>1, <1>2, <1>6, <1>7, <1>10, FreshKept, ExecutedOnceKept, AnsweredOnceKept, DeliveredOnceKept,
     TakenOnceKept, Zenon DEF CallsInv

\* A step that changes nothing keeps the invariant.
LEMMA CallsStutter ==
  ASSUME CallsInv, UNCHANGED vars
  PROVE  CallsInv'
<1>1. /\ UNCHANGED <<up, routed, cursor, serving, req, res, sent, call, stream, reply, channel, pending, handled>>
      /\ UNCHANGED <<seen, got, executed, broken>>
  BY Zenon DEF vars, server, rings, remote, history
<1>2. /\ CallsTyped /\ Replies /\ Fresh /\ OneAttempt /\ CarriedOnce
      /\ ExecutedOnce /\ AnsweredOnce /\ DeliveredOnce /\ TakenOnce
  BY Zenon DEF CallsInv
<1>3. CallsTyped'
  BY <1>1, <1>2, Zenon DEF CallsTyped
<1> QED
  BY <1>1, <1>2, <1>3, RepliesKept, FreshKept, OneAttemptKept, CarriedOnceKept, ExecutedOnceKept,
     AnsweredOnceKept, DeliveredOnceKept, TakenOnceKept, Zenon DEF CallsInv

\* The invariant of the service calls: the requests, executions, replies and responses of
\* every call stay matched through create_service, send_request, the transport's retries,
\* the server's timeouts and destroy_service, for any number of clients, requests and
\* attempts.
THEOREM CallsInvariant == Spec => []CallsInv
<1>1. CallsInv /\ [Next]_vars => CallsInv'
  <2> SUFFICES ASSUME CallsInv, [Next]_vars PROVE CallsInv'
    OBVIOUS
  <2>1. CASE Commit \/ Discover
    BY <2>1, CommitKeeps, DiscoverKeeps, Zenon
  <2>2. CASE HandlerStep
    BY <2>2, HandlerReceiveKeeps, HandlerPublishKeeps, Zenon DEF HandlerStep
  <2>3. CASE ServerStep
    BY <2>3, TakeRequestKeeps, SendResponseKeeps, CompleteKeeps, Zenon DEF ServerStep
  <2>4. CASE destroy_service \/ create_service
    BY <2>4, DestroyKeeps, CreateServiceKeeps, Zenon
  <2>5. ASSUME NEW c \in Clients, Send(c) \/ TakeResponse(c) PROVE CallsInv'
    BY <2>5, SendRemote, SendLocal, TakeResponseKeeps, Zenon
  <2>6. ASSUME NEW r \in Calls, CallStep(r) PROVE CallsInv'
    BY <2>6, WriteRequestKeeps, AbandonKeeps, ReadResponseKeeps, Zenon DEF CallStep
  <2>7. ASSUME NEW r \in Calls, CallFault(r) PROVE CallsInv'
    BY <2>7, ConnectFailsKeeps, ConnectionBreaksKeeps, AbandonKeeps, Zenon DEF CallFault
  <2>8. ASSUME NEW s \in Streams, StreamStep(s) \/ ServerTimeout(s) PROVE CallsInv'
    BY <2>8, ArriveKeeps, StreamEndKeeps, Zenon DEF StreamStep
  <2>9. CASE UNCHANGED vars
    BY <2>9, CallsStutter, Zenon
  <2> QED
    BY <2>1, <2>2, <2>3, <2>4, <2>5, <2>6, <2>7, <2>8, <2>9, Zenon DEF Next
<1> QED
  BY <1>1, CallsInitially, PTL DEF Spec

\* The invariant implies the type invariant of ServiceCalls.
LEMMA CallsInvTyped ==
  ASSUME CallsInv
  PROVE  TypeOK
<1>1. CallsTyped
  BY Zenon DEF CallsInv
<1>2. /\ \A i \in DOMAIN req : req[i].of \in Requests
      /\ \A h \in Hosts : \A i \in DOMAIN res[h] : res[h][i].of \in Requests
  BY <1>1, CarriersKnown, Zenon
<1>3. \A r \in Calls : call[r].attempt \in 1..MaxAttempts
  BY <1>1, Zenon DEF CallsTyped
<1> QED
  BY <1>1, <1>2, <1>3, Zenon DEF TypeOK, CallsTyped

\* The types; a response never completes the stream of another request
\* (try_complete_pending_response matches by the request and not by order), and no client
\* takes two responses to one request, however often it was carried and executed
\* (take_response_for_client).
THEOREM ResponsesCorrelatedHolds == Spec => []ResponsesCorrelated
<1>1. CallsInv => ResponsesCorrelated
  BY CallsInvTyped, Zenon DEF CallsInv, ResponsesCorrelated, Replies, TakenOnce
<1> QED
  BY <1>1, CallsInvariant, PTL

\* A request is executed once at most, whatever times out and is retried, unless its
\* connection broke after the request was written (call_service_with_retry then writes it
\* again).
THEOREM ExecutedOnceUnlessBrokenHolds == Spec => []ExecutedOnceUnlessBroken
<1>1. CallsInv => ExecutedOnceUnlessBroken
  <2> SUFFICES ASSUME CallsInv, NEW r \in Requests, r \notin broken PROVE ~ (executed[r] > 1)
    BY Zenon DEF ExecutedOnceUnlessBroken
  <2>1. executed[r] \in Nat /\ executed[r] <= 1
    BY Zenon DEF CallsInv, CallsTyped, ExecutedOnce
  <2> QED
    BY <2>1, SMT
<1> QED
  BY <1>1, CallsInvariant, PTL
=============================================================================
