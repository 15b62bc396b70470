----------------------------- MODULE MCChannels -----------------------------
(***************************************************************************)
(* The channels of a topic or service for model checking: the tables of    *)
(* the endpoints that use them (Endpoints), the opening of their segments  *)
(* (RingSegment), the exchange of their eventfds (RingEventFd) and calls   *)
(* of a service over them and over QUIC (ServiceCalls).  They share no     *)
(* state in these models, and a behaviour is one of one of them, chosen by *)
(* part.                                                                   *)
(***************************************************************************)
EXTENDS ServiceCalls, RingSegment, RingEventFd

VARIABLES
  part,
  pair, entries, count, lock, thread, owned, begun, failed, overlap, orphans  \* of Endpoints

endpointVars == <<pair, entries, count, lock, thread, owned, begun, failed, overlap, orphans>>

CONSTANTS Threads, Partners, Latched, Limited, Timed, MaxOps, MaxFailures  \* of Endpoints

E == INSTANCE Endpoints

ASSUME EndpointsAssumption ==
  /\ Partners \subseteq {{"pub", "sub"}, {"server", "client"}} /\ {Latched, Limited, Timed} \subseteq BOOLEAN
  /\ {MaxOps, MaxFailures} \subseteq Nat

\* Small and large slots, and a deeper ring of large slots.
SmallAndLarge ==
  {[stride |-> 1, slots |-> 1], [stride |-> 2, slots |-> 1], [stride |-> 2, slots |-> 2]}

\* Only the part that runs has more than one initial state.
MCInit ==
  /\ part \in {"endpoints", "segment", "eventfd", "call"}
  /\ Init /\ E!Init /\ S!Init /\ F!Init
  /\ part # "endpoints" => "pub" \in pair
  /\ part # "segment" => /\ name = None /\ seg[Old].slots = 1 /\ seg[Old].stride = 1
                         /\ \A p \in Processes : want[p].slots = 1 /\ want[p].stride = 1
  /\ part # "eventfd" => path = NoSocket

MCNext ==
  /\ UNCHANGED part
  /\ \/ part = "endpoints" /\ E!Next /\ UNCHANGED <<segmentVars, fdVars, vars>>
     \/ part = "segment" /\ S!Next /\ UNCHANGED <<endpointVars, fdVars, vars>>
     \/ part = "eventfd" /\ F!Next /\ UNCHANGED <<endpointVars, segmentVars, vars>>
     \/ part = "call" /\ Next /\ UNCHANGED <<endpointVars, segmentVars, fdVars>>

MCVars == <<part, vars, endpointVars, segmentVars, fdVars>>

\* The fairness of each part: threads, processes and their server threads run, and so do
\* the tasks and the threads of a service and its clients.
MCFairSpec ==
  /\ MCInit /\ [][MCNext]_MCVars
  /\ \A t \in Threads : WF_endpointVars(part = "endpoints" /\ E!Step(t))
  /\ \A p \in Processes : WF_segmentVars(part = "segment" /\ S!Run(p))
  /\ \A p \in Sharers : /\ WF_fdVars(part = "eventfd" /\ F!Step(p))
                        /\ WF_fdVars(part = "eventfd" /\ F!Thread(p))
  /\ WF_vars(part = "call" /\ Commit)
  /\ WF_vars(part = "call" /\ HandlerStep)
  /\ WF_vars(part = "call" /\ ServerStep)
  /\ \A c \in Clients : WF_vars(part = "call" /\ TakeResponse(c))
  /\ \A r \in Calls : WF_vars(part = "call" /\ CallStep(r))
  /\ \A s \in Streams : WF_vars(part = "call" /\ StreamStep(s))

-----------------------------------------------------------------------------
\* Everything an endpoint of the application needs is there at every moment, unless a
\* create overlapped with the removals of a destroy (see Endpoints).
UsableIfNoOverlap == E!UsableIfNoOverlap

\* Between operations, the tables hold what the endpoints need, and besides it only the
\* registrations with the event monitor and what belongs to a server that a failed create
\* has counted; and the counts are the application's and those of such creates, unless a
\* create overlapped with the removals of a destroy (see Endpoints).
AccountedIfNoOverlap == E!AccountedIfNoOverlap

InCall(i) ==
  \/ part = "endpoints" /\ E!Busy(i)
  \/ part = "segment" /\ S!Called(i)
  \/ part = "eventfd" /\ F!Called(i)
  \/ part = "call" /\ \E r \in Requests : Unanswered(r)

\* Every call ends: the creates and destroys of endpoints, whatever locks they wait for;
\* RingBuffer::create_or_open, also if the creator of the segment died half way; the
\* opening and closing of the channel, whose server thread answers whoever connects and
\* lets them go when it is stopped; and the request of a service, whose response the
\* client takes, with the exceptions that Unanswered lists.  The threads and the
\* processes are alike, so it is checked for one of them.
CallsEnd == InCall(1) ~> ~ InCall(1)
=============================================================================
