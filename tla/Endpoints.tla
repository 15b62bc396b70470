------------------------------ MODULE Endpoints -----------------------------
(***************************************************************************)
(* The endpoints of a session: creation and destruction of publishers and  *)
(* subscriptions of one topic, or of servers and clients of one service,   *)
(* by several threads.                                                     *)
(*                                                                         *)
(* A session counts its endpoints of a kind, and keeps one entry for all   *)
(* of them in each of many tables, every table under a lock of its own.  A *)
(* create puts its entries and counts; the destroy that counts down to     *)
(* zero drops them.  An operation is a program: the sequence of its steps, *)
(* a step for each time it takes a lock.  An entry stands for the key of   *)
(* the topic or service in a table.  "names" stands for topic_name_cache,  *)
(* topic_type_cache and topic_qos_cache, which both partners of a topic    *)
(* or service use.  The registrations with the event monitor are entries   *)
(* too, "publisher deadline" etc.: every create adds one, and they stand   *)
(* for as many as there are.  Which LocalPubSub an entry points to is not  *)
(* modelled: all of them open the same shared-memory ring.  Different      *)
(* topics do not share entries, so a behaviour is about one topic or one   *)
(* service.                                                                *)
(***************************************************************************)
EXTENDS Integers, Sequences, FiniteSets

CONSTANTS
  Threads,
  Partners,    \* pairs of kinds: {"pub", "sub"}, {"server", "client"}
  Latched,     \* is the topic TRANSIENT_LOCAL?
  Limited,     \* does its QoS have a bandwidth limit?
  Timed,       \* does it have a deadline and a lease?
  MaxOps,      \* bound on the operations begun
  MaxFailures  \* bound on the failures of LocalPubSub::create_or_open

VARIABLES
  pair,      \* is it a topic or a service that this is about?
  entries,   \* the entries in the tables
  count,     \* publisher_counts etc.; 0 if there is no key
  lock,      \* the threads that hold a lock beyond one step, by lock
  thread,    \* the operation each thread is in
  owned,     \* the endpoints the application has, by kind
  begun, failed,
  overlap,   \* history: has a create overlapped with the removals of a destroy?
  orphans    \* history: the creates that have failed after they had counted

vars == <<pair, entries, count, lock, thread, owned, begun, failed, overlap, orphans>>

----------------------------------------------------------------------------
(* Steps *)

Open        == [do |-> "open", what |-> "-"]     \* LocalPubSub::create_or_open
Put(e)      == [do |-> "put", what |-> e]
PutNew(e)   == [do |-> "putnew", what |-> e]     \* unless it is there
Look(e)     == [do |-> "look", what |-> e]
IfFresh     == [do |-> "iffresh", what |-> "-"]  \* the last look or PutNew found none
IfLive(k)   == [do |-> "iflive", what |-> k]
IfDead(k)   == [do |-> "ifdead", what |-> k]
IfNone(e)   == [do |-> "ifnone", what |-> e]
Count       == [do |-> "count", what |-> "-"]
Discount    == [do |-> "discount", what |-> "-"]
Drop(e)     == [do |-> "drop", what |-> e]
Take(l)     == [do |-> "lock", what |-> l]
Ensure(e)   == [do |-> "ensure", what |-> e]     \* if it is missing and its partner's is there

create_publisher ==
  <<Look("publishers"), Open, IfLive("sub"), Put("subscriptions"),
    Put("publishers"), Count, Put("local_publishers"), Put("published_topics"),
    Put("names")>> \o (IF Latched THEN <<IfFresh, Put("retained")>> ELSE <<>>)
    \o (IF Limited THEN <<Put("budget")>> ELSE <<>>)
    \o (IF Timed THEN <<Put("publisher deadline")>> ELSE <<>>)

destroy_publisher ==
  <<Discount, Drop("publishers"), Drop("budget"), Drop("retained"),
    Drop("local_publishers"), Drop("published_topics"), IfDead("sub"),
    Drop("names")>>

create_subscription ==
  <<Open, IfLive("pub"), Put("publishers"), Put("local_subscriptions"),
    PutNew("queue"), IfFresh, Put("receiver"), Put("subscriptions"), Count,
    Take("subscribed_topics"), Put("subscribed_topics"), Put("names")>>
    \o (IF Timed THEN <<Put("subscription deadline"), Put("lease")>> ELSE <<>>)

destroy_subscription ==
  <<Discount, Drop("queue"), Drop("receiver"), Drop("subscriptions"),
    Drop("local_subscriptions"), Drop("subscribed_topics"), IfDead("pub"),
    Drop("names")>>

create_named_service ==
  <<IfNone("request_pubs"), Open, Put("request_subs"), Count,
    IfNone("response_subs"), Open, Put("response_pubs"),
    Put("published response"), Put("subscribed request"), Put("names"),
    Put("local_services"), Put("publisher of responses"),
    Put("subscription of requests"), Put("handler")>>

destroy_service_Blindly ==
  <<Discount, Drop("request_subs"), Drop("response_pubs"),
    Drop("local_services"), Drop("publisher of responses"),
    Drop("subscription of requests"), Drop("published response"),
    Drop("subscribed request"), Drop("names"), Drop("handler")>>

destroy_service ==
  <<Discount, Drop("request_subs"), Drop("response_pubs"),
    Drop("local_services"), Drop("publisher of responses"),
    Drop("subscription of requests"), Drop("published response"),
    Drop("subscribed request"), IfNone("local_clients"), Drop("names"),
    Drop("handler")>>

create_named_client ==
  <<Take("service_client_counts"), IfNone("request_subs"), Open,
    IfNone("response_pubs"), Open, Put("request_pubs"), Put("response_subs"),
    Count, Put("published request"),
    Put("subscribed response"), Put("names"), Put("local_clients"),
    Put("publisher of requests"), Put("subscription of responses")>>

destroy_client_KeepsTopics ==
  <<Discount, Drop("response_subs"), Drop("request_pubs"),
    Drop("local_clients"), Drop("publisher of requests"),
    Drop("subscription of responses"), Drop("published request"),
    IfNone("local_services"), Drop("names")>>

destroy_client ==
  <<Discount, Drop("response_subs"), Drop("request_pubs"),
    Drop("local_clients"), Drop("publisher of requests"),
    Drop("subscription of responses"), Drop("published request"),
    Drop("subscribed response"), IfNone("local_services"), Drop("names")>>

\* ensure_request_sub and ensure_response_sub, which every use of a service begins with.
use_service == <<Ensure("request_subs")>>
use_client == <<Ensure("response_subs")>>

Program(op, kind) ==
  CASE op = "create" /\ kind = "pub"     -> create_publisher
    [] op = "destroy" /\ kind = "pub"    -> destroy_publisher
    [] op = "create" /\ kind = "sub"     -> create_subscription
    [] op = "destroy" /\ kind = "sub"    -> destroy_subscription
    [] op = "create" /\ kind = "server"  -> create_named_service
    [] op = "destroy" /\ kind = "server" -> destroy_service
    [] op = "create" /\ kind = "client"  -> create_named_client
    [] op = "destroy" /\ kind = "client" -> destroy_client
    [] op = "use" /\ kind = "server"     -> use_service
    [] op = "use" /\ kind = "client"     -> use_client

----------------------------------------------------------------------------
Kinds == UNION Partners
Locks == {"subscribed_topics", "service_client_counts"}

Idle == [op |-> "none", kind |-> "-", pc |-> 1, fresh |-> FALSE]

Init ==
  /\ pair \in Partners
  /\ entries = {}
  /\ count = [k \in Kinds |-> 0]
  /\ lock = [l \in Locks |-> {}]
  /\ thread = [t \in Threads |-> Idle]
  /\ owned = [k \in Kinds |-> 0]
  /\ begun = 0 /\ failed = 0
  /\ overlap = FALSE /\ orphans = 0

\* The step that t is about to take, if it is in an operation.
Busy(t) == thread[t].op # "none"
Steps(t) == Program(thread[t].op, thread[t].kind)
Finished(t) == Busy(t) /\ thread[t].pc > Len(Steps(t))
At(t, do) == Busy(t) /\ ~Finished(t) /\ Steps(t)[thread[t].pc].do = do
What(t) == Steps(t)[thread[t].pc].what
Advance(t, n) == thread' = [thread EXCEPT ![t].pc = @ + n]

\* The lock that the table of an entry, or the count of a kind, is under.
Free(t, l) == lock[l] \subseteq {t}
MayUse(t, e) == e = "subscribed_topics" => Free(t, "subscribed_topics")
MayCount(t) == thread[t].kind = "client" => Free(t, "service_client_counts")

Leave(t) ==
  /\ thread' = [thread EXCEPT ![t] = Idle]
  /\ lock' = [l \in Locks |-> lock[l] \ {t}]

\* Is a create, or the removal of entries, going on?
Creating == \E t \in Threads : thread[t].op = "create"
Removing == \E t \in Threads : thread[t].op = "destroy" /\ thread[t].pc > 1
Note == overlap' = (overlap \/ (Creating /\ Removing)')

----------------------------------------------------------------------------
\* The application calls an operation; it uses only what it has, and destroys only what it
\* has and does not use.
InUse(kind) == \E t \in Threads : thread[t].op = "use" /\ thread[t].kind = kind

Begin(t, op, kind) ==
  /\ ~Busy(t)
  /\ begun < MaxOps
  /\ op = "use" => kind \in {"server", "client"} /\ owned[kind] > 0
  /\ op = "destroy" => owned[kind] > (IF InUse(kind) THEN 1 ELSE 0)
  /\ begun' = begun + 1
  /\ owned' = IF op = "destroy" THEN [owned EXCEPT ![kind] = @ - 1] ELSE owned
  /\ thread' = [thread EXCEPT ![t] = [Idle EXCEPT !.op = op, !.kind = kind]]
  /\ Note
  /\ UNCHANGED <<pair, entries, count, lock, failed, orphans>>

\* Has t counted its endpoint?
Counted(t) == \E i \in 1 .. thread[t].pc - 1 : Steps(t)[i] = Count

OpenStep(t) ==
  /\ At(t, "open")
  /\ \/ /\ Advance(t, 1)
        /\ UNCHANGED <<lock, failed, orphans>>
     \/ /\ failed < MaxFailures
        /\ failed' = failed + 1
        /\ orphans' = IF Counted(t) THEN orphans + 1 ELSE orphans
        /\ Leave(t)
  /\ UNCHANGED <<pair, entries, count, owned, begun, overlap>>

TakeStep(t) ==
  /\ At(t, "lock")
  /\ Free(t, What(t))
  /\ lock' = [lock EXCEPT ![What(t)] = @ \cup {t}]
  /\ Advance(t, 1)
  /\ UNCHANGED <<pair, entries, count, owned, begun, failed, overlap, orphans>>

PutStep(t) ==
  /\ At(t, "put")
  /\ MayUse(t, What(t))
  /\ entries' = entries \cup {What(t)}
  /\ Advance(t, 1)
  /\ UNCHANGED <<pair, count, lock, owned, begun, failed, overlap, orphans>>

LookStep(t) ==
  /\ At(t, "look") \/ At(t, "putnew")
  /\ entries' = IF At(t, "putnew") THEN entries \cup {What(t)} ELSE entries
  /\ thread' = [thread EXCEPT ![t].pc = @ + 1,
                              ![t].fresh = What(t) \notin entries]
  /\ UNCHANGED <<pair, count, lock, owned, begun, failed, overlap, orphans>>

\* ensure_request_sub takes the entry of the clients' publisher, and ensure_response_sub
\* that of the servers', with both locks held.
Source(e) == IF e = "request_subs" THEN "request_pubs" ELSE "response_pubs"

EnsureStep(t) ==
  /\ At(t, "ensure")
  /\ entries' = IF Source(What(t)) \in entries THEN entries \cup {What(t)} ELSE entries
  /\ Advance(t, 1)
  /\ UNCHANGED <<pair, count, lock, owned, begun, failed, overlap, orphans>>

\* A condition on the next step.
Holds(t) ==
  CASE At(t, "iffresh") -> thread[t].fresh
    [] At(t, "iflive")  -> count[What(t)] > 0
    [] At(t, "ifdead")  -> count[What(t)] = 0
    [] At(t, "ifnone")  -> What(t) \notin entries

IfStep(t) ==
  /\ \E do \in {"iffresh", "iflive", "ifdead", "ifnone"} : At(t, do)
  /\ Advance(t, IF Holds(t) THEN 1 ELSE 2)
  /\ Note
  /\ UNCHANGED <<pair, entries, count, lock, owned, begun, failed, orphans>>

CountStep(t) ==
  /\ At(t, "count")
  /\ count' = [count EXCEPT ![thread[t].kind] = @ + 1]
  /\ Advance(t, 1)
  /\ UNCHANGED <<pair, entries, lock, owned, begun, failed, overlap, orphans>>

\* Only the last endpoint of a kind takes the entries with it.
DiscountStep(t) ==
  LET k == thread[t].kind
  IN /\ At(t, "discount")
     /\ MayCount(t)
     /\ count' = [count EXCEPT ![k] = @ - 1]
     /\ \/ count[k] > 1 /\ Leave(t)
        \/ count[k] = 1 /\ Advance(t, 1) /\ UNCHANGED lock
     /\ Note
     /\ UNCHANGED <<pair, entries, owned, begun, failed, orphans>>

DropStep(t) ==
  /\ At(t, "drop")
  /\ MayUse(t, What(t))
  /\ entries' = entries \ {What(t)}
  /\ Advance(t, 1)
  /\ UNCHANGED <<pair, count, lock, owned, begun, failed, overlap, orphans>>

\* The operation returns Ok.
Finish(t) ==
  LET k == thread[t].kind
  IN /\ Finished(t)
     /\ owned' = IF thread[t].op = "create" THEN [owned EXCEPT ![k] = @ + 1]
                 ELSE owned
     /\ Leave(t)
     /\ UNCHANGED <<pair, entries, count, begun, failed, overlap, orphans>>

Step(t) ==
  \/ OpenStep(t) \/ TakeStep(t) \/ PutStep(t) \/ LookStep(t) \/ EnsureStep(t)
  \/ IfStep(t) \/ CountStep(t) \/ DiscountStep(t) \/ DropStep(t) \/ Finish(t)

Next ==
  \E t \in Threads :
    \/ \E op \in {"create", "destroy", "use"}, kind \in pair : Begin(t, op, kind)
    \/ Step(t)

Spec == Init /\ [][Next]_vars

\* A thread in an operation goes on.
FairSpec == Spec /\ \A t \in Threads : WF_vars(Step(t))

----------------------------------------------------------------------------
(* Properties *)

\* The registrations with the event monitor; no destroy removes them.
Monitors == IF Timed THEN {"publisher deadline", "subscription deadline", "lease"} ELSE {}

\* The entries an endpoint needs: those its create puts for its own kind.
Needs(kind) ==
  CASE kind = "pub" -> {"publishers", "local_publishers", "published_topics",
                        "names"} \cup (IF Latched THEN {"retained"} ELSE {})
                       \cup (IF Limited THEN {"budget"} ELSE {})
                       \cup (Monitors \cap {"publisher deadline"})
    [] kind = "sub" -> {"subscriptions", "local_subscriptions", "queue",
                        "receiver", "subscribed_topics", "names"}
                       \cup (Monitors \cap {"subscription deadline", "lease"})
    [] kind = "server" -> {"request_subs", "response_pubs", "local_services",
                           "published response", "subscribed request", "names",
                           "publisher of responses", "subscription of requests",
                           "handler"}
    [] kind = "client" -> {"request_pubs", "response_subs", "local_clients",
                           "published request", "subscribed response", "names",
                           "publisher of requests", "subscription of responses"}

AllEntries == UNION {Needs(k) : k \in Kinds}
Quiet == \A t \in Threads : ~Busy(t)

\* The types of the variables; a lock has at most one holder.
TypeOK ==
  /\ pair \in Partners
  /\ entries \subseteq AllEntries \cup {"publishers", "subscriptions"}
  /\ count \in [Kinds -> Nat]
  /\ lock \in [Locks -> SUBSET Threads]
  /\ \A l \in Locks : Cardinality(lock[l]) <= 1
  /\ thread \in [Threads -> [op : {"none", "create", "destroy", "use"},
                             kind : Kinds \cup {"-"}, pc : 1 .. 16,
                             fresh : BOOLEAN]]
  /\ owned \in [Kinds -> Nat]
  /\ begun \in 0 .. MaxOps /\ failed \in 0 .. MaxFailures
  /\ overlap \in BOOLEAN /\ orphans \in 0 .. failed

\* "destroying one duplicate client must not invalidate the other": when every
\* call has returned, whatever an endpoint of the application needs is there.  It
\* does not hold: a create may overlap with the removals of a destroy.
Usable ==
  Quiet => \A k \in Kinds : owned[k] > 0 => Needs(k) \subseteq entries

\* Where no create has overlapped with the removals of a destroy, everything an
\* endpoint of the application needs is there at every moment, whatever other
\* creates and destroys of either partner are doing.  Of two creates that
\* overlap, the later one may return before the earlier one has put what only
\* the first endpoint of a topic puts.
UsableIfNoOverlap ==
  ~overlap =>
    \A k \in Kinds :
      owned[k] > 0 =>
        Needs(k) \ (IF Creating THEN {"retained", "receiver"} ELSE {})
          \subseteq entries

\* Between operations, the counts are the application's and those of the creates that
\* failed after they had counted; everything an endpoint needs is in the tables; and
\* besides, they hold only the registrations with the event monitor, which no destroy
\* removes, and what belongs to a counted server that nobody can destroy.
Accounted ==
  LET needed == UNION {Needs(k) : k \in {x \in Kinds : owned[x] > 0}}
      orphaned == IF orphans > 0 THEN Needs("server") ELSE {}
  IN  Quiet => /\ \A k \in pair : count[k] = owned[k] + (IF k = "server" THEN orphans ELSE 0)
               /\ needed \subseteq entries
               /\ entries \subseteq needed \cup Monitors \cup orphaned

\* The types, and the same where no create has overlapped with the removals of a destroy.
AccountedIfNoOverlap == TypeOK /\ (~overlap => Accounted)

=============================================================================
