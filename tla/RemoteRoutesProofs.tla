------------------------- MODULE RemoteRoutesProofs -------------------------
(***************************************************************************)
(* Proofs about the routes to the peers on other hosts (RemoteRoutes).     *)
(*                                                                         *)
(* The five properties are proved from one invariant, since each needs     *)
(* the others: that no sample is lost needs that the routes are the        *)
(* matches, that a late joiner is served needs to know who counts as       *)
(* served, and that samples come in order needs that a peer which counts   *)
(* as served has the history up to the sample that is being sent.  Without *)
(* overlap at most one thread is in a call; Tables and Rebuilds say for    *)
(* each step of its rebuild what the tables hold.  With overlap nothing is *)
(* claimed but types and generations.  What a best-effort publisher pushes *)
(* out of a pipeline is a matter of the pipeline alone, and an invariant   *)
(* of its own (LossInv).                                                   *)
(***************************************************************************)
EXTENDS RemoteRoutes, TLAPS

-----------------------------------------------------------------------------
(* The inductive invariant of the routes *)

\* The steps of sync_daemon_matches at which the routes are rebuilt.
Rebuilding ==
  {"clear_known", "clear_routes", "no_routes", "no_known", "known", "routes", "history", "forget", "forget_pending"}
Settled == \A t \in Threads : thread[t].pc \notin Rebuilding

\* One thread at a time; only a publisher has a sample, the last one.
Alone == \A t, u \in Threads : t # u => At(t, "idle") \/ At(u, "idle")
Samples ==
  \A t \in Threads :
    /\ thread[t].sample \in {0, samples}
    /\ At(t, "idle") \/ t \in Syncers => thread[t].sample = 0
    /\ t \in Publishers /\ ~ At(t, "idle") => thread[t].sample # 0
    /\ thread[t].pc \in {"retain", "pending", "store", "send"} => t \in Publishers
Generations == last_gen <= gen /\ \A t \in Threads : thread[t].gen <= gen

\* The matches that a thread has read are those of the generation it has seen, and include
\* the peers that have a right to samples.
Current == ~ owed /\ gen = last_gen
Owed(p) == due[p] # {}
Rebuilds(t) ==
  thread[t].pc \in Rebuilding =>
    /\ Current => thread[t].peers = matched
    /\ \A p \in Peers : Owed(p) => p \in thread[t].peers
Tables(t) ==
  LET ps == thread[t].peers IN
  /\ At(t, "clear_routes") \/ At(t, "known") => known = {}
  /\ At(t, "no_known") \/ At(t, "known") \/ At(t, "routes") => routes = {}
  /\ At(t, "routes") \/ At(t, "history") => known = ps
  /\ At(t, "history") => routes = ps
  /\ thread[t].pc \in {"no_routes", "no_known", "forget", "forget_pending"} => ps = {}
  /\ thread[t].pc \in {"forget", "forget_pending"} => routes = {} /\ known = {}
  /\ At(t, "enqueue") => thread[t].batch = retained

Routed ==
  Settled =>
    /\ routes = known
    /\ Current => routes = matched
    /\ gen = last_gen \/ (\E t \in Threads : At(t, "enqueue") \/ At(t, "send")) =>
         \A p \in Peers : Owed(p) => p \in routes

Entitled == \A p \in Peers : due[p] \subseteq 1..samples /\ (Owed(p) => p \in matched)

\* A peer has the retained samples, but for one that is about to be sent and those in a
\* history that is being sent.
Sent(p, b) ==
  \/ b \in Range(queue[p])
  \/ \E t \in Threads : thread[t].sample = b \/ (At(t, "enqueue") /\ p \in thread[t].peers)
HasHistory(p) == \A b \in Range(retained) : Sent(p, b)
Counted == delivered \cup in_flight \cup {p \in Peers : served[p] > 0}
Histories ==
  /\ \A p \in Counted : HasHistory(p)
  /\ Settled => Counted \subseteq routes /\ \A p \in routes : HasHistory(p)

\* What a peer does not have of the retained samples is later than what it has.
Later ==
  \A p \in Peers : \A b \in Range(retained), c \in Range(queue[p]) : b \in Range(queue[p]) \/ c < b
Sorted(q) == \A i, j \in DOMAIN q : i < j => q[i] <= q[j]
Numbers ==
  /\ Range(retained) \subseteq 1..samples /\ Sorted(retained)
  /\ \A p \in Peers : Range(queue[p]) \subseteq 1..samples

\* A sample that a peer has a right to has been pushed into its pipeline, or is about to be.
Pushed ==
  \A p \in Peers : \A s \in due[p] :
    s \in Range(queue[p]) \/ \E t \in Threads : thread[t].sample = s

Serial ==
  /\ Alone /\ Samples /\ Numbers /\ Routed /\ Histories /\ Later /\ Pushed /\ FirstInOrder
  /\ \A t \in Threads : Rebuilds(t) /\ Tables(t)
RoutesInv == RoutesTyped /\ Generations /\ Entitled /\ (overlap \/ Serial)

\* What is pushed out of a pipeline: only samples of a best-effort publisher that have
\* Depth others behind them.
Kept == \A p \in Peers : \A i \in lost[p] : BestEffort /\ i + Depth <= Len(queue[p])
LossInv == SlotsTyped /\ Kept

-----------------------------------------------------------------------------
(* Sequences *)

\* A sequence with one more element, as retained_remote_samples and the pipeline of a
\* peer get it.
LEMMA RangeAppend ==
  ASSUME NEW q \in Seq(Nat), NEW s \in Nat
  PROVE  /\ Append(q, s) \in Seq(Nat) /\ Range(Append(q, s)) = Range(q) \cup {s}
         /\ Len(Append(q, s)) = Len(q) + 1 /\ DOMAIN Append(q, s) = 1 .. Len(q) + 1
         /\ Append(q, s)[Len(q) + 1] = s /\ \A i \in 1..Len(q) : Append(q, s)[i] = q[i]
<1>1. /\ Append(q, s) \in Seq(Nat) /\ Len(Append(q, s)) = Len(q) + 1 /\ DOMAIN Append(q, s) = 1 .. Len(q) + 1
      /\ Append(q, s)[Len(q) + 1] = s /\ \A i \in 1..Len(q) : Append(q, s)[i] = q[i]
  OBVIOUS
<1>2. Len(q) \in Nat /\ DOMAIN q = 1..Len(q)
  OBVIOUS
<1>3. \A i \in 1 .. Len(q) + 1 : i \in 1..Len(q) \/ i = Len(q) + 1
  BY <1>2
<1>4. 1..Len(q) \subseteq 1 .. Len(q) + 1 /\ Len(q) + 1 \in 1 .. Len(q) + 1
  BY <1>2
<1>a. PICK r : r = Append(q, s)
  BY Zenon
<1>5. Range(r) = Range(q) \cup {s}
  <2>1. DOMAIN r = 1 .. Len(q) + 1 /\ r[Len(q) + 1] = s /\ \A i \in 1..Len(q) : r[i] = q[i]
    BY <1>1, <1>a, Zenon
  <2> QED BY <1>2, <1>3, <1>4, <2>1, Zenon DEF Range
<1> QED BY <1>1, <1>5, <1>a, Zenon

\* A sequence with another one after it, as the pipeline of a peer gets a history.
LEMMA RangeConcat ==
  ASSUME NEW q \in Seq(Nat), NEW r \in Seq(Nat)
  PROVE  /\ q \o r \in Seq(Nat) /\ Range(q \o r) = Range(q) \cup Range(r)
         /\ DOMAIN (q \o r) = 1 .. Len(q) + Len(r)
         /\ \A i \in 1..Len(q) : (q \o r)[i] = q[i]
         /\ \A i \in 1..Len(r) : (q \o r)[Len(q) + i] = r[i]
<1>a. PICK c : c = q \o r
  BY Zenon
<1>b. c \in Seq(Nat)
  BY <1>a
<1>1. /\ Len(q) \in Nat /\ Len(r) \in Nat /\ DOMAIN q = 1..Len(q) /\ DOMAIN r = 1..Len(r)
      /\ DOMAIN c = 1 .. Len(q) + Len(r)
      /\ \A i \in 1..Len(q) : c[i] = q[i]
      /\ \A i \in 1..Len(r) : c[Len(q) + i] = r[i]
  BY <1>a
<1>2. \A i \in 1 .. Len(q) + Len(r) : i \in 1..Len(q) \/ (i - Len(q) \in 1..Len(r) /\ i = Len(q) + (i - Len(q)))
  BY <1>1
<1>3. /\ \A i \in 1..Len(q) : i \in 1 .. Len(q) + Len(r)
      /\ \A i \in 1..Len(r) : Len(q) + i \in 1 .. Len(q) + Len(r)
  BY <1>1
<1>4. Range(c) = Range(q) \cup Range(r)
  <2>1. ASSUME NEW x \in Range(c) PROVE x \in Range(q) \cup Range(r)
    <3>1. PICK i \in 1 .. Len(q) + Len(r) : x = c[i]
      BY <1>1, Zenon DEF Range
    <3> QED BY <1>1, <1>2, <3>1, Zenon DEF Range
  <2>2. ASSUME NEW x \in Range(q) PROVE x \in Range(c)
    BY <1>1, <1>3, Zenon DEF Range
  <2>3. ASSUME NEW x \in Range(r) PROVE x \in Range(c)
    BY <1>1, <1>3, Zenon DEF Range
  <2> QED BY <2>1, <2>2, <2>3, Zenon
<1> QED BY <1>a, <1>b, <1>1, <1>4, Zenon

\* Bounded (the history depth of the publisher): at most Depth samples are kept, none is
\* new, and they stay in order.
LEMMA BoundedKeeps ==
  ASSUME NEW h \in Seq(Nat)
  PROVE  /\ Bounded(h) \in Seq(Nat) /\ Len(Bounded(h)) <= Depth /\ Range(Bounded(h)) \subseteq Range(h)
         /\ Sorted(h) => Sorted(Bounded(h))
<1>a. PICK m : m = IF Len(h) < Depth THEN Len(h) ELSE Depth
  BY Zenon
<1>b. PICK k : k = Len(h) - m
  BY Zenon
<1>1. Len(h) \in Nat /\ m \in Nat /\ m <= Depth /\ m <= Len(h) /\ k \in Nat /\ k + m = Len(h) /\ Depth \in Nat /\ DOMAIN h = 1..Len(h)
  BY <1>a, <1>b, RoutesAssumption
<1>c. PICK r : r = SubSeq(h, k + 1, Len(h))
  BY Zenon
<1>2. Bounded(h) = r
  BY <1>a, <1>b, <1>c, Zenon DEF Bounded
<1>3. /\ r \in Seq(Nat) /\ Len(r) = m /\ DOMAIN r = 1..m
      /\ \A i \in 1..m : r[i] = h[k + i]
  <2>1. r = [i \in 1 .. m |-> h[k + i]]
    BY <1>1, <1>c
  <2>2. \A i \in 1..m : k + i \in 1..Len(h) /\ h[k + i] \in Nat
    BY <1>1
  <2> QED BY <1>1, <2>1, <2>2
<1>4. \A i \in 1..m : k + i \in 1..Len(h)
  BY <1>1
<1>5. Range(r) \subseteq Range(h)
  BY <1>1, <1>3, <1>4, Zenon DEF Range
<1>6. ASSUME Sorted(h) PROVE Sorted(r)
  <2> SUFFICES ASSUME NEW i \in 1..m, NEW j \in 1..m, i < j PROVE r[i] <= r[j]
    BY <1>3, Zenon DEF Sorted
  <2>1. k + i < k + j /\ k + i \in 1..Len(h) /\ k + j \in 1..Len(h)
    BY <1>1, <1>4
  <2>2. h[k + i] <= h[k + j]
    BY <1>1, <1>6, <2>1, Zenon DEF Sorted
  <2> QED BY <1>3, <2>2, Zenon
<1> QED BY <1>1, <1>2, <1>3, <1>5, <1>6, Zenon

\* A sample that is not earlier than those retained keeps them in order.
LEMMA SortedAppend ==
  ASSUME NEW q \in Seq(Nat), Sorted(q), NEW s \in Nat, \A x \in Range(q) : x <= s
  PROVE  Sorted(Append(q, s))
<1>a. PICK r : r = Append(q, s)
  BY Zenon
<1>1. /\ DOMAIN r = 1 .. Len(q) + 1 /\ r[Len(q) + 1] = s /\ \A i \in 1..Len(q) : r[i] = q[i]
      /\ Len(q) \in Nat /\ DOMAIN q = 1..Len(q)
  BY <1>a
<1> SUFFICES ASSUME NEW i \in 1 .. Len(q) + 1, NEW j \in 1 .. Len(q) + 1, i < j PROVE r[i] <= r[j]
  BY <1>a, <1>1, Zenon DEF Sorted
<1>2. i \in 1..Len(q)
  BY <1>1
<1>3. CASE j \in 1..Len(q)
  BY <1>1, <1>2, <1>3, Zenon DEF Sorted
<1>4. CASE j = Len(q) + 1
  <2>1. q[i] \in Range(q)
    BY <1>1, <1>2, Zenon DEF Range
  <2>2. q[i] <= s
    BY <2>1, Zenon
  <2> QED BY <1>1, <1>2, <1>4, <2>2, Zenon
<1> QED BY <1>1, <1>3, <1>4

\* The order of first appearances, for a queue.
Ordered(q) == \A i, j \in DOMAIN q : i < j /\ q[i] > q[j] => \E k \in 1 .. i : q[k] = q[j]

\* FirstInOrder for one pipeline: a sample later than all before it may follow.
LEMMA OrderedAppend ==
  ASSUME NEW q \in Seq(Nat), Ordered(q), NEW s \in Nat, \A x \in Range(q) : x <= s
  PROVE  Ordered(Append(q, s))
<1>a. PICK r : r = Append(q, s)
  BY Zenon
<1>1. /\ DOMAIN r = 1 .. Len(q) + 1 /\ r[Len(q) + 1] = s /\ \A i \in 1..Len(q) : r[i] = q[i] /\ q[i] \in Nat
      /\ Len(q) \in Nat /\ DOMAIN q = 1..Len(q)
  BY <1>a
<1> SUFFICES ASSUME NEW i \in 1 .. Len(q) + 1, NEW j \in 1 .. Len(q) + 1, i < j, r[i] > r[j]
             PROVE  \E k \in 1 .. i : r[k] = r[j]
  BY <1>a, <1>1 DEF Ordered
<1>2. i \in 1..Len(q) /\ 1..i \subseteq 1..Len(q)
  BY <1>1
<1>3. CASE j \in 1..Len(q)
  <2>1. \E k \in 1 .. i : q[k] = q[j]
    BY <1>1, <1>2, <1>3, Zenon DEF Ordered
  <2> QED BY <1>1, <1>2, <1>3, <2>1, Zenon
<1>4. CASE j = Len(q) + 1
  <2>1. q[i] \in Range(q)
    BY <1>1, <1>2, Zenon DEF Range
  <2> QED BY <1>1, <1>2, <1>4, <2>1
<1> QED BY <1>1, <1>3, <1>4

\* FirstInOrder for one pipeline: a history may follow if it is in order and what is new
\* in it is later than what was sent.
LEMMA OrderedConcat ==
  ASSUME NEW q \in Seq(Nat), NEW b \in Seq(Nat), Ordered(q), Sorted(b),
         \A x \in Range(b), c \in Range(q) : x \in Range(q) \/ c < x
  PROVE  Ordered(q \o b)
<1>a. PICK r : r = q \o b
  BY Zenon
<1>1. /\ DOMAIN r = 1 .. Len(q) + Len(b) /\ \A i \in 1..Len(q) : r[i] = q[i]
      /\ \A i \in 1..Len(b) : r[Len(q) + i] = b[i]
  BY <1>a, RangeConcat, Zenon
<1>b. Len(q) \in Nat /\ Len(b) \in Nat /\ DOMAIN q = 1..Len(q) /\ DOMAIN b = 1..Len(b) /\ (\A i \in 1..Len(q) : q[i] \in Nat) /\ (\A i \in 1..Len(b) : b[i] \in Nat)
  OBVIOUS
<1>c. SUFFICES Ordered(r)
  BY <1>a, Zenon
<1> SUFFICES ASSUME NEW i \in 1 .. Len(q) + Len(b), NEW j \in 1 .. Len(q) + Len(b), i < j, r[i] > r[j]
             PROVE  \E k \in 1 .. i : r[k] = r[j]
  BY <1>1, Zenon DEF Ordered
<1>2. CASE j \in 1..Len(q)
  <2>1. i \in 1..Len(q) /\ 1..i \subseteq 1..Len(q)
    BY <1>b, <1>2
  <2>2. \E k \in 1 .. i : q[k] = q[j]
    BY <1>1, <1>b, <1>2, <2>1, Zenon DEF Ordered
  <2> QED BY <1>1, <1>2, <2>1, <2>2, Zenon
<1>3. CASE j \notin 1..Len(q)
  <2>a. PICK m \in 1..Len(b) : j = Len(q) + m
    <3>1. j - Len(q) \in 1..Len(b) /\ j = Len(q) + (j - Len(q))
      BY <1>b, <1>3
    <3> QED BY <3>1, Zenon
  <2>1. r[j] = b[m] /\ b[m] \in Range(b)
    BY <1>1, <1>b, <2>a, Zenon DEF Range
  <2>2. CASE i \in 1..Len(q)
    <3>1. r[i] = q[i] /\ q[i] \in Range(q) /\ q[i] \in Nat /\ b[m] \in Nat
      BY <1>1, <1>b, <2>2, Zenon DEF Range
    <3>2. b[m] \in Range(q)
      BY <2>1, <3>1
    <3>a. PICK k \in 1..Len(q) : q[k] = b[m]
      BY <1>b, <3>2, Zenon DEF Range
    <3>3. CASE k <= i
      <4>1. k \in 1..i /\ r[k] = r[j]
        BY <1>1, <1>b, <2>1, <2>2, <3>3, <3>a
      <4> QED BY <4>1, Zenon
    <3>4. CASE ~ (k <= i)
      <4>1. i < k /\ q[i] > q[k]
        BY <1>b, <2>1, <2>2, <3>1, <3>4, <3>a
      <4>2. \E l \in 1 .. i : q[l] = q[k]
        BY <1>b, <2>2, <4>1, Zenon DEF Ordered
      <4>3. 1..i \subseteq 1..Len(q)
        BY <1>b, <2>2
      <4> QED BY <1>1, <2>1, <3>a, <4>2, <4>3, Zenon
    <3> QED BY <3>3, <3>4, Zenon
  <2>3. CASE i \notin 1..Len(q)
    <3>a. PICK l \in 1..Len(b) : i = Len(q) + l
      <4>1. i - Len(q) \in 1..Len(b) /\ i = Len(q) + (i - Len(q))
        BY <1>b, <2>3
      <4> QED BY <4>1, Zenon
    <3>1. l < m /\ r[i] = b[l]
      BY <1>1, <1>b, <2>a, <3>a
    <3>2. b[l] <= b[m]
      BY <1>b, <3>1, Zenon DEF Sorted
    <3> QED BY <1>b, <2>1, <3>1, <3>2
  <2> QED BY <2>2, <2>3, Zenon
<1> QED BY <1>2, <1>3, Zenon

-----------------------------------------------------------------------------
(* Steps of one thread *)

\* Only thread t takes a step.
Moves(t) == thread' \in [Threads -> Calls] /\ \A u \in Threads : u # t => thread'[u] = thread[u]

\* The local variables of a call.
LEMMA CallFields ==
  ASSUME NEW c \in Calls
  PROVE  c.pc \in Places /\ c.sample \in Nat /\ c.gen \in Nat /\ c.peers \subseteq Peers /\ c.batch \in Seq(Nat)
<1>1. PICK S : S = Seq(Nat)
  BY Zenon
<1>2. c \in [pc : Places, sample : Nat, gen : Nat, peers : SUBSET Peers, batch : S]
  BY <1>1, Zenon DEF Calls
<1> QED BY <1>1, <1>2, Zenon

\* The record of a call from its fields.
LEMMA CallMade ==
  ASSUME NEW pc \in Places, NEW s \in Nat, NEW g \in Nat, NEW ps \in SUBSET Peers, NEW b \in Seq(Nat)
  PROVE  [pc |-> pc, sample |-> s, gen |-> g, peers |-> ps, batch |-> b] \in Calls
<1>1. PICK S : S = Seq(Nat)
  BY Zenon
<1>2. [pc |-> pc, sample |-> s, gen |-> g, peers |-> ps, batch |-> b]
        \in [pc : Places, sample : Nat, gen : Nat, peers : SUBSET Peers, batch : S]
  BY <1>1, Zenon
<1> QED BY <1>1, <1>2, Zenon DEF Calls

\* A call that begins, or goes on with its sample only.
LEMMA BusyFields ==
  ASSUME NEW pc \in Places, NEW s \in Nat
  PROVE  /\ Busy(pc, s) \in Calls /\ Busy(pc, s).pc = pc /\ Busy(pc, s).sample = s
         /\ Busy(pc, s).gen = 0 /\ Busy(pc, s).peers = {} /\ Busy(pc, s).batch = <<>>
<1>1. Busy(pc, s) \in Calls
  <2>1. <<>> \in Seq(Nat) /\ {} \in SUBSET Peers /\ 0 \in Nat
    OBVIOUS
  <2> QED BY <2>1, CallMade, Zenon DEF Busy
<1> QED BY <1>1, Zenon DEF Busy

\* Become: only the calling thread moves.
LEMMA BecomeMoves ==
  ASSUME thread \in [Threads -> Calls], NEW t \in Threads, NEW r \in Calls, Become(t, r)
  PROVE  Moves(t) /\ thread'[t] = r
BY Zenon DEF Become, Moves

\* Goto: only the calling thread moves, and it keeps its local variables.
LEMMA GotoMoves ==
  ASSUME thread \in [Threads -> Calls], NEW t \in Threads, NEW pc \in Places, Goto(t, pc)
  PROVE  /\ Moves(t) /\ thread'[t].pc = pc /\ thread'[t].sample = thread[t].sample
         /\ thread'[t].gen = thread[t].gen /\ thread'[t].peers = thread[t].peers
         /\ thread'[t].batch = thread[t].batch
<1>1. thread[t] \in Calls
  BY Zenon
<1>2. PICK r : r = [thread[t] EXCEPT !.pc = pc]
  BY Zenon
<1>3. thread' = [thread EXCEPT ![t] = r]
  BY <1>2, Zenon DEF Goto
<1>4. /\ r \in Calls /\ r.pc = pc /\ r.sample = thread[t].sample /\ r.gen = thread[t].gen
      /\ r.peers = thread[t].peers /\ r.batch = thread[t].batch
  <2>1. PICK S : S = Seq(Nat)
    BY Zenon
  <2>2. thread[t] \in [pc : Places, sample : Nat, gen : Nat, peers : SUBSET Peers, batch : S]
    BY <1>1, <2>1, Zenon DEF Calls
  <2>3. r \in [pc : Places, sample : Nat, gen : Nat, peers : SUBSET Peers, batch : S]
    BY <1>2, <2>2, Zenon
  <2> QED BY <1>2, <2>1, <2>2, <2>3, Zenon DEF Calls
<1> QED BY <1>3, <1>4, Zenon DEF Moves

\* Return: a publish goes on to send its sample, any other call is over.
LEMMA ReturnMoves ==
  ASSUME thread \in [Threads -> Calls], NEW t \in Threads, Return(t)
  PROVE  /\ Moves(t) /\ thread'[t].gen = 0 /\ thread'[t].peers = {}
         /\ t \in Publishers => thread'[t].pc = "send" /\ thread'[t].sample = thread[t].sample
         /\ t \notin Publishers => thread'[t].pc = "idle" /\ thread'[t].sample = 0
<1>1. thread[t].sample \in Nat
  BY CallFields, Zenon
<1>2. "send" \in Places /\ "idle" \in Places
  BY Zenon DEF Places
<1>3. CASE t \in Publishers
  <2>1. Become(t, Busy("send", thread[t].sample))
    BY <1>3, Zenon DEF Return
  <2> QED BY <1>1, <1>2, <1>3, <2>1, BusyFields, BecomeMoves
<1>4. CASE t \notin Publishers
  <2>1. Become(t, Busy("idle", 0))
    BY <1>4, Zenon DEF Return, Idle
  <2> QED BY <1>2, <1>4, <2>1, BusyFields, BecomeMoves
<1> QED BY <1>3, <1>4, Zenon

\* The type invariant, variable by variable.
LEMMA Typed ==
  ASSUME RoutesTyped
  PROVE  /\ matched \subseteq Peers /\ known \subseteq Peers /\ routes \subseteq Peers
         /\ delivered \subseteq Peers /\ in_flight \subseteq Peers
         /\ gen \in Nat /\ last_gen \in Nat /\ samples \in Nat /\ events \in Nat
         /\ owed \in BOOLEAN /\ overlap \in BOOLEAN
         /\ retained \in Seq(Nat) /\ Len(retained) <= Depth
         /\ tasks \in [Peers -> Nat] /\ served \in [Peers -> Nat]
         /\ queue \in [Peers -> Seq(Nat)] /\ due \in [Peers -> SUBSET Nat]
         /\ thread \in [Threads -> Calls]
BY Zenon DEF RoutesTyped

\* The type invariant, for the local variables of a thread.
LEMMA CallTyped ==
  ASSUME RoutesTyped, NEW t \in Threads
  PROVE  /\ thread[t].pc \in Places /\ thread[t].sample \in Nat /\ thread[t].gen \in Nat
         /\ thread[t].peers \subseteq Peers /\ thread[t].batch \in Seq(Nat)
BY Typed, CallFields, Zenon

-----------------------------------------------------------------------------
(* What a step leaves alone *)

\* The part of the invariant that holds of the calls that overlap too.
Base == RoutesTyped /\ Generations /\ Entitled

\* While t is in a call no other thread is.
Sole(t) ==
  \A u \in Threads : u # t => thread[u].pc = "idle" /\ thread[u].sample = 0 /\ thread'[u] = thread[u]

\* If no two calls overlap, all other threads are idle and have no sample.
LEMMA SoleCall ==
  ASSUME Alone, Samples, NEW t \in Threads, ~ At(t, "idle"), Moves(t)
  PROVE  Sole(t)
<1> SUFFICES ASSUME NEW u \in Threads, u # t
             PROVE  thread[u].pc = "idle" /\ thread[u].sample = 0 /\ thread'[u] = thread[u]
  BY Zenon DEF Sole
<1>1. At(u, "idle")
  BY Zenon DEF Alone
<1> QED BY <1>1, Zenon DEF Samples, At, Moves

\* If no two calls overlap, a thread that is not rebuilding finds the routes settled, and
\* the other threads rebuild nothing.
LEMMA SoleSettled ==
  ASSUME NEW t \in Threads, Sole(t)
  PROVE  /\ Settled <=> thread[t].pc \notin Rebuilding
         /\ Settled' <=> thread'[t].pc \notin Rebuilding
         /\ Alone'
         /\ \A u \in Threads : u # t => Rebuilds(u)' /\ Tables(u)'
<1>1. "idle" \notin Rebuilding
  BY Zenon DEF Rebuilding
<1>2. \A u \in Threads : u # t => thread[u].pc = "idle" /\ thread'[u].pc = "idle"
  BY Zenon DEF Sole
<1>3. /\ Settled <=> thread[t].pc \notin Rebuilding
      /\ Settled' <=> thread'[t].pc \notin Rebuilding
  BY <1>1, <1>2, Zenon DEF Settled
<1>4. Alone'
  BY <1>2, Zenon DEF Alone, At
<1>5. ASSUME NEW u \in Threads, u # t PROVE Rebuilds(u)' /\ Tables(u)'
  <2>1. thread'[u].pc = "idle"
    BY <1>2, <1>5, Zenon
  <2>2. Rebuilds(u)'
    BY <1>1, <2>1, Zenon DEF Rebuilds
  <2>3. Tables(u)'
    BY <2>1, Zenon DEF Tables, At
  <2> QED BY <2>2, <2>3, Zenon
<1> QED BY <1>3, <1>4, <1>5, Zenon

\* Thread t keeps its sample and goes on, or returns, from where it is.
Onward(t) ==
  /\ thread'[t].sample = thread[t].sample
  /\ thread'[t].pc = "idle" => t \in Syncers
  /\ thread'[t].pc \in {"retain", "pending", "store", "send"} => t \in Publishers

\* A call that goes on keeps its sample; a route thread has none.
LEMMA OnwardSamples ==
  ASSUME Samples, NEW t \in Threads, ~ At(t, "idle"), Sole(t), Onward(t), samples' = samples
  PROVE  Samples'
<1> SUFFICES ASSUME NEW u \in Threads
             PROVE  /\ thread'[u].sample \in {0, samples}
                    /\ thread'[u].pc = "idle" \/ u \in Syncers => thread'[u].sample = 0
                    /\ u \in Publishers /\ thread'[u].pc # "idle" => thread'[u].sample # 0
                    /\ thread'[u].pc \in {"retain", "pending", "store", "send"} => u \in Publishers
  BY Zenon DEF Samples, At
<1>1. CASE u = t
  BY <1>1, Zenon DEF Samples, At, Onward
<1>2. CASE u # t
  BY <1>2, Zenon DEF Sole
<1> QED BY <1>1, <1>2, Zenon

\* The peers whose history t is still to send.
Pending(t) == IF At(t, "enqueue") THEN thread[t].peers ELSE {}

\* What a peer has of the history it still has if the queues and the history do not
\* change and no history is left unsent.
LEMMA OnwardHistory ==
  ASSUME NEW t \in Threads, Sole(t), Onward(t), UNCHANGED <<queue, retained>>,
         Pending(t) \subseteq Pending(t)', NEW p \in Peers, HasHistory(p)
  PROVE  HasHistory(p)'
<1> SUFFICES ASSUME NEW b \in Range(retained) PROVE Sent(p, b)'
  BY Zenon DEF HasHistory
<1>1. Sent(p, b)
  BY Zenon DEF HasHistory
<1>2. CASE b \in Range(queue[p])
  BY <1>2, Zenon DEF Sent
<1>3. CASE b \notin Range(queue[p])
  <2>1. PICK u \in Threads : thread[u].sample = b \/ (At(u, "enqueue") /\ p \in thread[u].peers)
    BY <1>1, <1>3, Zenon DEF Sent
  <2>2. CASE u # t
    BY <2>1, <2>2, Zenon DEF Sent, Sole, At
  <2>3. CASE u = t
    BY <2>1, <2>3, Zenon DEF Sent, Onward, At, Pending
  <2> QED BY <2>2, <2>3, Zenon
<1> QED BY <1>2, <1>3, Zenon

\* A call that goes on loses none of the samples that are due.
LEMMA OnwardKeeps ==
  ASSUME NEW t \in Threads, Sole(t), Onward(t), UNCHANGED <<queue, due>>, Pushed
  PROVE  Pushed'
<1> SUFFICES ASSUME NEW p \in Peers, NEW s \in due[p]
             PROVE  s \in Range(queue[p]) \/ \E u \in Threads : thread'[u].sample = s
  BY Zenon DEF Pushed
<1>1. s \in Range(queue[p]) \/ \E u \in Threads : thread[u].sample = s
  BY Zenon DEF Pushed
<1> QED BY <1>1, Zenon DEF Sole, Onward

\* The order of the samples depends on the pipelines and on the history only.
LEMMA OrderKept ==
  ASSUME UNCHANGED <<queue, retained, samples>>, Later, Numbers, FirstInOrder
  PROVE  Later' /\ Numbers' /\ FirstInOrder'
BY DEF Later, Numbers, FirstInOrder

\* The peers counted are at most those counted before.
LEMMA FewerCounted ==
  ASSUME delivered' \subseteq delivered, in_flight' \subseteq in_flight, served' = served
  PROVE  Counted' \subseteq Counted
BY Zenon DEF Counted

\* Who counts as served, or as about to be, is a peer.
LEMMA CountedPeers ==
  ASSUME RoutesTyped
  PROVE  Counted \subseteq Peers
BY Typed, Zenon DEF Counted

\* The invariant of calls that do not overlap, from its parts.
LEMMA Joined ==
  ASSUME NEW t \in Threads, Alone', Samples', Routed', Histories', Later', Numbers', Pushed', FirstInOrder',
         \A u \in Threads : u # t => Rebuilds(u)' /\ Tables(u)', Rebuilds(t)', Tables(t)'
  PROVE  Serial'
<1>1. \A u \in Threads : Rebuilds(u)' /\ Tables(u)'
  BY Zenon
<1> QED BY <1>1, Zenon DEF Serial

\* A step that changes neither queues nor retained samples, and counts no new peer.
LEMMA OnwardSerial ==
  ASSUME Base, Serial, NEW t \in Threads, ~ At(t, "idle"), Moves(t), Onward(t),
         UNCHANGED <<queue, retained, due, samples>>, Pending(t) \subseteq Pending(t)',
         Counted' \subseteq Counted
  PROVE  /\ Sole(t) /\ Alone' /\ Samples' /\ Later' /\ Numbers' /\ Pushed' /\ FirstInOrder'
         /\ \A u \in Threads : u # t => Rebuilds(u)' /\ Tables(u)'
         /\ Settled <=> thread[t].pc \notin Rebuilding
         /\ Settled' <=> thread'[t].pc \notin Rebuilding
         /\ \A p \in Peers : HasHistory(p) => HasHistory(p)'
         /\ \A p \in Counted' : HasHistory(p)'
<1>1. Sole(t)
  BY SoleCall, Zenon DEF Serial
<1>2. Samples'
  BY <1>1, OnwardSamples, Zenon DEF Serial
<1>3. Later' /\ Numbers' /\ FirstInOrder' /\ Pushed'
  BY <1>1, OrderKept, OnwardKeeps, Zenon DEF Serial
<1>4. \A p \in Peers : HasHistory(p) => HasHistory(p)'
  BY <1>1, OnwardHistory, Zenon
<1>5. \A p \in Counted' : HasHistory(p)'
  BY <1>4, CountedPeers, Zenon DEF Serial, Histories, Base
<1> QED BY <1>1, <1>2, <1>3, <1>4, <1>5, SoleSettled, Zenon

-----------------------------------------------------------------------------
(* The steps of sync_daemon_matches *)

\* A step of one thread keeps types and generations, and changes no one's right to
\* samples.
LEMMA BaseMoved ==
  ASSUME Base, NEW t \in Threads, Moves(t), thread'[t].gen <= gen,
         UNCHANGED <<shared, due, samples>>,
         queue' \in [Peers -> Seq(Nat)], retained' \in Seq(Nat), Len(retained') <= Depth,
         last_gen' \in Nat, last_gen' <= gen, events' \in Nat, overlap' \in BOOLEAN,
         known' \subseteq Peers, routes' \subseteq Peers, delivered' \subseteq Peers, in_flight' \subseteq Peers,
         tasks' \in [Peers -> Nat], served' \in [Peers -> Nat]
  PROVE  Base'
<1>1. RoutesTyped'
  <2>1. /\ {matched', known', routes', delivered', in_flight'} \subseteq SUBSET Peers
        /\ {gen', last_gen', samples', events'} \subseteq Nat /\ {owed', overlap'} \subseteq BOOLEAN
        /\ {tasks', served'} \subseteq [Peers -> Nat]
    BY Typed, Zenon DEF Base, shared
  <2>2. thread' \in [Threads -> Calls]
    BY Zenon DEF Moves
  <2>3. durability' \in Durabilities /\ due' \in [Peers -> SUBSET Nat]
    BY Zenon DEF Base, RoutesTyped, shared
  <2> QED BY <2>1, <2>2, <2>3, Zenon DEF RoutesTyped
<1>2. Generations'
  <2>1. \A u \in Threads : thread'[u].gen <= gen
    BY Zenon DEF Moves, Base, Generations
  <2> QED BY <2>1, Zenon DEF Generations, shared
<1>3. Entitled'
  BY Zenon DEF Base, Entitled, Owed, shared
<1> QED BY <1>1, <1>2, <1>3, Zenon DEF Base

\* The same for a step that leaves pipelines and history alone.
LEMMA BaseKept ==
  ASSUME Base, NEW t \in Threads, Moves(t), thread'[t].gen <= gen,
         UNCHANGED <<shared, queue, retained, due, samples>>,
         last_gen' \in Nat, last_gen' <= gen, events' \in Nat, overlap' \in BOOLEAN,
         known' \subseteq Peers, routes' \subseteq Peers, delivered' \subseteq Peers, in_flight' \subseteq Peers,
         tasks' \in [Peers -> Nat], served' \in [Peers -> Nat]
  PROVE  Base'
<1>1. queue' \in [Peers -> Seq(Nat)] /\ retained' \in Seq(Nat) /\ Len(retained') <= Depth
  BY Typed, Zenon DEF Base
<1> QED BY <1>1, BaseMoved, Zenon

\* A step that changes nothing but the place of the thread, and its generation.
Walks(t) ==
  /\ Moves(t) /\ Onward(t) /\ thread'[t].gen <= gen
  /\ UNCHANGED <<shared, last_gen, known, routes, store, queue, samples, events, history>>

\* A step that only moves a thread keeps types and generations.
LEMMA WalksBase ==
  ASSUME Base, NEW t \in Threads, Walks(t)
  PROVE  Base'
BY BaseKept, Typed, Zenon DEF Walks, Base, Generations, store, history

\* A step that only moves a thread, without entering the rebuild or leaving it early,
\* keeps the rest.
LEMMA WalksSerial ==
  ASSUME Base, Serial, NEW t \in Threads, ~ At(t, "idle"), Walks(t),
         thread[t].pc \notin Rebuilding, thread'[t].pc \notin Rebuilding, thread'[t].pc # "enqueue",
         thread'[t].pc = "send" => gen = last_gen \/ At(t, "enqueue"),
         At(t, "enqueue") => thread[t].peers = {}
  PROVE  Serial'
<1>1. Pending(t) \subseteq Pending(t)' /\ Counted' \subseteq Counted
  BY FewerCounted, Zenon DEF Pending, Walks, store
<1>2. /\ Sole(t) /\ Alone' /\ Samples' /\ Later' /\ Numbers' /\ Pushed' /\ FirstInOrder'
      /\ \A u \in Threads : u # t => Rebuilds(u)' /\ Tables(u)'
      /\ Settled /\ Settled'
      /\ \A p \in Peers : HasHistory(p) => HasHistory(p)'
      /\ \A p \in Counted' : HasHistory(p)'
  BY <1>1, OnwardSerial, Zenon DEF Walks, store, history
<1>3. Rebuilds(t)'
  BY Zenon DEF Rebuilds
<1>4. Tables(t)'
  <2>1. thread'[t].pc \notin {"clear_routes", "known", "no_known", "routes", "history", "no_routes",
                              "forget", "forget_pending", "enqueue"}
    BY Zenon DEF Rebuilding
  <2> QED BY <2>1, Zenon DEF Tables, At
<1>5. Routed'
  <2>1. UNCHANGED <<routes, known, owed, gen, last_gen, matched, due>>
    BY Zenon DEF Walks, shared, history
  <2>2. routes = known /\ (Current => routes = matched)
    BY <1>2, Zenon DEF Serial, Routed
  <2>3. ASSUME gen = last_gen \/ \E u \in Threads : thread'[u].pc = "enqueue" \/ thread'[u].pc = "send"
        PROVE  \A p \in Peers : Owed(p) => p \in routes
    <3>1. \A u \in Threads : u # t => thread'[u].pc = "idle"
      BY <1>2, Zenon DEF Sole
    <3>2. gen = last_gen \/ thread'[t].pc = "send"
      BY <2>3, <3>1, Zenon
    <3>3. gen = last_gen \/ \E u \in Threads : At(u, "enqueue") \/ At(u, "send")
      BY <3>2, Zenon
    <3> QED BY <1>2, <3>3, Zenon DEF Serial, Routed
  <2> QED BY <2>1, <2>2, <2>3, Zenon DEF Routed, Current, Owed, At
<1>6. Histories'
  <2>1. Counted' \subseteq routes' /\ \A p \in routes' : HasHistory(p)'
    <3>1. routes' = routes /\ routes \subseteq Peers
      BY Typed, Zenon DEF Walks, Base
    <3> QED BY <1>1, <1>2, <3>1, Zenon DEF Serial, Histories
  <2> QED BY <1>2, <2>1, Zenon DEF Histories
<1> QED BY <1>2, <1>3, <1>4, <1>5, <1>6, Joined, Zenon

\* After sync_daemon_matches a publish has its sample, and a route thread has none.
LEMMA ReturnOnward ==
  ASSUME Serial, RoutesTyped, NEW t \in Threads, ~ At(t, "idle"), Return(t)
  PROVE  /\ Moves(t) /\ Onward(t) /\ thread'[t].gen = 0 /\ thread'[t].peers = {}
         /\ thread'[t].pc \in {"send", "idle"}
<1>1. t \in Syncers => thread[t].sample = 0
  BY Zenon DEF Serial, Samples
<1> QED BY <1>1, ReturnMoves, Typed, Zenon DEF Onward, Threads

\* The steps before the rebuild, except for the one that retains the sample.
Ahead(t) == retain_remote_sample(t) \/ RetainPending(t) \/ Check(t)

\* The steps before the rebuild move the thread and change nothing else.
LEMMA AheadMoves ==
  ASSUME Base, NEW t \in Threads, Ahead(t)
  PROVE  /\ Moves(t) /\ thread'[t].gen <= gen
         /\ UNCHANGED <<shared, last_gen, known, routes, store, queue, samples, events, history>>
         /\ thread[t].pc \in {"retain", "pending", "check"}
<1>1. UNCHANGED <<shared, last_gen, known, routes, store, queue, samples, events, history>>
  BY Zenon DEF Ahead, retain_remote_sample, RetainPending, Check
<1>2. thread \in [Threads -> Calls] /\ gen \in Nat /\ thread[t].gen <= gen
  BY Typed, Zenon DEF Base, Generations
<1>3. CASE retain_remote_sample(t)
  <2>1. PICK pc \in {"check", "store", "pending"} : Goto(t, pc)
    BY <1>3, Zenon DEF retain_remote_sample
  <2>2. pc \in Places
    BY Zenon DEF Places
  <2> QED BY <1>1, <1>2, <1>3, <2>1, <2>2, GotoMoves, Zenon DEF retain_remote_sample, At
<1>4. CASE RetainPending(t)
  <2>1. PICK pc \in {"check", "store"} : Goto(t, pc)
    BY <1>4, Zenon DEF RetainPending
  <2>2. pc \in Places
    BY Zenon DEF Places
  <2> QED BY <1>1, <1>2, <1>4, <2>1, <2>2, GotoMoves, Zenon DEF RetainPending, At
<1>5. CASE Check(t)
  <2>1. CASE Return(t)
    BY <1>1, <1>2, <1>5, <2>1, ReturnMoves DEF Check, At
  <2>2. CASE Become(t, [thread[t] EXCEPT !.pc = "read", !.gen = gen])
    <3>1. PICK r : r = [thread[t] EXCEPT !.pc = "read", !.gen = gen]
      BY Zenon
    <3>2. Become(t, r)
      BY <2>2, <3>1, Zenon
    <3>3. r \in Calls /\ r.gen = gen
      <4>1. "read" \in Places /\ thread[t] \in Calls
        BY <1>2, Zenon DEF Places
      <4>2. PICK S : S = Seq(Nat)
        BY Zenon
      <4>3. thread[t] \in [pc : Places, sample : Nat, gen : Nat, peers : SUBSET Peers, batch : S]
        BY <4>1, <4>2, Zenon DEF Calls
      <4>4. r \in [pc : Places, sample : Nat, gen : Nat, peers : SUBSET Peers, batch : S] /\ r.gen = gen
        BY <1>2, <3>1, <4>1, <4>3, Zenon
      <4> QED BY <4>2, <4>4, Zenon DEF Calls
    <3>4. Moves(t) /\ thread'[t] = r
      BY <1>2, <3>2, <3>3, BecomeMoves, Zenon
    <3> QED BY <1>1, <1>2, <1>5, <3>3, <3>4 DEF Check, At
  <2> QED BY <1>5, <2>1, <2>2, Zenon DEF Check
<1> QED BY <1>3, <1>4, <1>5, Zenon DEF Ahead

\* retain_remote_sample's decisions and the comparison of response_gen keep the
\* invariant: a call skips the rebuild only if the routes are those of the present
\* generation.
LEMMA AheadStep ==
  ASSUME RoutesInv, NEW t \in Threads, Ahead(t)
  PROVE  RoutesInv'
<1>1. Base
  BY Zenon DEF RoutesInv, Base
<1>2. /\ Moves(t) /\ thread'[t].gen <= gen
      /\ UNCHANGED <<shared, last_gen, known, routes, store, queue, samples, events, history>>
      /\ thread[t].pc \in {"retain", "pending", "check"}
  BY <1>1, AheadMoves, Zenon
<1>3. Base'
  BY <1>1, <1>2, BaseKept, Typed, Zenon DEF Base, Generations, store, history
<1>4. ASSUME Serial PROVE Serial'
  <2>1. ~ At(t, "idle") /\ thread[t].pc \notin Rebuilding /\ ~ At(t, "enqueue")
    BY <1>2, Zenon DEF At, Rebuilding
  <2>2. /\ Onward(t) /\ thread'[t].pc \notin Rebuilding /\ thread'[t].pc # "enqueue"
        /\ thread'[t].pc = "send" => gen = last_gen
    <3>a. thread \in [Threads -> Calls]
      BY <1>1, Typed, Zenon DEF Base
    <3>b. thread[t].pc \in {"retain", "pending"} => t \in Publishers
      BY <1>4, Zenon DEF Serial, Samples
    <3>1. CASE retain_remote_sample(t) \/ RetainPending(t)
      <4>1. PICK pc \in {"check", "store", "pending"} : Goto(t, pc)
        BY <3>1, Zenon DEF retain_remote_sample, RetainPending
      <4>2. pc \in Places
        BY Zenon DEF Places
      <4>3. t \in Publishers
        BY <3>1, <3>b, Zenon DEF retain_remote_sample, RetainPending, At
      <4>4. thread'[t].pc \in {"check", "store", "pending"} /\ thread'[t].sample = thread[t].sample
        BY <3>a, <4>1, <4>2, GotoMoves, Zenon
      <4> QED BY <4>3, <4>4, Zenon DEF Onward, Rebuilding
    <3>2. CASE Check(t)
      <4>1. CASE gen = last_gen
        <5>1. Return(t)
          BY <3>2, <4>1, Zenon DEF Check
        <5> QED BY <1>1, <1>4, <2>1, <4>1, <5>1, ReturnOnward, Zenon DEF Base, Rebuilding
      <4>2. CASE gen # last_gen
        <5>1. Become(t, [thread[t] EXCEPT !.pc = "read", !.gen = gen])
          BY <3>2, <4>2, Zenon DEF Check
        <5>2. thread'[t] = [thread[t] EXCEPT !.pc = "read", !.gen = gen]
          BY <3>a, <5>1, Zenon DEF Become
        <5>3. thread[t] \in Calls
          BY <3>a, Zenon
        <5>4. thread'[t].pc = "read" /\ thread'[t].sample = thread[t].sample
          BY <5>2, <5>3, Zenon DEF Calls
        <5> QED BY <5>4, Zenon DEF Onward, Rebuilding
      <4> QED BY <4>1, <4>2, Zenon
    <3> QED BY <3>1, <3>2, Zenon DEF Ahead
  <2>3. Walks(t)
    BY <1>2, <2>2, Zenon DEF Walks
  <2> QED BY <1>1, <1>4, <2>1, <2>2, <2>3, WalksSerial, Zenon
<1>5. overlap' = overlap
  BY <1>2, Zenon DEF history
<1> QED BY <1>3, <1>4, <1>5, Zenon DEF RoutesInv, Base

\* A step into the rebuild, or in it.
LEMMA RebuildSerial ==
  ASSUME Base, Serial, NEW t \in Threads, ~ At(t, "idle"), ~ At(t, "enqueue"), Moves(t), Onward(t),
         UNCHANGED <<queue, retained, due, samples>>, Counted' \subseteq Counted,
         thread'[t].pc \in Rebuilding, Rebuilds(t)', Tables(t)'
  PROVE  Serial'
<1>1. Pending(t) \subseteq Pending(t)'
  BY Zenon DEF Pending
<1>2. /\ Sole(t) /\ Alone' /\ Samples' /\ Later' /\ Numbers' /\ Pushed' /\ FirstInOrder'
      /\ \A u \in Threads : u # t => Rebuilds(u)' /\ Tables(u)'
      /\ ~ Settled'
      /\ \A p \in Counted' : HasHistory(p)'
  BY <1>1, OnwardSerial, Zenon
<1>3. Routed' /\ Histories'
  BY <1>2, Zenon DEF Routed, Histories
<1> QED BY <1>2, <1>3, Joined, Zenon

\* last_gen gets the generation that the call has seen, and the matches are read after it:
\* they are those of that generation or of a later one.
LEMMA ReadStep ==
  ASSUME RoutesInv, NEW t \in Threads, Read(t)
  PROVE  RoutesInv'
<1>1. Base
  BY Zenon DEF RoutesInv, Base
<1>2. /\ thread \in [Threads -> Calls] /\ gen \in Nat /\ thread[t].gen <= gen /\ thread[t].gen \in Nat
      /\ matched \subseteq Peers
  BY <1>1, Typed, CallTyped, Zenon DEF Base, Generations
<1>3. PICK pc \in {"clear_known", "no_routes"} :
        /\ pc = "no_routes" => matched = {}
        /\ Become(t, [thread[t] EXCEPT !.pc = pc, !.peers = matched])
  BY Zenon DEF Read
<1>4. PICK r : r = [thread[t] EXCEPT !.pc = pc, !.peers = matched]
  BY Zenon
<1>5. Become(t, r)
  BY <1>3, <1>4, Zenon
<1>6. /\ r \in Calls /\ r.pc = pc /\ r.peers = matched /\ r.gen = thread[t].gen
      /\ r.sample = thread[t].sample
  <2>1. pc \in Places /\ thread[t] \in Calls
    BY <1>2, Zenon DEF Places
  <2>2. PICK S : S = Seq(Nat)
    BY Zenon
  <2>3. thread[t] \in [pc : Places, sample : Nat, gen : Nat, peers : SUBSET Peers, batch : S]
    BY <2>1, <2>2, Zenon DEF Calls
  <2>4. /\ r \in [pc : Places, sample : Nat, gen : Nat, peers : SUBSET Peers, batch : S]
        /\ r.pc = pc /\ r.peers = matched /\ r.gen = thread[t].gen /\ r.sample = thread[t].sample
    BY <1>2, <1>4, <2>1, <2>3, Zenon
  <2> QED BY <2>2, <2>4, Zenon DEF Calls
<1>7. Moves(t) /\ thread'[t] = r
  BY <1>2, <1>5, <1>6, BecomeMoves, Zenon
<1>8. /\ At(t, "read") /\ last_gen' = thread[t].gen
      /\ UNCHANGED <<shared, known, routes, store, queue, samples, events, history>>
  BY Zenon DEF Read
<1>9. Base'
  BY <1>1, <1>2, <1>6, <1>7, <1>8, BaseKept, Typed, Zenon DEF Base, store, history
<1>10. ASSUME Serial PROVE Serial'
  <2>1. ~ At(t, "idle") /\ ~ At(t, "enqueue")
    BY <1>8, Zenon DEF At
  <2>2. Onward(t) /\ thread'[t].pc \in Rebuilding
    BY <1>3, <1>6, <1>7, Zenon DEF Onward, Rebuilding
  <2>3. Rebuilds(t)'
    BY <1>1, <1>6, <1>7, <1>8, Zenon DEF Rebuilds, Owed, Base, Entitled, shared, history
  <2>4. Tables(t)'
    BY <1>3, <1>6, <1>7, Zenon DEF Tables, At
  <2>5. Counted' \subseteq Counted
    BY <1>8, FewerCounted, Zenon DEF store
  <2> QED BY <1>1, <1>7, <1>8, <1>10, <2>1, <2>2, <2>3, <2>4, <2>5, RebuildSerial, Zenon DEF store, history
<1> QED BY <1>8, <1>9, <1>10, Zenon DEF RoutesInv, Base, history

\* A step of the rebuild to the place pc.
Steps(t, pc) ==
  /\ Goto(t, pc) /\ pc \in Rebuilding
  /\ thread[t].pc \in Rebuilding
  /\ UNCHANGED <<shared, last_gen, retained, tasks, served, queue, samples, events, due>>
  /\ in_flight' = in_flight /\ delivered' \subseteq delivered
  /\ known' \subseteq known \cup thread[t].peers /\ routes' \subseteq routes \cup thread[t].peers
  /\ overlap' \in BOOLEAN /\ (overlap => overlap')

\* A step of the rebuild keeps the invariant if the tables are as its place says.
LEMMA StepsStep ==
  ASSUME RoutesInv, NEW t \in Threads, NEW pc, Steps(t, pc), Serial => Tables(t)' \/ overlap'
  PROVE  RoutesInv'
<1>1. Base
  BY Zenon DEF RoutesInv, Base
<1>2. /\ thread \in [Threads -> Calls] /\ thread[t].gen <= gen /\ thread[t].peers \subseteq Peers
      /\ gen \in Nat
  BY <1>1, Typed, CallTyped, Zenon DEF Base, Generations
<1>3. pc \in Places /\ pc \in Rebuilding
  BY Zenon DEF Steps, Places, Rebuilding
<1>4. /\ Moves(t) /\ thread'[t].pc = pc /\ thread'[t].sample = thread[t].sample
      /\ thread'[t].gen = thread[t].gen /\ thread'[t].peers = thread[t].peers
  BY <1>2, <1>3, GotoMoves, Zenon DEF Steps
<1>5. Base'
  <2>1. /\ UNCHANGED <<shared, queue, retained, due, samples>>
        /\ last_gen' \in Nat /\ last_gen' <= gen /\ events' \in Nat /\ overlap' \in BOOLEAN
        /\ tasks' \in [Peers -> Nat] /\ served' \in [Peers -> Nat]
    BY <1>1, Typed, Zenon DEF Base, Generations, Steps
  <2>2. /\ known' \subseteq Peers /\ routes' \subseteq Peers /\ delivered' \subseteq Peers
        /\ in_flight' \subseteq Peers
    BY <1>1, <1>2, Typed, Zenon DEF Base, Steps
  <2> QED BY <1>1, <1>2, <1>4, <2>1, <2>2, BaseKept, Zenon
<1>6. ASSUME Serial, ~ overlap' PROVE Serial'
  <2>1. ~ At(t, "idle") /\ ~ At(t, "enqueue") /\ thread[t].pc \in Rebuilding
    BY Zenon DEF Steps, At, Rebuilding
  <2>2. Onward(t)
    BY <1>3, <1>4, Zenon DEF Onward, Rebuilding
  <2>3. Rebuilds(t)'
    <3>1. Rebuilds(t)
      BY <1>6, Zenon DEF Serial
    <3> QED BY <1>4, <2>1, <3>1, Zenon DEF Rebuilds, Owed, Current, Steps, shared
  <2>4. Counted' \subseteq Counted
    BY FewerCounted, Zenon DEF Steps
  <2>5. UNCHANGED <<queue, retained, due, samples>>
    BY Zenon DEF Steps
  <2> QED BY <1>1, <1>3, <1>4, <1>6, <2>1, <2>2, <2>3, <2>4, <2>5, RebuildSerial, Zenon
<1>7. overlap => overlap'
  BY Zenon DEF Steps
<1> QED BY <1>5, <1>6, <1>7, Zenon DEF RoutesInv, Base

\* known_addrs is cleared.
LEMMA ClearKnownStep ==
  ASSUME RoutesInv, NEW t \in Threads, ClearKnown(t)
  PROVE  RoutesInv'
<1>1. PICK pc \in {"clear_routes", "forget"} :
        /\ Goto(t, pc)
        /\ pc = "clear_routes" => At(t, "clear_known")
        /\ pc = "forget" => At(t, "no_known")
  BY Zenon DEF ClearKnown
<1>2. /\ known' = {}
      /\ UNCHANGED <<shared, last_gen, routes, store, queue, samples, events, history>>
  BY Zenon DEF ClearKnown
<1>3. RoutesTyped /\ thread \in [Threads -> Calls] /\ overlap \in BOOLEAN
  BY Typed, Zenon DEF RoutesInv
<1>4. Steps(t, pc)
  BY <1>1, <1>2, <1>3, Zenon DEF Steps, Rebuilding, At, store, history
<1>5. thread'[t].pc = pc /\ thread'[t].peers = thread[t].peers
  BY <1>1, <1>3, GotoMoves, Zenon DEF Places
<1>6. ASSUME Serial PROVE Tables(t)'
  <2>1. Tables(t)
    BY <1>6, Zenon DEF Serial
  <2> QED BY <1>1, <1>2, <1>5, <2>1, Zenon DEF Tables, At
<1> QED BY <1>4, <1>6, StepsStep, Zenon

\* remote_routes is cleared.
LEMMA ClearRoutesStep ==
  ASSUME RoutesInv, NEW t \in Threads, ClearRoutes(t)
  PROVE  RoutesInv'
<1>1. PICK pc \in {"forget", "known", "no_known"} :
        /\ Goto(t, pc)
        /\ pc = "no_known" => At(t, "no_routes")
        /\ pc = "forget" => At(t, "clear_routes") /\ thread[t].peers = {}
        /\ pc = "known" => At(t, "clear_routes")
  BY Zenon DEF ClearRoutes, ClearedRoutes
<1>2. /\ routes' = {}
      /\ UNCHANGED <<shared, last_gen, known, store, queue, samples, events, history>>
  BY Zenon DEF ClearRoutes
<1>3. RoutesTyped /\ thread \in [Threads -> Calls] /\ overlap \in BOOLEAN
  BY Typed, Zenon DEF RoutesInv
<1>4. Steps(t, pc)
  BY <1>1, <1>2, <1>3, Zenon DEF Steps, Rebuilding, At, store, history
<1>5. thread'[t].pc = pc /\ thread'[t].peers = thread[t].peers
  BY <1>1, <1>3, GotoMoves, Zenon DEF Places
<1>6. ASSUME Serial PROVE Tables(t)'
  <2>1. Tables(t)
    BY <1>6, Zenon DEF Serial
  <2> QED BY <1>1, <1>2, <1>5, <2>1, Zenon DEF Tables, At
<1> QED BY <1>4, <1>6, StepsStep, Zenon

\* known_addrs gets the matches.
LEMMA FillKnownStep ==
  ASSUME RoutesInv, NEW t \in Threads, FillKnown(t)
  PROVE  RoutesInv'
<1>1. RoutesTyped /\ thread \in [Threads -> Calls] /\ overlap \in BOOLEAN
  BY Typed, Zenon DEF RoutesInv
<1>2. Steps(t, "routes")
  BY <1>1, Zenon DEF Steps, FillKnown, Rebuilding, At, store, history
<1>3. thread'[t].pc = "routes" /\ thread'[t].peers = thread[t].peers
  BY <1>1, GotoMoves, Zenon DEF Places, FillKnown
<1>4. ASSUME Serial PROVE Tables(t)'
  <2>1. Tables(t)
    BY <1>4, Zenon DEF Serial
  <2>2. At(t, "known") /\ known' = known \cup thread[t].peers /\ routes' = routes
    BY Zenon DEF FillKnown
  <2> QED BY <1>3, <2>1, <2>2, Zenon DEF Tables, At
<1> QED BY <1>2, <1>4, StepsStep, Zenon

\* remote_routes gets the matches: known_addrs has them, since no other call cleared it
\* meanwhile.
LEMMA FillRoutesStep ==
  ASSUME RoutesInv, NEW t \in Threads, FillRoutes(t)
  PROVE  RoutesInv'
<1>1. RoutesTyped /\ thread \in [Threads -> Calls] /\ overlap \in BOOLEAN
  BY Typed, Zenon DEF RoutesInv
<1>2. Steps(t, "history")
  BY <1>1, Zenon DEF Steps, FillRoutes, Rebuilding, At, store, history
<1>3. thread'[t].pc = "history" /\ thread'[t].peers = thread[t].peers
  BY <1>1, GotoMoves, Zenon DEF Places, FillRoutes
<1>4. ASSUME Serial PROVE Tables(t)'
  <2>1. Tables(t)
    BY <1>4, Zenon DEF Serial
  <2>2. At(t, "routes") /\ routes' = routes \cup (thread[t].peers \cap known) /\ known' = known
    BY Zenon DEF FillRoutes
  <2> QED BY <1>3, <2>1, <2>2, Zenon DEF Tables, At
<1> QED BY <1>2, <1>4, StepsStep, Zenon

\* No match is left: the record of deliveries is dropped.
LEMMA ForgetStep ==
  ASSUME RoutesInv, NEW t \in Threads, Forget(t)
  PROVE  RoutesInv'
<1>1. RoutesTyped /\ thread \in [Threads -> Calls] /\ overlap \in BOOLEAN
  BY Typed, Zenon DEF RoutesInv
<1>a. overlap' \in BOOLEAN /\ (overlap => overlap')
  BY <1>1, Zenon DEF Forget, Dropped
<1>2. Steps(t, "forget_pending")
  BY <1>1, <1>a, Zenon DEF Steps, Forget, Rebuilding, At
<1>3. thread'[t].pc = "forget_pending" /\ thread'[t].peers = thread[t].peers
  BY <1>1, GotoMoves, Zenon DEF Places, Forget
<1>4. ASSUME Serial PROVE Tables(t)'
  <2>1. Tables(t)
    BY <1>4, Zenon DEF Serial
  <2>2. At(t, "forget") /\ routes' = routes /\ known' = known
    BY Zenon DEF Forget
  <2> QED BY <1>3, <2>1, <2>2, Zenon DEF Tables, At
<1> QED BY <1>2, <1>4, StepsStep, Zenon

\* Dropped only ever records that a record was dropped too early.
LEMMA DroppedKeeps ==
  ASSUME RoutesTyped, NEW S, Dropped(S)
  PROVE  /\ overlap' \in BOOLEAN /\ (overlap => overlap')
         /\ ~ overlap' => \A p \in S : ~ (served[p] > 0) /\ p \notin delivered'
<1>1. overlap \in BOOLEAN
  BY Typed, Zenon
<1> QED BY <1>1, Zenon DEF Dropped

\* No match is left: the pending deliveries are dropped, and the empty routes are those
\* of the matches.
LEMMA ForgetPendingStep ==
  ASSUME RoutesInv, NEW t \in Threads, ForgetPending(t)
  PROVE  RoutesInv'
<1>1. Base /\ RoutesTyped
  BY Zenon DEF RoutesInv, Base
<1>2. /\ At(t, "forget_pending") /\ in_flight' = {} /\ Return(t) /\ Dropped(Peers)
      /\ UNCHANGED <<shared, last_gen, known, routes, retained, delivered, tasks, served, queue,
                     samples, events, due>>
  BY Zenon DEF ForgetPending
<1>3. overlap' \in BOOLEAN /\ (overlap => overlap')
  BY <1>1, <1>2, DroppedKeeps, Zenon
<1>4. Moves(t) /\ thread'[t].gen = 0
  BY <1>1, <1>2, ReturnMoves, Typed, Zenon
<1>5. Base'
  <2>0. gen \in Nat
    BY <1>1, Typed, Zenon
  <2>1. thread'[t].gen <= gen /\ last_gen <= gen /\ in_flight' \subseteq Peers
    BY <1>1, <1>2, <1>4, <2>0 DEF Base, Generations
  <2> QED BY <1>1, <1>2, <1>3, <1>4, <2>1, BaseKept, Typed, Zenon
<1>6. ASSUME Serial, ~ overlap' PROVE Serial'
  <2>1. ~ At(t, "idle") /\ ~ At(t, "enqueue") /\ thread[t].pc \in Rebuilding
    BY <1>2, Zenon DEF At, Rebuilding
  <2>2. Onward(t) /\ thread'[t].pc \in {"send", "idle"}
    BY <1>1, <1>2, <1>6, <2>1, ReturnOnward, Zenon
  <2>3. Counted' = {}
    <3>1. \A p \in Peers : ~ (served[p] > 0) /\ p \notin delivered'
      BY <1>1, <1>2, <1>6, DroppedKeeps, Zenon
    <3>2. delivered' \subseteq Peers
      BY <1>1, <1>2, Typed, Zenon
    <3> QED BY <1>2, <3>1, <3>2, Zenon DEF Counted
  <2>4. /\ Sole(t) /\ Alone' /\ Samples' /\ Later' /\ Numbers' /\ Pushed' /\ FirstInOrder'
        /\ \A u \in Threads : u # t => Rebuilds(u)' /\ Tables(u)'
    <3>1. Pending(t) \subseteq Pending(t)' /\ Counted' \subseteq Counted
      BY <2>1, <2>3, Zenon DEF Pending
    <3> QED BY <1>1, <1>2, <1>4, <1>6, <2>1, <2>2, <3>1, OnwardSerial, Zenon
  <2>5. Tables(t) /\ Rebuilds(t)
    BY <1>6, Zenon DEF Serial
  <2>6. routes = {} /\ known = {} /\ thread[t].peers = {}
    BY <1>2, <2>5, Zenon DEF Tables, At
  <2>7. Histories'
    BY <1>2, <2>3, <2>6, Zenon DEF Histories
  <2>8. Routed'
    <3>1. (Current => matched = {}) /\ \A p \in Peers : ~ Owed(p)
      BY <2>1, <2>5, <2>6, Zenon DEF Rebuilds
    <3> QED BY <1>2, <2>6, <3>1, Zenon DEF Routed, Current, Owed, shared
  <2>9. Rebuilds(t)' /\ Tables(t)'
    BY <2>2, Zenon DEF Rebuilds, Tables, At, Rebuilding
  <2> QED BY <2>4, <2>7, <2>8, <2>9, Joined, Zenon
<1> QED BY <1>3, <1>5, <1>6, Zenon DEF RoutesInv, Base

\* send_retained_history_to_new_peers: the peers that are not counted as served are to
\* get the history, so that every route has it or is about to.
LEMMA HistoryStep ==
  ASSUME RoutesInv, NEW t \in Threads, History(t)
  PROVE  RoutesInv'
<1>1. Base /\ RoutesTyped
  BY Zenon DEF RoutesInv, Base
<1>2. PICK ps : ps = thread[t].peers
  BY Zenon
<1>3. PICK new : new = IF retained = <<>> THEN {} ELSE ps \ (delivered \cup in_flight)
  BY Zenon
<1>4. /\ At(t, "history") /\ delivered' = delivered \cap ps /\ in_flight' = (in_flight \cap ps) \cup new
      /\ Become(t, [thread[t] EXCEPT !.pc = "enqueue", !.peers = new, !.batch = retained])
      /\ Dropped(Peers \ ps)
      /\ UNCHANGED <<shared, last_gen, known, routes, retained, tasks, served, queue, samples, events, due>>
  BY <1>2, <1>3, Zenon DEF History
<1>5. ps \subseteq Peers /\ new \subseteq ps /\ thread[t] \in Calls /\ retained \in Seq(Nat)
  BY <1>1, <1>2, <1>3, CallTyped, Typed, Zenon
<1>6. PICK r : r = [thread[t] EXCEPT !.pc = "enqueue", !.peers = new, !.batch = retained]
  BY Zenon
<1>7. /\ r \in Calls /\ r.pc = "enqueue" /\ r.peers = new /\ r.batch = retained
      /\ r.gen = thread[t].gen /\ r.sample = thread[t].sample
  <2>1. PICK S : S = Seq(Nat)
    BY Zenon
  <2>2. /\ thread[t] \in [pc : Places, sample : Nat, gen : Nat, peers : SUBSET Peers, batch : S]
        /\ retained \in S /\ "enqueue" \in Places /\ new \in SUBSET Peers
    BY <1>5, <2>1, Zenon DEF Calls, Places
  <2>3. /\ r \in [pc : Places, sample : Nat, gen : Nat, peers : SUBSET Peers, batch : S]
        /\ r.pc = "enqueue" /\ r.peers = new /\ r.batch = retained
        /\ r.gen = thread[t].gen /\ r.sample = thread[t].sample
    BY <1>6, <2>2, Zenon
  <2> QED BY <2>1, <2>3, Zenon DEF Calls
<1>8. Moves(t) /\ thread'[t] = r
  BY <1>1, <1>4, <1>6, <1>7, BecomeMoves, Typed, Zenon
<1>9. overlap' \in BOOLEAN /\ (overlap => overlap')
  BY <1>1, <1>4, DroppedKeeps, Zenon
<1>10. Base'
  <2>1. thread'[t].gen <= gen /\ last_gen <= gen
    BY <1>1, <1>7, <1>8, Zenon DEF Base, Generations
  <2>2. delivered' \subseteq Peers /\ in_flight' \subseteq Peers
    BY <1>4, <1>5, Zenon
  <2> QED BY <1>1, <1>4, <1>8, <1>9, <2>1, <2>2, BaseKept, Typed, Zenon
<1>11. ASSUME Serial, ~ overlap' PROVE Serial'
  <2>1. ~ At(t, "idle") /\ ~ At(t, "enqueue") /\ thread[t].pc \in Rebuilding
    BY <1>4, Zenon DEF At, Rebuilding
  <2>2. Onward(t) /\ thread'[t].pc = "enqueue" /\ thread'[t].peers = new /\ thread'[t].batch = retained
    BY <1>7, <1>8, Zenon DEF Onward
  <2>3. Sole(t) /\ Alone /\ Samples /\ Later /\ Numbers /\ Pushed /\ FirstInOrder
    BY <1>8, <1>11, <2>1, SoleCall, Zenon DEF Serial
  <2>4. /\ Alone' /\ (\A u \in Threads : u # t => Rebuilds(u)' /\ Tables(u)')
    BY <2>3, SoleSettled, Zenon
  <2>5. Samples' /\ Later' /\ Numbers' /\ Pushed' /\ FirstInOrder'
    BY <1>4, <2>1, <2>2, <2>3, OnwardSamples, OnwardKeeps, OrderKept, Zenon
  <2>6. Tables(t) /\ Rebuilds(t)
    BY <1>11, Zenon DEF Serial
  <2>7. routes = ps /\ known = ps
    BY <1>2, <1>4, <2>6, Zenon DEF Tables, At
  <2>8. Counted' \subseteq ps
    <3>1. \A p \in Peers \ ps : ~ (served[p] > 0)
      BY <1>1, <1>4, <1>11, DroppedKeeps, Zenon
    <3> QED BY <1>4, <1>5, <3>1, Zenon DEF Counted
  <2>9. ASSUME NEW p \in ps PROVE HasHistory(p)'
    <3>1. Pending(t) \subseteq Pending(t)'
      BY <2>1, Zenon DEF Pending
    <3>2. CASE p \in new
      BY <2>2, <3>2, Zenon DEF HasHistory, Sent, At
    <3>3. CASE p \notin new /\ retained = <<>>
      BY <1>4, <3>3 DEF HasHistory, Range
    <3>4. CASE p \notin new /\ retained # <<>>
      <4>1. p \in delivered \cup in_flight
        BY <1>3, <3>4, <2>9, Zenon
      <4>2. HasHistory(p) /\ p \in Peers
        BY <1>5, <1>11, <4>1, <2>9, Zenon DEF Serial, Histories, Counted
      <4> QED BY <1>4, <2>2, <2>3, <3>1, <4>2, OnwardHistory, Zenon
    <3> QED BY <3>2, <3>3, <3>4, Zenon
  <2>10. Histories'
    BY <1>4, <2>7, <2>8, <2>9, Zenon DEF Histories
  <2>11. Routed'
    <3>1. (Current => ps = matched) /\ \A p \in Peers : Owed(p) => p \in ps
      BY <1>2, <2>1, <2>6, Zenon DEF Rebuilds
    <3> QED BY <1>4, <2>7, <3>1, Zenon DEF Routed, Current, Owed, shared
  <2>12. Rebuilds(t)' /\ Tables(t)'
    BY <1>4, <2>2, Zenon DEF Rebuilds, Tables, At, Rebuilding
  <2> QED BY <2>4, <2>5, <2>10, <2>11, <2>12, Joined, Zenon
<1> QED BY <1>9, <1>10, <1>11, Zenon DEF RoutesInv, Base

\* The first disjunct of Enqueue: the history has been sent to all.
LEMMA EnqueuedStep ==
  ASSUME RoutesInv, NEW t \in Threads, At(t, "enqueue"), thread[t].peers = {}, Return(t),
         UNCHANGED <<shared, last_gen, known, routes, store, queue, samples, events, history>>
  PROVE  RoutesInv'
<1>1. Base /\ RoutesTyped
  BY Zenon DEF RoutesInv, Base
<1>2. Moves(t) /\ thread'[t].gen = 0 /\ gen \in Nat
  BY <1>1, ReturnMoves, Typed, Zenon
<1>3. Base'
  <2>1. thread'[t].gen <= gen /\ last_gen <= gen
    BY <1>1, <1>2 DEF Base, Generations
  <2> QED BY <1>1, <1>2, <2>1, BaseKept, Typed, Zenon DEF store, history
<1>4. ASSUME Serial PROVE Serial'
  <2>1. ~ At(t, "idle") /\ thread[t].pc \notin Rebuilding
    BY Zenon DEF At, Rebuilding
  <2>2. Onward(t) /\ thread'[t].pc \in {"send", "idle"}
    BY <1>1, <1>4, <2>1, ReturnOnward, Zenon
  <2>3. Walks(t) /\ thread'[t].pc \notin Rebuilding /\ thread'[t].pc # "enqueue"
    BY <1>2, <2>2 DEF Walks, Rebuilding
  <2> QED BY <1>1, <1>4, <2>1, <2>3, WalksSerial, Zenon
<1> QED BY <1>3, <1>4, Zenon DEF RoutesInv, Base, history

\* The other: one more peer.
Enqueues(t, p) ==
  /\ queue' = [queue EXCEPT ![p] = @ \o thread[t].batch]
  /\ tasks' = [tasks EXCEPT ![p] = @ + 1]
  /\ Become(t, [thread[t] EXCEPT !.peers = @ \ {p}])
  /\ UNCHANGED <<shared, last_gen, known, routes, retained, delivered, in_flight, served,
                 samples, events, history>>

\* The history of one peer is put in its pipeline, and one peer less is left.
LEMMA EnqueuesMoves ==
  ASSUME RoutesTyped, NEW t \in Threads, NEW p \in thread[t].peers, Enqueues(t, p)
  PROVE  /\ Moves(t) /\ thread'[t].pc = thread[t].pc /\ thread'[t].sample = thread[t].sample
         /\ thread'[t].gen = thread[t].gen /\ thread'[t].peers = thread[t].peers \ {p}
         /\ thread'[t].batch = thread[t].batch
         /\ queue' \in [Peers -> Seq(Nat)] /\ queue'[p] = queue[p] \o thread[t].batch
         /\ \A q \in Peers : q # p => queue'[q] = queue[q]
         /\ tasks' \in [Peers -> Nat] /\ p \in Peers
<1>1. /\ thread[t] \in Calls /\ thread[t].peers \subseteq Peers /\ thread[t].batch \in Seq(Nat)
      /\ queue \in [Peers -> Seq(Nat)] /\ tasks \in [Peers -> Nat] /\ p \in Peers
      /\ thread \in [Threads -> Calls]
  BY Typed, CallTyped, Zenon
<1>2. PICK r : r = [thread[t] EXCEPT !.peers = @ \ {p}]
  BY Zenon
<1>3. /\ r \in Calls /\ r.pc = thread[t].pc /\ r.sample = thread[t].sample /\ r.gen = thread[t].gen
      /\ r.peers = thread[t].peers \ {p} /\ r.batch = thread[t].batch
  <2>1. PICK S : S = Seq(Nat)
    BY Zenon
  <2>2. thread[t] \in [pc : Places, sample : Nat, gen : Nat, peers : SUBSET Peers, batch : S]
    BY <1>1, <2>1, Zenon DEF Calls
  <2>3. /\ r \in [pc : Places, sample : Nat, gen : Nat, peers : SUBSET Peers, batch : S]
        /\ r.pc = thread[t].pc /\ r.sample = thread[t].sample /\ r.gen = thread[t].gen
        /\ r.peers = thread[t].peers \ {p} /\ r.batch = thread[t].batch
    BY <1>2, <2>2, Zenon
  <2> QED BY <2>1, <2>3, Zenon DEF Calls
<1>4. Moves(t) /\ thread'[t] = r
  BY <1>1, <1>2, <1>3, BecomeMoves, Zenon DEF Enqueues
<1>5. PICK c : c = queue[p] \o thread[t].batch
  BY Zenon
<1>6. c \in Seq(Nat)
  BY <1>1, <1>5, RangeConcat, Zenon
<1>7. queue' = [queue EXCEPT ![p] = c]
  BY <1>5, Zenon DEF Enqueues
<1>8. /\ queue' \in [Peers -> Seq(Nat)] /\ queue'[p] = c
      /\ \A q \in Peers : q # p => queue'[q] = queue[q]
  BY <1>1, <1>6, <1>7, Zenon
<1>9. tasks' \in [Peers -> Nat]
  <2>1. tasks[p] + 1 \in Nat
    BY <1>1
  <2> QED BY <1>1, <2>1, Zenon DEF Enqueues
<1> QED BY <1>1, <1>3, <1>4, <1>5, <1>8, <1>9, Zenon

\* A call that sends a history keeps its place; what it has still to send is p less.
LEMMA EnqueuesSerial ==
  ASSUME Base, Serial, NEW t \in Threads, At(t, "enqueue"), NEW p \in thread[t].peers, Enqueues(t, p)
  PROVE  Serial'
<1>1. RoutesTyped
  BY Zenon DEF Base
<1>2. /\ Moves(t) /\ thread'[t].pc = thread[t].pc /\ thread'[t].sample = thread[t].sample
      /\ thread'[t].peers = thread[t].peers \ {p}
      /\ thread'[t].batch = thread[t].batch
      /\ queue' \in [Peers -> Seq(Nat)] /\ queue'[p] = queue[p] \o thread[t].batch
      /\ \A q \in Peers : q # p => queue'[q] = queue[q]
      /\ p \in Peers
  BY <1>1, EnqueuesMoves, Zenon
<1>3. /\ UNCHANGED <<shared, last_gen, known, routes, retained, delivered, in_flight, served,
                     samples, events, history>>
  BY Zenon DEF Enqueues
<1>4. /\ retained \in Seq(Nat) /\ queue \in [Peers -> Seq(Nat)] /\ queue[p] \in Seq(Nat)
      /\ samples \in Nat /\ routes \subseteq Peers /\ due \in [Peers -> SUBSET Nat]
  BY <1>1, <1>2, Typed, Zenon
<1>5. thread[t].batch = retained
  BY Zenon DEF Serial, Tables
<1>6. queue'[p] = queue[p] \o retained /\ Range(queue'[p]) = Range(queue[p]) \cup Range(retained)
  BY <1>2, <1>4, <1>5, RangeConcat
<1>7. ~ At(t, "idle") /\ thread[t].pc \notin Rebuilding /\ thread'[t].pc = "enqueue"
  BY <1>2, Zenon DEF At, Rebuilding
<1>8. Sole(t)
  BY <1>2, <1>7, SoleCall, Zenon DEF Serial
<1>9. /\ Alone' /\ Settled /\ Settled'
      /\ \A u \in Threads : u # t => Rebuilds(u)' /\ Tables(u)'
  BY <1>2, <1>7, <1>8, SoleSettled, Zenon
<1>10. Onward(t)
  BY <1>2, <1>7, Zenon DEF Onward
<1>11. Samples'
  BY <1>3, <1>7, <1>8, <1>10, OnwardSamples, Zenon DEF Serial
<1>12. \A q \in Peers : Range(queue[q]) \subseteq Range(queue'[q])
  BY <1>2, <1>6, Zenon
<1>13. Numbers'
  <2>1. Range(retained) \subseteq 1..samples /\ \A q \in Peers : Range(queue[q]) \subseteq 1..samples
    BY Zenon DEF Serial, Numbers
  <2>2. \A q \in Peers : Range(queue'[q]) \subseteq 1..samples
    BY <1>2, <1>6, <2>1, Zenon
  <2> QED BY <1>3, <2>2, Zenon DEF Serial, Numbers
<1>14. Routed'
  <2>1. \A q \in Peers : Owed(q) => q \in routes
    BY <1>9, Zenon DEF Serial, Routed
  <2>2. routes = known /\ (Current => routes = matched)
    BY <1>9, Zenon DEF Serial, Routed
  <2> QED BY <1>3, <2>1, <2>2, Zenon DEF Routed, Current, Owed, shared, history
<1>15. Later'
  <2> SUFFICES ASSUME NEW q \in Peers, NEW b \in Range(retained), NEW c \in Range(queue'[q])
               PROVE  b \in Range(queue'[q]) \/ c < b
    BY <1>3, Zenon DEF Later
  <2>1. CASE q = p
    BY <1>6, <2>1, Zenon
  <2>2. CASE q # p
    BY <1>2, <2>2, Zenon DEF Serial, Later
  <2> QED BY <2>1, <2>2, Zenon
<1>16. Pushed'
  <2> SUFFICES ASSUME NEW q \in Peers, NEW s \in due[q]
               PROVE  s \in Range(queue'[q]) \/ \E u \in Threads : thread'[u].sample = s
    BY <1>3, Zenon DEF Pushed, history
  <2>1. s \in Range(queue[q]) \/ \E u \in Threads : thread[u].sample = s
    BY Zenon DEF Serial, Pushed
  <2> QED BY <1>2, <1>8, <1>12, <2>1, Zenon DEF Sole
<1>17. FirstInOrder'
  <2> SUFFICES ASSUME NEW q \in Peers PROVE Ordered(queue'[q])
    BY Zenon DEF FirstInOrder, Ordered
  <2>1. Ordered(queue[q])
    BY Zenon DEF Serial, FirstInOrder, Ordered
  <2>2. CASE q = p
    <3>1. \A x \in Range(retained), c \in Range(queue[p]) : x \in Range(queue[p]) \/ c < x
      BY <1>2, Zenon DEF Serial, Later
    <3>2. Sorted(retained)
      BY Zenon DEF Serial, Numbers
    <3> QED BY <1>4, <1>6, <2>1, <2>2, <3>1, <3>2, OrderedConcat, Zenon
  <2>3. CASE q # p
    BY <1>2, <2>1, <2>3, Zenon
  <2> QED BY <2>2, <2>3, Zenon
<1>18. ASSUME NEW q \in Peers, HasHistory(q) PROVE HasHistory(q)'
  <2> SUFFICES ASSUME NEW b \in Range(retained) PROVE Sent(q, b)'
    BY <1>3, Zenon DEF HasHistory
  <2>1. Sent(q, b)
    BY <1>18, Zenon DEF HasHistory
  <2>2. CASE q = p
    BY <1>6, <2>2, Zenon DEF Sent
  <2>3. CASE q # p /\ b \in Range(queue[q])
    BY <1>12, <2>3, Zenon DEF Sent
  <2>4. CASE q # p /\ b \notin Range(queue[q])
    <3>1. PICK u \in Threads : thread[u].sample = b \/ (At(u, "enqueue") /\ q \in thread[u].peers)
      BY <2>1, <2>4, Zenon DEF Sent
    <3>2. thread'[u].sample = thread[u].sample
      BY <1>2, <1>8, Zenon DEF Sole
    <3>3. At(u, "enqueue") /\ q \in thread[u].peers => thread'[u].pc = "enqueue" /\ q \in thread'[u].peers
      BY <1>2, <1>8, <2>4, Zenon DEF Sole, At
    <3> QED BY <3>1, <3>2, <3>3, Zenon DEF Sent, At
  <2> QED BY <2>2, <2>3, <2>4, Zenon
<1>19. Histories'
  <2>1. Counted' = Counted /\ Counted \subseteq Peers
    BY <1>1, <1>3, CountedPeers, Zenon DEF Counted
  <2>2. (\A q \in Counted : HasHistory(q)) /\ Counted \subseteq routes /\ \A q \in routes : HasHistory(q)
    BY <1>9, Zenon DEF Serial, Histories
  <2>3. (\A q \in Counted : HasHistory(q)') /\ \A q \in routes : HasHistory(q)'
    BY <1>4, <1>18, <2>1, <2>2, Zenon
  <2> QED BY <1>3, <2>1, <2>2, <2>3, Zenon DEF Histories
<1>20. Rebuilds(t)' /\ Tables(t)'
  BY <1>2, <1>3, <1>5, <1>7, Zenon DEF Rebuilds, Tables, At, Rebuilding
<1> QED BY <1>9, <1>11, <1>13, <1>14, <1>15, <1>16, <1>17, <1>19, <1>20, Joined, Zenon

\* send_retained_history keeps the invariant.
LEMMA EnqueueStep ==
  ASSUME RoutesInv, NEW t \in Threads, Enqueue(t)
  PROVE  RoutesInv'
<1>1. Base /\ RoutesTyped
  BY Zenon DEF RoutesInv, Base
<1>2. CASE thread[t].peers = {} /\ Return(t) /\ UNCHANGED <<queue, tasks>>
  BY <1>2, EnqueuedStep, Zenon DEF Enqueue, store
<1>3. ASSUME NEW p \in thread[t].peers, Enqueues(t, p) PROVE RoutesInv'
  <2>1. /\ Moves(t) /\ thread'[t].gen = thread[t].gen
        /\ queue' \in [Peers -> Seq(Nat)] /\ tasks' \in [Peers -> Nat]
    BY <1>1, <1>3, EnqueuesMoves, Zenon
  <2>2. /\ UNCHANGED <<shared, last_gen, known, routes, retained, delivered, in_flight, served,
                       samples, events, history>>
    BY <1>3, Zenon DEF Enqueues
  <2>3. thread[t].gen <= gen /\ last_gen <= gen
    BY <1>1, Zenon DEF Base, Generations
  <2>4. Base'
    BY <1>1, <2>1, <2>2, <2>3, BaseMoved, Typed, Zenon DEF history
  <2>5. Serial => Serial'
    BY <1>1, <1>3, EnqueuesSerial, Zenon DEF Enqueue
  <2>6. overlap' = overlap
    BY <2>2, Zenon DEF history
  <2> QED BY <2>4, <2>5, <2>6, Zenon DEF RoutesInv, Base
<1>4. CASE \E p \in thread[t].peers : Enqueues(t, p)
  BY <1>3, <1>4, Zenon
<1> QED BY <1>2, <1>4, Zenon DEF Enqueue, Enqueues

\* publish_with_gid's send ends the call and changes pipelines only.
LEMMA SendMoves ==
  ASSUME RoutesTyped, NEW t \in Threads, Send(t)
  PROVE  /\ Moves(t) /\ thread'[t].pc = "idle" /\ thread'[t].sample = 0 /\ thread'[t].gen = 0
         /\ queue' \in [Peers -> Seq(Nat)]
         /\ \A p \in Peers : /\ p \in routes \cap known => queue'[p] = Append(queue[p], thread[t].sample)
                             /\ p \notin routes \cap known => queue'[p] = queue[p]
<1>1. thread \in [Threads -> Calls] /\ queue \in [Peers -> Seq(Nat)] /\ thread[t].sample \in Nat
  BY Typed, CallTyped, Zenon
<1>2. Become(t, Busy("idle", 0)) /\ "idle" \in Places
  BY Zenon DEF Send, Idle, Places
<1>3. /\ Moves(t) /\ thread'[t].pc = "idle" /\ thread'[t].sample = 0 /\ thread'[t].gen = 0
  BY <1>1, <1>2, BusyFields, BecomeMoves
<1>4. ASSUME NEW p \in Peers
      PROVE  (IF p \in routes \cap known THEN Append(queue[p], thread[t].sample) ELSE queue[p]) \in Seq(Nat)
  BY <1>1, RangeAppend, Zenon
<1>5. queue' = [p \in Peers |-> IF p \in routes \cap known
                               THEN Append(queue[p], thread[t].sample) ELSE queue[p]]
  BY Zenon DEF Send
<1> QED BY <1>3, <1>4, <1>5, Zenon

\* publish_with_gid's send: every peer with a right to the sample has a route and an
\* address, and the sample is the last one, so it is in order.
LEMMA SendSerial ==
  ASSUME Base, Serial, NEW t \in Threads, Send(t)
  PROVE  Serial'
<1>1. RoutesTyped
  BY Zenon DEF Base
<1>2. /\ Moves(t) /\ thread'[t].pc = "idle" /\ thread'[t].sample = 0
      /\ queue' \in [Peers -> Seq(Nat)]
      /\ \A p \in Peers : /\ p \in routes \cap known => queue'[p] = Append(queue[p], thread[t].sample)
                          /\ p \notin routes \cap known => queue'[p] = queue[p]
  BY <1>1, SendMoves, Zenon
<1>3. /\ At(t, "send")
      /\ UNCHANGED <<shared, last_gen, known, routes, store, samples, events, history>>
  BY Zenon DEF Send
<1>4. /\ retained \in Seq(Nat) /\ queue \in [Peers -> Seq(Nat)] /\ samples \in Nat
      /\ routes \subseteq Peers /\ due \in [Peers -> SUBSET Nat]
  BY <1>1, Typed, Zenon
<1>5. ~ At(t, "idle") /\ thread[t].pc \notin Rebuilding /\ thread'[t].pc \notin Rebuilding
  BY <1>2, <1>3, Zenon DEF At, Rebuilding
<1>6. Sole(t)
  BY <1>2, <1>5, SoleCall, Zenon DEF Serial
<1>7. /\ Alone' /\ Settled /\ Settled'
      /\ \A u \in Threads : u # t => Rebuilds(u)' /\ Tables(u)'
  BY <1>5, <1>6, SoleSettled, Zenon
<1>8. thread[t].sample = samples /\ thread[t].sample \in 1..samples /\ t \in Publishers
  <2>1. /\ thread[t].sample \in {0, samples} /\ t \in Publishers /\ thread[t].sample # 0
    BY <1>3, <1>5, Zenon DEF Serial, Samples, At
  <2> QED BY <1>4, <2>1
<1>9. routes = known
  BY <1>7, Zenon DEF Serial, Routed
<1>10. /\ \A p \in Peers : /\ queue[p] \in Seq(Nat) /\ Range(queue[p]) \subseteq 1..samples
                           /\ p \in routes => queue'[p] = Append(queue[p], samples)
                                              /\ Range(queue'[p]) = Range(queue[p]) \cup {samples}
                           /\ p \notin routes => queue'[p] = queue[p]
  <2> SUFFICES ASSUME NEW p \in Peers
               PROVE  /\ queue[p] \in Seq(Nat) /\ Range(queue[p]) \subseteq 1..samples
                      /\ p \in routes => queue'[p] = Append(queue[p], samples)
                                         /\ Range(queue'[p]) = Range(queue[p]) \cup {samples}
                      /\ p \notin routes => queue'[p] = queue[p]
    BY Zenon
  <2>1. queue[p] \in Seq(Nat)
    BY <1>4, Zenon
  <2>2. Range(queue[p]) \subseteq 1..samples
    BY Zenon DEF Serial, Numbers
  <2>3. p \notin routes => queue'[p] = queue[p]
    BY <1>2, Zenon
  <2>4. p \in routes => queue'[p] = Append(queue[p], samples)
    BY <1>2, <1>8, <1>9, Zenon
  <2>5. Range(Append(queue[p], samples)) = Range(queue[p]) \cup {samples}
    BY <1>4, <2>1, RangeAppend, Zenon
  <2> QED BY <2>1, <2>2, <2>3, <2>4, <2>5, Zenon
<1>11. \A p \in Peers : Range(queue[p]) \subseteq Range(queue'[p])
  BY <1>10, Zenon
<1>12. Samples'
  <2> SUFFICES ASSUME NEW u \in Threads
               PROVE  /\ thread'[u].sample = 0 /\ thread'[u].pc = "idle"
    BY <1>4, Zenon DEF Samples, At
  <2> QED BY <1>2, <1>6, Zenon DEF Sole
<1>13. Numbers'
  <2>1. \A p \in Peers : Range(queue'[p]) \subseteq 1..samples
    BY <1>8, <1>10, Zenon
  <2> QED BY <1>3, <2>1, Zenon DEF Serial, Numbers, store
<1>14. Routed'
  <2>1. \A u \in Threads : thread'[u].pc = "idle"
    BY <1>2, <1>6, Zenon DEF Sole
  <2>2. /\ Current => routes = matched
        /\ \A p \in Peers : Owed(p) => p \in routes
    BY <1>3, <1>7, Zenon DEF Serial, Routed
  <2> QED BY <1>3, <1>9, <2>1, <2>2, Zenon DEF Routed, Current, Owed, shared, history
\* A peer with a route lacks no retained sample but the one that is being sent.
<1>15. ASSUME NEW p \in routes PROVE \A b \in Range(retained) : b \in Range(queue[p]) \/ b = samples
  <2>1. HasHistory(p)
    BY <1>7, <1>15, Zenon DEF Serial, Histories
  <2> SUFFICES ASSUME NEW b \in Range(retained), b \notin Range(queue[p]) PROVE b = samples
    BY Zenon
  <2>2. PICK u \in Threads : thread[u].sample = b \/ (At(u, "enqueue") /\ p \in thread[u].peers)
    BY <2>1, Zenon DEF HasHistory, Sent
  <2>3. ~ At(u, "enqueue")
    BY <1>3, <1>6, Zenon DEF Sole, At
  <2>4. b \in 1..samples
    BY Zenon DEF Serial, Numbers
  <2> QED BY <1>4, <1>6, <1>8, <2>2, <2>3, <2>4 DEF Sole
<1>16. Later'
  <2> SUFFICES ASSUME NEW p \in Peers, NEW b \in Range(retained), NEW c \in Range(queue'[p])
               PROVE  b \in Range(queue'[p]) \/ c < b
    BY <1>3, Zenon DEF Later, store
  <2>1. CASE p \in routes
    BY <1>10, <1>15, <2>1, Zenon
  <2>2. CASE p \notin routes
    BY <1>10, <2>2, Zenon DEF Serial, Later
  <2> QED BY <2>1, <2>2, Zenon
<1>17. Pushed'
  <2> SUFFICES ASSUME NEW p \in Peers, NEW s \in due[p] PROVE s \in Range(queue'[p])
    BY <1>3, Zenon DEF Pushed, history
  <2>1. p \in routes
    BY <1>3, <1>7, Zenon DEF Serial, Routed, Owed
  <2>2. s \in Range(queue[p]) \/ \E u \in Threads : thread[u].sample = s
    BY Zenon DEF Serial, Pushed
  <2>3. s \in 1..samples
    BY Zenon DEF Base, Entitled
  <2>4. ASSUME NEW u \in Threads, thread[u].sample = s PROVE s = samples
    <3>1. u = t
      BY <1>4, <1>6, <2>3, <2>4 DEF Sole
    <3> QED BY <1>8, <2>4, <3>1, Zenon
  <2> QED BY <1>10, <2>1, <2>2, <2>4, Zenon
<1>18. FirstInOrder'
  <2> SUFFICES ASSUME NEW p \in Peers PROVE Ordered(queue'[p])
    BY Zenon DEF FirstInOrder, Ordered
  <2>1. Ordered(queue[p])
    BY Zenon DEF Serial, FirstInOrder, Ordered
  <2>2. CASE p \in routes
    <3>1. \A x \in Range(queue[p]) : x <= samples
      BY <1>4, <1>10
    <3> QED BY <1>4, <1>10, <2>1, <2>2, <3>1, OrderedAppend, Zenon
  <2>3. CASE p \notin routes
    BY <1>10, <2>1, <2>3, Zenon
  <2> QED BY <2>2, <2>3, Zenon
<1>19. ASSUME NEW p \in routes PROVE HasHistory(p)'
  <2>1. p \in Peers
    BY <1>4, <1>19, Zenon
  <2>2. \A b \in Range(retained) : b \in Range(queue'[p])
    BY <1>10, <1>15, <1>19, <2>1, Zenon
  <2> QED BY <1>3, <2>2, Zenon DEF HasHistory, Sent, store
<1>20. Histories'
  <2>1. Counted' = Counted
    BY <1>3, Zenon DEF Counted, store
  <2>2. Counted \subseteq routes
    BY <1>7, Zenon DEF Serial, Histories
  <2> QED BY <1>3, <1>19, <2>1, <2>2, Zenon DEF Histories
<1>21. Rebuilds(t)' /\ Tables(t)'
  BY <1>2, Zenon DEF Rebuilds, Tables, At, Rebuilding
<1> QED BY <1>7, <1>12, <1>13, <1>14, <1>16, <1>17, <1>18, <1>20, <1>21, Joined, Zenon

\* publish_with_gid's send keeps the invariant.
LEMMA SendStep ==
  ASSUME RoutesInv, NEW t \in Threads, Send(t)
  PROVE  RoutesInv'
<1>1. Base /\ RoutesTyped
  BY Zenon DEF RoutesInv, Base
<1>2. /\ Moves(t) /\ thread'[t].gen = 0 /\ queue' \in [Peers -> Seq(Nat)]
  BY <1>1, SendMoves, Zenon
<1>3. UNCHANGED <<shared, last_gen, known, routes, store, samples, events, history>>
  BY Zenon DEF Send
<1>4. gen \in Nat /\ last_gen <= gen
  BY <1>1, Typed, Zenon DEF Base, Generations
<1>5. Base'
  <2>1. thread'[t].gen <= gen
    BY <1>2, <1>4
  <2> QED BY <1>1, <1>2, <1>3, <1>4, <2>1, BaseMoved, Typed, Zenon DEF store, history
<1>6. Serial => Serial'
  BY <1>1, SendSerial, Zenon
<1> QED BY <1>3, <1>5, <1>6, Zenon DEF RoutesInv, Base, history

\* retain_remote_sample's write keeps the history bounded and in order.
LEMMA RetainedHistory ==
  ASSUME RoutesTyped, NEW s \in Nat, retained' = Bounded(Append(retained, s))
  PROVE  /\ retained' \in Seq(Nat) /\ Len(retained') <= Depth
         /\ Range(retained') \subseteq Range(retained) \cup {s}
         /\ Sorted(retained) /\ (\A x \in Range(retained) : x <= s) => Sorted(retained')
<1>1. retained \in Seq(Nat)
  BY Typed, Zenon
<1>2. PICK h \in Seq(Nat) : h = Append(retained, s)
  BY <1>1, RangeAppend, Zenon
<1>3. Range(h) = Range(retained) \cup {s}
  BY <1>1, <1>2, RangeAppend, Zenon
<1>4. retained' = Bounded(h)
  BY <1>2, Zenon
<1>5. Sorted(retained) /\ (\A x \in Range(retained) : x <= s) => Sorted(h)
  BY <1>1, <1>2, SortedAppend, Zenon
<1> QED BY <1>3, <1>4, <1>5, BoundedKeeps, Zenon

\* The sample that joins the history is about to be sent to all routes.
LEMMA RetainStoreSerial ==
  ASSUME Base, Serial, NEW t \in Threads, RetainStore(t)
  PROVE  Serial'
<1>1. RoutesTyped
  BY Zenon DEF Base
<1>2. /\ At(t, "store") /\ retained' = Bounded(Append(retained, thread[t].sample)) /\ Goto(t, "check")
      /\ UNCHANGED <<shared, last_gen, known, routes, delivered, in_flight, tasks, served, queue,
                     samples, events, history>>
  BY Zenon DEF RetainStore
<1>3. /\ Moves(t) /\ thread'[t].pc = "check" /\ thread'[t].sample = thread[t].sample
  BY <1>1, <1>2, GotoMoves, Typed, Zenon DEF Places
<1>4. /\ samples \in Nat /\ routes \subseteq Peers /\ queue \in [Peers -> Seq(Nat)]
  BY <1>1, Typed, Zenon
<1>5. ~ At(t, "idle") /\ thread[t].pc \notin Rebuilding /\ thread'[t].pc \notin Rebuilding
  BY <1>2, <1>3, Zenon DEF At, Rebuilding
<1>6. thread[t].sample = samples /\ samples \in 1..samples
  <2>1. /\ thread[t].sample \in {0, samples} /\ thread[t].sample # 0
    BY <1>2, <1>5, Zenon DEF Serial, Samples, At
  <2> QED BY <1>4, <2>1
<1>7. Sole(t) /\ Onward(t)
  BY <1>3, <1>5, SoleCall, Zenon DEF Serial, Onward
<1>8. /\ Alone' /\ Settled /\ Settled'
      /\ \A u \in Threads : u # t => Rebuilds(u)' /\ Tables(u)'
  BY <1>5, <1>7, SoleSettled, Zenon
<1>9. Samples' /\ Pushed'
  BY <1>2, <1>5, <1>7, OnwardSamples, OnwardKeeps, Zenon DEF Serial, history
<1>10. FirstInOrder'
  BY <1>2 DEF Serial, FirstInOrder
<1>11. /\ Range(retained) \subseteq 1..samples /\ Sorted(retained)
       /\ \A p \in Peers : Range(queue[p]) \subseteq 1..samples
  BY Zenon DEF Serial, Numbers
<1>12. Range(retained') \subseteq Range(retained) \cup {samples} /\ Sorted(retained')
  <2>1. \A x \in Range(retained) : x <= samples
    BY <1>4, <1>11
  <2> QED BY <1>1, <1>2, <1>4, <1>6, <1>11, <2>1, RetainedHistory, Zenon
<1>13. Numbers'
  BY <1>2, <1>6, <1>11, <1>12, Zenon DEF Numbers
<1>14. Later'
  <2> SUFFICES ASSUME NEW p \in Peers, NEW b \in Range(retained'), NEW c \in Range(queue[p])
               PROVE  b \in Range(queue[p]) \/ c < b
    BY <1>2, Zenon DEF Later
  <2>1. CASE b \in Range(retained)
    BY <2>1, Zenon DEF Serial, Later
  <2>2. CASE b = samples
    <3>1. c \in 1..samples
      BY <1>11, Zenon
    <3> QED BY <1>4, <2>2, <3>1
  <2> QED BY <1>12, <2>1, <2>2, Zenon
<1>15. ASSUME NEW p \in Peers, HasHistory(p) PROVE HasHistory(p)'
  <2> SUFFICES ASSUME NEW b \in Range(retained') PROVE Sent(p, b)'
    BY Zenon DEF HasHistory
  <2>1. CASE b \in Range(retained)
    <3>1. Sent(p, b)
      BY <1>15, <2>1, Zenon DEF HasHistory
    <3>2. CASE b \in Range(queue[p])
      BY <1>2, <3>2, Zenon DEF Sent
    <3>3. CASE b \notin Range(queue[p])
      <4>1. PICK u \in Threads : thread[u].sample = b \/ (At(u, "enqueue") /\ p \in thread[u].peers)
        BY <3>1, <3>3, Zenon DEF Sent
      <4>2. ~ At(u, "enqueue")
        BY <1>2, <1>7, Zenon DEF Sole, At
      <4>3. thread'[u].sample = thread[u].sample
        BY <1>3, <1>7, Zenon DEF Sole
      <4> QED BY <4>1, <4>2, <4>3, Zenon DEF Sent
    <3> QED BY <3>2, <3>3, Zenon
  <2>2. CASE b = samples
    BY <1>3, <1>6, <2>2, Zenon DEF Sent
  <2> QED BY <1>12, <2>1, <2>2, Zenon
<1>16. Histories'
  <2>1. Counted' = Counted /\ Counted \subseteq Peers
    BY <1>1, <1>2, CountedPeers, Zenon DEF Counted
  <2>2. (\A p \in Counted : HasHistory(p)) /\ Counted \subseteq routes /\ \A p \in routes : HasHistory(p)
    BY <1>8, Zenon DEF Serial, Histories
  <2>3. (\A p \in Counted : HasHistory(p)') /\ \A p \in routes : HasHistory(p)'
    BY <1>4, <1>15, <2>1, <2>2, Zenon
  <2> QED BY <1>2, <2>1, <2>2, <2>3, Zenon DEF Histories
<1>17. Routed'
  <2>1. /\ routes = known /\ (Current => routes = matched)
        /\ gen = last_gen => \A p \in Peers : Owed(p) => p \in routes
    BY <1>8, Zenon DEF Serial, Routed
  <2>2. \A u \in Threads : thread'[u].pc \in {"idle", "check"}
    BY <1>3, <1>7, Zenon DEF Sole
  <2>3. ~ \E u \in Threads : thread'[u].pc = "enqueue" \/ thread'[u].pc = "send"
    BY <2>2, Zenon
  <2> QED BY <1>2, <2>1, <2>3, Zenon DEF Routed, Current, Owed, At, shared, history
<1>18. Rebuilds(t)' /\ Tables(t)'
  BY <1>3, Zenon DEF Rebuilds, Tables, At, Rebuilding
<1> QED BY <1>8, <1>9, <1>10, <1>13, <1>14, <1>16, <1>17, <1>18, Joined, Zenon

\* retain_remote_sample's write keeps the invariant.
LEMMA RetainStoreStep ==
  ASSUME RoutesInv, NEW t \in Threads, RetainStore(t)
  PROVE  RoutesInv'
<1>1. Base /\ RoutesTyped
  BY Zenon DEF RoutesInv, Base
<1>2. /\ retained' = Bounded(Append(retained, thread[t].sample)) /\ Goto(t, "check")
      /\ UNCHANGED <<shared, last_gen, known, routes, delivered, in_flight, tasks, served, queue,
                     samples, events, history>>
  BY Zenon DEF RetainStore
<1>3. Moves(t) /\ thread'[t].gen = thread[t].gen
  BY <1>1, <1>2, GotoMoves, Typed, Zenon DEF Places
<1>4. retained' \in Seq(Nat) /\ Len(retained') <= Depth
  BY <1>1, <1>2, CallTyped, RetainedHistory, Zenon
<1>5. thread[t].gen <= gen /\ last_gen <= gen
  BY <1>1, Zenon DEF Base, Generations
<1>6. Base'
  BY <1>1, <1>2, <1>3, <1>4, <1>5, BaseMoved, Typed, Zenon DEF history
<1>7. Serial => Serial'
  BY <1>1, RetainStoreSerial, Zenon
<1> QED BY <1>2, <1>6, <1>7, Zenon DEF RoutesInv, Base, history

-----------------------------------------------------------------------------
(* Calls that begin *)

\* A call that begins without an overlap finds all other threads idle.
LEMMA BeganAlone ==
  ASSUME RoutesTyped, NEW t \in Threads, Began(t)
  PROVE  /\ overlap' \in BOOLEAN /\ (overlap => overlap')
         /\ ~ overlap' => \A u \in Threads : u # t => At(u, "idle")
<1>1. overlap \in BOOLEAN
  BY Typed, Zenon
<1> QED BY <1>1, Zenon DEF Began

\* Thread t, at rest as all others, begins a call, with a new sample or none.
Begins(t) ==
  /\ \A u \in Threads : At(u, "idle")
  /\ Moves(t) /\ thread'[t].pc \in {"retain", "check"}
  /\ thread'[t].pc = "retain" <=> t \in Publishers
  /\ IF t \in Publishers
     THEN samples' = samples + 1 /\ thread'[t].sample = samples' /\ \A p \in Peers : due'[p] \subseteq due[p] \cup {samples'}
     ELSE samples' = samples /\ thread'[t].sample = 0 /\ due' = due
  /\ \A p \in Peers : Owed(p)' => Owed(p) \/ (p \in matched /\ ~ owed)
  /\ UNCHANGED <<shared, last_gen, known, routes, store, queue>>

\* A call that begins when no other is under way finds the routes settled; a new sample
\* is due to peers that have a route, or that the call will find in the matches.
LEMMA BeginsSerial ==
  ASSUME Base, Serial, NEW t \in Threads, Begins(t)
  PROVE  Serial'
<1>1. RoutesTyped
  BY Zenon DEF Base
<1>2. /\ \A u \in Threads : thread[u].pc = "idle"
      /\ \A u \in Threads : u # t => thread'[u] = thread[u]
      /\ UNCHANGED <<shared, last_gen, known, routes, store, queue>>
      /\ thread'[t].pc \in {"retain", "check"} /\ (thread'[t].pc = "retain" <=> t \in Publishers)
  BY Zenon DEF Begins, Moves, At
<1>3. /\ \A u \in Threads : thread[u].sample = 0
      /\ \A u \in Threads : u # t => thread'[u].sample = 0 /\ thread'[u].pc = "idle"
  BY <1>2, Zenon DEF Serial, Samples, At
<1>4. samples \in Nat /\ samples' \in Nat /\ samples <= samples' /\ routes \subseteq Peers
  <2>1. samples \in Nat /\ routes \subseteq Peers
    BY <1>1, Typed, Zenon
  <2> QED BY <2>1 DEF Begins
<1>5. Settled /\ Settled'
  <2>1. \A u \in Threads : thread'[u].pc \in {"idle", "retain", "check"} /\ thread[u].pc = "idle"
    BY <1>2, <1>3, Zenon
  <2> QED BY <2>1, Zenon DEF Settled, Rebuilding
<1>6. Alone'
  BY <1>3, Zenon DEF Alone, At
<1>7. Samples'
  <2>1. t \in Publishers => t \notin Syncers /\ thread'[t].sample = samples' /\ samples' # 0
    BY <1>4, RoutesAssumption DEF Begins
  <2>2. t \notin Publishers => thread'[t].sample = 0
    BY Zenon DEF Begins
  <2> SUFFICES ASSUME NEW u \in Threads
               PROVE  /\ thread'[u].sample \in {0, samples'}
                      /\ thread'[u].pc = "idle" \/ u \in Syncers => thread'[u].sample = 0
                      /\ u \in Publishers /\ thread'[u].pc # "idle" => thread'[u].sample # 0
                      /\ thread'[u].pc \in {"retain", "pending", "store", "send"} => u \in Publishers
    BY Zenon DEF Samples, At
  <2>3. CASE u = t
    BY <1>2, <2>1, <2>2, <2>3, Zenon
  <2>4. CASE u # t
    BY <1>3, <2>4, Zenon
  <2> QED BY <2>3, <2>4, Zenon
<1>8. Numbers'
  <2>1. 1..samples \subseteq 1..samples'
    BY <1>4
  <2> QED BY <1>2, <2>1, Zenon DEF Serial, Numbers, store
<1>9. Later' /\ FirstInOrder'
  BY <1>2 DEF Serial, Later, FirstInOrder, store
<1>10. Pushed'
  <2> SUFFICES ASSUME NEW p \in Peers, NEW s \in due'[p]
               PROVE  s \in Range(queue[p]) \/ \E u \in Threads : thread'[u].sample = s
    BY <1>2, Zenon DEF Pushed
  <2>1. CASE s \in due[p]
    <3>1. s \in Range(queue[p]) \/ \E u \in Threads : thread[u].sample = s
      BY <2>1, Zenon DEF Serial, Pushed
    <3>2. s \in 1..samples
      BY <2>1, Zenon DEF Base, Entitled
    <3> QED BY <1>3, <1>4, <3>1, <3>2
  <2>2. CASE s \notin due[p]
    BY <2>2, Zenon DEF Begins
  <2> QED BY <2>1, <2>2, Zenon
<1>11. ASSUME NEW p \in Peers, HasHistory(p) PROVE HasHistory(p)'
  <2> SUFFICES ASSUME NEW b \in Range(retained) PROVE b \in Range(queue[p])
    BY <1>2, Zenon DEF HasHistory, Sent, store
  <2>1. Sent(p, b)
    BY <1>11, Zenon DEF HasHistory
  <2>2. b \in 1..samples
    BY Zenon DEF Serial, Numbers
  <2> QED BY <1>2, <1>3, <1>4, <2>1, <2>2 DEF Sent, At
<1>12. Histories'
  <2>1. Counted' = Counted /\ Counted \subseteq Peers
    BY <1>1, <1>2, CountedPeers, Zenon DEF Counted, store
  <2>2. (\A p \in Counted : HasHistory(p)) /\ Counted \subseteq routes /\ \A p \in routes : HasHistory(p)
    BY <1>5, Zenon DEF Serial, Histories
  <2>3. (\A p \in Counted : HasHistory(p)') /\ \A p \in routes : HasHistory(p)'
    BY <1>4, <1>11, <2>1, <2>2, Zenon
  <2> QED BY <1>2, <2>1, <2>2, <2>3, Zenon DEF Histories
<1>13. Routed'
  <2>1. /\ routes = known /\ (Current => routes = matched)
        /\ gen = last_gen => \A p \in Peers : Owed(p) => p \in routes
    BY <1>5, Zenon DEF Serial, Routed
  <2>2. ~ \E u \in Threads : thread'[u].pc = "enqueue" \/ thread'[u].pc = "send"
    BY <1>2, <1>3, Zenon
  <2>3. gen = last_gen => \A p \in Peers : Owed(p)' => p \in routes
    BY <2>1, Zenon DEF Begins, Current
  <2> QED BY <1>2, <2>1, <2>2, <2>3, Zenon DEF Routed, Current, At, shared
<1>14. ASSUME NEW u \in Threads PROVE Rebuilds(u)' /\ Tables(u)'
  <2>1. thread'[u].pc \in {"idle", "retain", "check"}
    BY <1>2, <1>3, Zenon
  <2> QED BY <2>1, Zenon DEF Rebuilds, Tables, At, Rebuilding
<1> QED BY <1>6, <1>7, <1>8, <1>9, <1>10, <1>12, <1>13, <1>14, Joined, Zenon

\* publish_with_gid begins.
LEMMA PublishStep ==
  ASSUME RoutesInv, NEW t \in Threads, Publish(t)
  PROVE  RoutesInv'
<1>1. Base /\ RoutesTyped
  BY Zenon DEF RoutesInv, Base
<1>2. /\ t \in Publishers /\ At(t, "idle") /\ events' = events + 1 /\ samples' = samples + 1
      /\ Become(t, Busy("retain", samples + 1)) /\ Began(t)
      /\ due' = [p \in Peers |-> IF p \in matched /\ ~owed THEN due[p] \cup {samples + 1} ELSE due[p]]
      /\ UNCHANGED <<shared, last_gen, known, routes, store, queue>>
  BY Zenon DEF Publish, Count
<1>3. /\ samples \in Nat /\ samples + 1 \in Nat /\ events \in Nat /\ gen \in Nat /\ last_gen \in Nat
      /\ thread \in [Threads -> Calls] /\ due \in [Peers -> SUBSET Nat]
  BY <1>1, Typed
<1>4. Busy("retain", samples + 1) \in Calls /\ Busy("retain", samples + 1).pc = "retain"
      /\ Busy("retain", samples + 1).sample = samples + 1 /\ Busy("retain", samples + 1).gen = 0
  BY <1>3, BusyFields DEF Places
<1>5. /\ Moves(t) /\ thread'[t].pc = "retain" /\ thread'[t].sample = samples + 1 /\ thread'[t].gen = 0
  BY <1>2, <1>3, <1>4, BecomeMoves, Zenon
<1>6. \A p \in Peers : /\ due'[p] \subseteq due[p] \cup {samples + 1}
                       /\ due'[p] # {} => due[p] # {} \/ (p \in matched /\ ~ owed)
  BY <1>2, Zenon
<1>7. overlap' \in BOOLEAN /\ (overlap => overlap') /\ (~ overlap' => \A u \in Threads : At(u, "idle"))
  BY <1>1, <1>2, BeganAlone, Zenon
<1>8. RoutesTyped'
  <2>1. due' \in [Peers -> SUBSET Nat]
    BY <1>2, <1>3, Zenon
  <2>2. /\ thread' \in [Threads -> Calls] /\ events' \in Nat /\ samples' \in Nat
    BY <1>2, <1>3, <1>5 DEF Moves
  <2> QED BY <1>1, <1>2, <1>7, <2>1, <2>2, Zenon DEF RoutesTyped, shared, store
<1>9. Generations'
  <2>1. last_gen <= gen /\ \A u \in Threads : thread[u].gen <= gen
    BY <1>1, Zenon DEF Base, Generations
  <2>2. 0 <= gen
    BY <1>3
  <2>3. \A u \in Threads : thread'[u].gen <= gen
    BY <1>5, <2>1, <2>2, Zenon DEF Moves
  <2> QED BY <1>2, <2>1, <2>3, Zenon DEF Generations, shared
<1>10. Entitled'
  <2> SUFFICES ASSUME NEW p \in Peers PROVE due'[p] \subseteq 1..samples' /\ (due'[p] # {} => p \in matched)
    BY <1>2, Zenon DEF Entitled, Owed, shared
  <2>1. due[p] \subseteq 1..samples /\ (due[p] # {} => p \in matched)
    BY <1>1, Zenon DEF Base, Entitled, Owed
  <2>2. 1..samples \subseteq 1..samples' /\ samples + 1 \in 1..samples'
    BY <1>2, <1>3
  <2> QED BY <1>6, <2>1, <2>2, Zenon
<1>11. ~ overlap' => Serial'
  <2> HAVE ~ overlap'
  <2>1. Serial
    BY <1>7, Zenon DEF RoutesInv
  <2>2. Begins(t)
    <3>1. \A p \in Peers : Owed(p)' => Owed(p) \/ (p \in matched /\ ~ owed)
      BY <1>6, Zenon DEF Owed
    <3>2. IF t \in Publishers
          THEN samples' = samples + 1 /\ thread'[t].sample = samples'
               /\ \A p \in Peers : due'[p] \subseteq due[p] \cup {samples'}
          ELSE samples' = samples /\ thread'[t].sample = 0 /\ due' = due
      BY <1>2, <1>5, <1>6, Zenon
    <3> QED BY <1>2, <1>5, <1>7, <3>1, <3>2, Zenon DEF Begins
  <2> QED BY <1>1, <2>1, <2>2, BeginsSerial, Zenon
<1> QED BY <1>8, <1>9, <1>10, <1>11, Zenon DEF RoutesInv

\* The route thread, rmw_wait or a graph query calls sync_daemon_matches.
LEMMA PollStep ==
  ASSUME RoutesInv, NEW t \in Threads, Poll(t)
  PROVE  RoutesInv'
<1>1. Base /\ RoutesTyped
  BY Zenon DEF RoutesInv, Base
<1>2. /\ t \in Syncers /\ At(t, "idle") /\ events' = events + 1 /\ Goto(t, "check") /\ Began(t)
      /\ UNCHANGED <<shared, last_gen, known, routes, store, queue, samples, due>>
  BY Zenon DEF Poll, Count
<1>3. /\ Moves(t) /\ thread'[t].pc = "check" /\ thread'[t].sample = thread[t].sample
      /\ thread'[t].gen = thread[t].gen
  BY <1>1, <1>2, GotoMoves, Typed, Zenon DEF Places
<1>4. overlap' \in BOOLEAN /\ (overlap => overlap') /\ (~ overlap' => \A u \in Threads : At(u, "idle"))
  BY <1>1, <1>2, BeganAlone, Zenon
<1>5. Base'
  <2>1. thread'[t].gen <= gen /\ last_gen <= gen
    BY <1>1, <1>3, Zenon DEF Base, Generations
  <2>2. events' \in Nat
    BY <1>1, <1>2, Typed
  <2> QED BY <1>1, <1>2, <1>3, <1>4, <2>1, <2>2, BaseKept, Typed, Zenon DEF store
<1>6. ~ overlap' => Serial'
  <2> HAVE ~ overlap'
  <2>1. Serial
    BY <1>4, Zenon DEF RoutesInv
  <2>2. thread[t].sample = 0 /\ t \notin Publishers
    BY <1>2, <2>1, RoutesAssumption, Zenon DEF Serial, Samples
  <2>3. Begins(t)
    <3>1. \A p \in Peers : Owed(p)' => Owed(p) \/ (p \in matched /\ ~ owed)
      BY <1>2, Zenon DEF Owed
    <3> QED BY <1>2, <1>3, <1>4, <2>2, <3>1, Zenon DEF Begins
  <2> QED BY <1>1, <2>1, <2>3, BeginsSerial, Zenon
<1> QED BY <1>5, <1>6, Zenon DEF RoutesInv, Base

-----------------------------------------------------------------------------
(* The daemon, and the completion tasks *)

\* A step of the daemon or of a completion task, which moves no thread, keeps what it
\* does not touch.
LEMMA StillKeeps ==
  ASSUME Serial, UNCHANGED <<thread, queue, retained, samples, routes, known>>,
         \A p \in Peers : due'[p] \subseteq due[p], Counted' \subseteq Counted
  PROVE  /\ Alone' /\ Samples' /\ Numbers' /\ Histories' /\ Later' /\ Pushed' /\ FirstInOrder'
         /\ \A t \in Threads : Tables(t)'
<1>1. Alone' /\ Samples'
  BY Zenon DEF Serial, Alone, Samples, At
<1>2. Later' /\ Numbers' /\ FirstInOrder'
  BY OrderKept, Zenon DEF Serial
<1>3. Pushed'
  BY Zenon DEF Serial, Pushed
<1>4. \A t \in Threads : Tables(t)'
  BY Zenon DEF Serial, Tables, At
<1>5. Histories'
  <2>1. \A p : HasHistory(p)' = HasHistory(p)
    BY Zenon DEF HasHistory, Sent, At
  <2>2. Settled' = Settled
    BY Zenon DEF Settled
  <2> QED BY <2>1, <2>2, Zenon DEF Serial, Histories
<1> QED BY <1>1, <1>2, <1>3, <1>4, <1>5, Zenon

\* The daemon changes the match list of the slot: it owes a new response_gen, and the
\* peer has no right to earlier samples.
LEMMA ChangeStep ==
  ASSUME RoutesInv, NEW p \in Peers, Change(p)
  PROVE  RoutesInv'
<1>1. Base /\ RoutesTyped
  BY Zenon DEF RoutesInv, Base
<1>2. /\ events' = events + 1 /\ owed' = TRUE /\ due' = [due EXCEPT ![p] = {}]
      /\ matched' = IF p \in matched THEN matched \ {p} ELSE matched \cup {p}
      /\ UNCHANGED <<durability, gen, last_gen, known, routes, store, queue, thread, samples, overlap>>
  BY Zenon DEF Change, Count
<1>3. due \in [Peers -> SUBSET Nat] /\ matched \subseteq Peers /\ events \in Nat
  BY <1>1, Typed, Zenon
<1>4. /\ due' \in [Peers -> SUBSET Nat] /\ due'[p] = {}
      /\ \A q \in Peers : q # p => due'[q] = due[q]
  BY <1>2, <1>3, Zenon
<1>5. RoutesTyped'
  <2>1. events' \in Nat /\ owed' \in BOOLEAN /\ matched' \subseteq Peers
    BY <1>2, <1>3
  <2> QED BY <1>1, <1>2, <1>4, <2>1 DEF RoutesTyped, store
<1>6. Generations'
  BY <1>1, <1>2, Zenon DEF Base, Generations
<1>7. Entitled'
  BY <1>1, <1>2, <1>4, Zenon DEF Base, Entitled, Owed
<1>8. ~ overlap => Serial'
  <2> HAVE ~ overlap
  <2>1. Serial
    BY Zenon DEF RoutesInv
  <2>2. Counted' \subseteq Counted
    BY <1>2, Zenon DEF Counted, store
  <2>3. \A q \in Peers : due'[q] \subseteq due[q] /\ (Owed(q)' => Owed(q))
    BY <1>4, Zenon DEF Owed
  <2>4. ~ Current'
    BY <1>2, Zenon DEF Current
  <2>5. Routed'
    BY <1>2, <2>1, <2>3, <2>4, Zenon DEF Serial, Routed, Settled, At
  <2>6. \A t \in Threads : Rebuilds(t)'
    BY <1>2, <2>1, <2>3, <2>4, Zenon DEF Serial, Rebuilds
  <2> QED BY <1>2, <2>1, <2>2, <2>3, <2>5, <2>6, StillKeeps, Zenon DEF Serial, store
<1> QED BY <1>2, <1>5, <1>6, <1>7, <1>8, Zenon DEF RoutesInv

\* The daemon raises response_gen: no call has seen this generation.
LEMMA BumpStep ==
  ASSUME RoutesInv, Bump
  PROVE  RoutesInv'
<1>1. Base /\ RoutesTyped
  BY Zenon DEF RoutesInv, Base
<1>2. /\ owed' = FALSE /\ gen' = gen + 1
      /\ UNCHANGED <<durability, matched, last_gen, known, routes, store, queue, thread, samples, events, history>>
  BY Zenon DEF Bump
<1>3. gen \in Nat /\ last_gen \in Nat /\ last_gen <= gen /\ \A t \in Threads : thread[t].gen <= gen
  BY <1>1, Typed, Zenon DEF Base, Generations
<1>4. gen' \in Nat /\ last_gen < gen' /\ last_gen' = last_gen
  BY <1>2, <1>3
<1>5. RoutesTyped'
  <2>1. owed' \in BOOLEAN
    BY <1>2, Zenon
  <2> QED BY <1>1, <1>2, <1>4, <2>1, Zenon DEF RoutesTyped, store, history
<1>6. Generations'
  <2>1. \A t \in Threads : thread[t].gen \in Nat
    BY <1>1, CallTyped, Zenon
  <2>2. \A t \in Threads : thread[t].gen <= gen'
    BY <1>2, <1>3, <2>1
  <2> QED BY <1>2, <1>3, <2>2 DEF Generations
<1>7. Entitled'
  BY <1>1, <1>2, Zenon DEF Base, Entitled, Owed, history
<1>8. ~ overlap => Serial'
  <2> HAVE ~ overlap
  <2>1. Serial
    BY Zenon DEF RoutesInv
  <2>2. Counted' \subseteq Counted
    BY <1>2, Zenon DEF Counted, store
  <2>3. \A q \in Peers : due'[q] \subseteq due[q] /\ (Owed(q)' => Owed(q))
    BY <1>2, Zenon DEF Owed, history
  <2>4. gen' # last_gen' /\ ~ Current'
    BY <1>3, <1>4 DEF Current
  <2>5. Routed'
    BY <1>2, <2>1, <2>3, <2>4, Zenon DEF Serial, Routed, Settled, At
  <2>6. \A t \in Threads : Rebuilds(t)'
    BY <1>2, <2>1, <2>3, <2>4, Zenon DEF Serial, Rebuilds
  <2> QED BY <1>2, <2>1, <2>2, <2>3, <2>5, <2>6, StillKeeps, Zenon DEF Serial, store
<1> QED BY <1>2, <1>5, <1>6, <1>7, <1>8, Zenon DEF RoutesInv, history

\* A step of a completion task keeps the invariant if it counts no one as served who was
\* not about to be.
LEMMA TaskStep ==
  ASSUME RoutesInv, tasks' \in [Peers -> Nat], served' \in [Peers -> Nat],
         delivered' \subseteq Peers, in_flight' \subseteq Peers, Counted' \subseteq Counted,
         UNCHANGED <<shared, last_gen, known, routes, retained, queue, thread, samples, events, history>>
  PROVE  RoutesInv'
<1>1. Base /\ RoutesTyped
  BY Zenon DEF RoutesInv, Base
<1>2. RoutesTyped'
  <2>1. {tasks', served'} \subseteq [Peers -> Nat]
    BY Zenon
  <2>2. {matched', known', routes', delivered', in_flight'} \subseteq SUBSET Peers
    BY <1>1, Typed, Zenon DEF shared
  <2> QED BY <1>1, <2>1, <2>2, Zenon DEF RoutesTyped, shared, history
<1>3. Generations' /\ Entitled'
  BY <1>1, Zenon DEF Base, Generations, Entitled, Owed, shared, history
<1>4. ~ overlap => Serial'
  <2> HAVE ~ overlap
  <2>1. Serial
    BY Zenon DEF RoutesInv
  <2>2. \A q \in Peers : due'[q] \subseteq due[q]
    BY Zenon DEF history
  <2>3. Routed'
    BY <2>1, Zenon DEF Serial, Routed, Settled, At, Current, Owed, shared, history
  <2>4. \A t \in Threads : Rebuilds(t)'
    BY <2>1, Zenon DEF Serial, Rebuilds, Current, Owed, shared, history
  <2> QED BY <2>1, <2>2, <2>3, <2>4, StillKeeps, Zenon DEF Serial
<1> QED BY <1>2, <1>3, <1>4, Zenon DEF RoutesInv, history

\* The completion task of a history that was sent finds the peer still pending, or not.
LEMMA CompleteStep ==
  ASSUME RoutesInv, NEW p \in Peers, Complete(p)
  PROVE  RoutesInv'
<1>1. tasks \in [Peers -> Nat] /\ served \in [Peers -> Nat] /\ delivered \subseteq Peers /\ in_flight \subseteq Peers
  BY Typed, Zenon DEF RoutesInv
<1>2. /\ tasks[p] > 0 /\ tasks' = [tasks EXCEPT ![p] = @ - 1] /\ in_flight' = in_flight \ {p}
      /\ served' = IF p \in in_flight THEN [served EXCEPT ![p] = @ + 1] ELSE served
      /\ UNCHANGED <<shared, last_gen, known, routes, retained, delivered, queue, thread, samples, events, history>>
  BY Zenon DEF Complete
<1>3. tasks' \in [Peers -> Nat]
  BY <1>1, <1>2
<1>4. /\ served' \in [Peers -> Nat] /\ \A q \in Peers : q # p => served'[q] = served[q]
      /\ p \in in_flight \/ served' = served
  BY <1>1, <1>2
<1>5. Counted' \subseteq Counted
  BY <1>1, <1>2, <1>4, Zenon DEF Counted
<1> QED BY <1>1, <1>2, <1>3, <1>4, <1>5, TaskStep, Zenon

\* The completion task adds the peer to retained_remote_peers.
LEMMA DeliverStep ==
  ASSUME RoutesInv, NEW p \in Peers, Deliver(p)
  PROVE  RoutesInv'
<1>1. tasks \in [Peers -> Nat] /\ served \in [Peers -> Nat] /\ delivered \subseteq Peers /\ in_flight \subseteq Peers
  BY Typed, Zenon DEF RoutesInv
<1>2. /\ served[p] > 0 /\ served' = [served EXCEPT ![p] = @ - 1] /\ delivered' = delivered \cup {p}
      /\ UNCHANGED <<shared, last_gen, known, routes, retained, in_flight, tasks, queue, thread, samples, events, history>>
  BY Zenon DEF Deliver
<1>3. /\ served' \in [Peers -> Nat] /\ \A q \in Peers : q # p => served'[q] = served[q]
  BY <1>1, <1>2
<1>4. Counted' \subseteq Counted
  BY <1>1, <1>2, <1>3, Zenon DEF Counted
<1> QED BY <1>1, <1>2, <1>3, <1>4, TaskStep, Zenon

-----------------------------------------------------------------------------
(* The invariant, and what follows from it *)

\* A session without matches.
LEMMA RoutesInit ==
  ASSUME Init
  PROVE  RoutesInv
<1>1. <<>> \in Seq(Nat) /\ Len(<<>>) = 0 /\ Range(<<>>) = {} /\ DOMAIN <<>> = {}
  BY DEF Range
<1>2. Idle \in Calls /\ Idle.pc = "idle" /\ Idle.sample = 0 /\ Idle.gen = 0
  BY BusyFields DEF Idle, Places
<1>3. /\ thread \in [Threads -> Calls]
      /\ \A t \in Threads : thread[t].pc = "idle" /\ thread[t].sample = 0 /\ thread[t].gen = 0
  BY <1>2, Zenon DEF Init
<1>4. RoutesTyped
  <2>1. retained \in Seq(Nat) /\ Len(retained) <= Depth
    BY <1>1, RoutesAssumption DEF Init
  <2>2. queue \in [Peers -> Seq(Nat)] /\ due \in [Peers -> SUBSET Nat]
    BY <1>1, Zenon DEF Init
  <2>3. {tasks, served} \subseteq [Peers -> Nat]
    BY DEF Init
  <2>4. {matched, known, routes, delivered, in_flight} \subseteq SUBSET Peers
    BY Zenon DEF Init
  <2>5. {gen, last_gen, samples, events} \subseteq Nat
    BY DEF Init
  <2>6. {owed, overlap} \subseteq BOOLEAN
    BY Zenon DEF Init
  <2>7. durability \in Durabilities
    BY Zenon DEF Init
  <2> QED BY <1>3, <2>1, <2>2, <2>3, <2>4, <2>5, <2>6, <2>7, Zenon DEF RoutesTyped
<1>5. Generations
  BY <1>3 DEF Init, Generations
<1>6. Entitled
  BY Zenon DEF Init, Entitled, Owed
<1>7. Alone /\ Samples
  BY <1>3, Zenon DEF Alone, Samples, At
<1>8. /\ Range(retained) = {} /\ \A p \in Peers : Range(queue[p]) = {} /\ DOMAIN queue[p] = {}
      /\ DOMAIN retained = {}
  BY <1>1, Zenon DEF Init
<1>9. Numbers /\ Later /\ FirstInOrder
  BY <1>8, Zenon DEF Numbers, Later, FirstInOrder, Sorted
<1>10. Pushed
  BY Zenon DEF Init, Pushed
<1>11. Routed
  BY Zenon DEF Init, Routed, Current, Owed
<1>12. Counted = {}
  BY DEF Init, Counted
<1>13. Histories
  BY <1>12, Zenon DEF Init, Histories
<1>14. \A t \in Threads : Rebuilds(t) /\ Tables(t)
  BY <1>3, Zenon DEF Rebuilds, Tables, At, Rebuilding
<1> QED BY <1>4, <1>5, <1>6, <1>7, <1>9, <1>10, <1>11, <1>13, <1>14, Zenon DEF RoutesInv, Serial

\* A step that changes nothing keeps the invariant.
LEMMA RoutesRest ==
  ASSUME RoutesInv, UNCHANGED vars
  PROVE  RoutesInv'
<1>1. /\ RoutesTyped /\ Counted' = Counted
      /\ UNCHANGED <<shared, last_gen, known, routes, retained, queue, thread, samples, events, history>>
      /\ UNCHANGED <<delivered, in_flight, tasks, served>>
  BY Zenon DEF RoutesInv, vars, store, Counted
<1> QED BY <1>1, TaskStep, Typed, Zenon

\* The worker of a pipeline only takes samples out of it.
LEMMA WorkStep ==
  ASSUME RoutesInv, NEW p \in Peers, Work(p)
  PROVE  RoutesInv'
<1>1. /\ RoutesTyped /\ Counted' = Counted
      /\ UNCHANGED <<shared, last_gen, known, routes, retained, queue, thread, samples, events, history>>
      /\ UNCHANGED <<delivered, in_flight, tasks, served>>
  BY Zenon DEF RoutesInv, Work, store, Counted
<1> QED BY <1>1, TaskStep, Typed, Zenon

\* Every step of a thread, of the daemon, of a worker and of a completion task keeps the
\* invariant.
LEMMA RoutesStep ==
  ASSUME RoutesInv, [Next]_vars
  PROVE  RoutesInv'
<1>1. ASSUME NEW t \in Threads, Step(t) PROVE RoutesInv'
  <2>1. CASE retain_remote_sample(t) \/ RetainPending(t) \/ Check(t)
    BY <2>1, AheadStep, Zenon DEF Ahead
  <2>2. CASE RetainStore(t)
    BY <2>2, RetainStoreStep, Zenon
  <2>3. CASE Read(t)
    BY <2>3, ReadStep, Zenon
  <2>4. CASE ClearKnown(t)
    BY <2>4, ClearKnownStep, Zenon
  <2>5. CASE ClearRoutes(t)
    BY <2>5, ClearRoutesStep, Zenon
  <2>6. CASE Forget(t)
    BY <2>6, ForgetStep, Zenon
  <2>7. CASE ForgetPending(t)
    BY <2>7, ForgetPendingStep, Zenon
  <2>8. CASE FillKnown(t)
    BY <2>8, FillKnownStep, Zenon
  <2>9. CASE FillRoutes(t)
    BY <2>9, FillRoutesStep, Zenon
  <2>10. CASE History(t)
    BY <2>10, HistoryStep, Zenon
  <2>11. CASE Enqueue(t)
    BY <2>11, EnqueueStep, Zenon
  <2>12. CASE Send(t)
    BY <2>12, SendStep, Zenon
  <2> QED BY <1>1, <2>1, <2>2, <2>3, <2>4, <2>5, <2>6, <2>7, <2>8, <2>9, <2>10, <2>11, <2>12, Zenon DEF Step
<1>2. ASSUME NEW p \in Peers, Change(p) \/ Work(p) \/ Complete(p) \/ Deliver(p) PROVE RoutesInv'
  BY <1>2, ChangeStep, WorkStep, CompleteStep, DeliverStep, Zenon
<1>3. ASSUME NEW t \in Threads, Publish(t) \/ Poll(t) PROVE RoutesInv'
  BY <1>3, PublishStep, PollStep, Zenon
<1> QED BY <1>1, <1>2, <1>3, BumpStep, RoutesRest, Zenon DEF Next

\* The inductive invariant of the routes: types and generations whatever the calls do,
\* and, as long as no two calls overlap, where each table stands at each step of a
\* rebuild, who has the history, and what is still to be sent.
THEOREM RoutesInvariant == Spec => []RoutesInv
<1>1. Init => RoutesInv
  BY RoutesInit, Zenon
<1>2. RoutesInv /\ [Next]_vars => RoutesInv'
  BY RoutesStep, Zenon
<1> QED BY <1>1, <1>2, PTL DEF Spec

-----------------------------------------------------------------------------
(* What is pushed out *)

\* A step that pushes nothing: the pipelines stay, or a worker takes a sample.
LEMMA LossStill ==
  ASSUME LossInv, RoutesTyped, UNCHANGED <<durability, queue, lost>>, pending' \in [Peers -> Nat],
         \A p \in Peers : pending'[p] <= pending[p]
  PROVE  LossInv'
<1>1. \A p \in Peers : Len(queue[p]) \in Nat /\ pending[p] \in Nat /\ pending'[p] \in Nat
  BY DEF RoutesTyped, LossInv, SlotsTyped
<1>2. \A p \in Peers : pending'[p] <= Len(queue[p])
  BY <1>1 DEF LossInv, SlotsTyped
<1> QED BY <1>2, Zenon DEF LossInv, SlotsTyped, Kept, BestEffort

\* Enqueue: a history goes behind what waits, and nothing is pushed out.
LEMMA LossEnqueue ==
  ASSUME LossInv, RoutesTyped, NEW t \in Threads, Enqueue(t)
  PROVE  LossInv'
<1>1. UNCHANGED <<durability, lost>>
  BY Zenon DEF Enqueue, shared
<1>2. CASE UNCHANGED <<queue, pending>>
  BY <1>1, <1>2, LossStill DEF LossInv, SlotsTyped
<1>3. ASSUME NEW p \in thread[t].peers,
             queue' = [queue EXCEPT ![p] = @ \o thread[t].batch],
             pending' = [pending EXCEPT ![p] = @ + Len(thread[t].batch)]
      PROVE  LossInv'
  <2>1. p \in Peers /\ thread[t].batch \in Seq(Nat)
    BY CallTyped, Zenon
  <2>a. PICK b \in Seq(Nat) : b = thread[t].batch
    BY <2>1, Zenon
  <2>2. queue \in [Peers -> Seq(Nat)] /\ pending \in [Peers -> Nat] /\ lost \in [Peers -> SUBSET Nat] /\ Depth \in Nat
    BY RoutesAssumption DEF RoutesTyped, LossInv, SlotsTyped
  <2>b. PICK n \in Nat : n = Len(b)
    OBVIOUS
  <2>3. /\ Len(queue'[p]) = Len(queue[p]) + n
        /\ \A q \in Peers : q # p => Len(queue'[q]) = Len(queue[q])
    <3>1. queue'[p] = queue[p] \o b /\ \A q \in Peers : q # p => queue'[q] = queue[q]
      BY <1>3, <2>1, <2>2, <2>a, Zenon
    <3> QED BY <2>1, <2>2, <2>b, <3>1
  <2>4. /\ pending' \in [Peers -> Nat] /\ pending'[p] = pending[p] + n
        /\ \A q \in Peers : q # p => pending'[q] = pending[q]
    <3>1. pending' = [pending EXCEPT ![p] = @ + n]
      BY <1>3, <2>a, <2>b, Zenon
    <3> QED BY <2>1, <2>2, <3>1
  <2>5. ASSUME NEW q \in Peers
        PROVE  pending'[q] <= Len(queue'[q]) /\ \A i \in lost[q] : i + Depth <= Len(queue'[q])
    <3>1. /\ Len(queue[q]) \in Nat /\ pending[q] \in Nat /\ pending[q] <= Len(queue[q])
          /\ lost[q] \subseteq Nat /\ \A i \in lost[q] : i + Depth <= Len(queue[q])
      BY <2>2 DEF LossInv, SlotsTyped, Kept
    <3>2. CASE q = p
      BY <2>2, <2>3, <2>4, <3>1, <3>2
    <3>3. CASE q # p
      <4>1. Len(queue'[q]) = Len(queue[q]) /\ pending'[q] = pending[q]
        BY <2>3, <2>4, <3>3, Zenon
      <4> QED BY <3>1, <4>1, Zenon
    <3> QED BY <3>2, <3>3, Zenon
  <2>7. SlotsTyped'
    BY <1>1, <2>2, <2>4, <2>5, Zenon DEF SlotsTyped
  <2> QED BY <1>1, <2>5, <2>7, Zenon DEF LossInv, Kept, BestEffort
<1> QED BY <1>2, <1>3, Zenon DEF Enqueue

\* send_message_reuse: a live sample of a best-effort publisher pushes out samples that
\* then have Depth others behind them.
LEMMA LossSend ==
  ASSUME LossInv, RoutesTyped, NEW t \in Threads, Send(t)
  PROVE  LossInv'
<1>1. UNCHANGED durability /\ Depth \in Nat \ {0}
  BY RoutesAssumption, Zenon DEF Send, shared
<1>2. queue \in [Peers -> Seq(Nat)] /\ pending \in [Peers -> Nat] /\ lost \in [Peers -> SUBSET Nat]
  BY Zenon DEF RoutesTyped, LossInv, SlotsTyped
<1>3. thread[t].sample \in Nat
  BY CallTyped, Zenon
<1>a. PICK s \in Nat : s = thread[t].sample
  BY <1>3, Zenon
<1>4. ASSUME NEW p \in Peers
      PROVE  /\ pending'[p] \in Nat /\ lost'[p] \subseteq Nat /\ pending'[p] <= Len(queue'[p])
             /\ \A i \in lost'[p] : BestEffort' /\ i + Depth <= Len(queue'[p])
  <2>1. /\ Len(queue[p]) \in Nat /\ pending[p] \in Nat /\ pending[p] <= Len(queue[p]) /\ lost[p] \subseteq Nat
        /\ DOMAIN queue[p] = 1 .. Len(queue[p])
    BY <1>2 DEF LossInv, SlotsTyped
  <2>2. \A i \in lost[p] : i \in Nat /\ i + Depth <= Len(queue[p]) /\ BestEffort
    BY <2>1, Zenon DEF LossInv, Kept
  <2>3. BestEffort' <=> BestEffort
    BY <1>1, Zenon DEF BestEffort
  <2>4. CASE p \notin routes \cap known
    <3>1. pending'[p] = pending[p] /\ lost'[p] = lost[p] /\ queue'[p] = queue[p]
      BY <2>4, Zenon DEF Send
    <3> QED BY <2>1, <2>2, <2>3, <3>1, Zenon
  <2>5. CASE p \in routes \cap known
    <3>1. pending'[p] = pending[p] - Excess(p) + 1 /\ lost'[p] = lost[p] \cup Oldest(p) /\ queue'[p] = Append(queue[p], s)
      BY <1>a, <2>5, Zenon DEF Send
    <3>2. Len(queue'[p]) = Len(queue[p]) + 1
      BY <1>2, <3>1
    <3>3. Excess(p) \in Nat /\ Excess(p) <= pending[p]
      BY <1>1, <2>1 DEF Excess
    <3>4. \A i \in Oldest(p) : i \in Nat /\ BestEffort /\ i + Depth <= Len(queue[p]) + 1
      BY <1>1, <2>1 DEF Oldest, Excess
    <3>5. \A i \in lost[p] : i + Depth <= Len(queue[p]) + 1
      BY <1>1, <2>1, <2>2
    <3>6. pending'[p] \in Nat /\ pending'[p] <= Len(queue'[p])
      BY <2>1, <3>1, <3>2, <3>3
    <3> QED BY <2>1, <2>2, <2>3, <3>1, <3>2, <3>4, <3>5, <3>6, Zenon
  <2> QED BY <2>4, <2>5, Zenon
<1>5. pending' \in [Peers -> Nat] /\ lost' \in [Peers -> SUBSET Nat]
  <2>1. pending' = [p \in Peers |-> pending'[p]] /\ lost' = [p \in Peers |-> lost'[p]]
    BY Zenon DEF Send
  <2> QED BY <1>4, <2>1, Zenon
<1> QED BY <1>4, <1>5, Zenon DEF LossInv, SlotsTyped, Kept

\* Every step keeps what is said of the samples pushed out.
LEMMA LossStep ==
  ASSUME LossInv, RoutesTyped, [Next]_vars
  PROVE  LossInv'
<1>1. pending \in [Peers -> Nat]
  BY Zenon DEF LossInv, SlotsTyped
<1>2. \A p \in Peers : pending[p] <= pending[p]
  BY <1>1
<1>3. CASE UNCHANGED <<durability, queue, slots>>
  BY <1>1, <1>2, <1>3, LossStill, Zenon DEF slots
<1>4. ASSUME NEW p \in Peers, Work(p) PROVE LossInv'
  <2>1. UNCHANGED <<durability, queue, lost>>
    BY <1>4, Zenon DEF Work, shared
  <2>2. pending[p] \in Nat /\ pending[p] > 0
    BY <1>1, <1>4, RoutesAssumption DEF Work, Excess
  <2>3. pending' = [pending EXCEPT ![p] = @ - 1]
    BY <1>4, Zenon DEF Work
  <2>4. pending' \in [Peers -> Nat] /\ \A q \in Peers : pending'[q] <= pending[q]
    BY <1>1, <2>2, <2>3
  <2> QED BY <2>1, <2>4, LossStill, Zenon
<1>5. ASSUME NEW t \in Threads, Step(t) PROVE LossInv'
  <2>1. CASE Enqueue(t)
    BY <2>1, LossEnqueue, Zenon
  <2>2. CASE Send(t)
    BY <2>2, LossSend, Zenon
  <2>3. CASE ~ Enqueue(t) /\ ~ Send(t)
    <3>1. CASE retain_remote_sample(t) \/ RetainPending(t) \/ RetainStore(t) \/ Check(t) \/ Read(t)
      BY <1>3, <3>1, Zenon DEF retain_remote_sample, RetainPending, RetainStore, Check, Read, shared, slots
    <3>2. CASE ClearKnown(t) \/ ClearRoutes(t) \/ Forget(t) \/ ForgetPending(t)
      BY <1>3, <3>2, Zenon DEF ClearKnown, ClearRoutes, Forget, ForgetPending, shared, slots
    <3>3. CASE FillKnown(t) \/ FillRoutes(t) \/ History(t)
      BY <1>3, <3>3, Zenon DEF FillKnown, FillRoutes, History, shared, slots
    <3> QED BY <1>5, <2>3, <3>1, <3>2, <3>3, Zenon DEF Step
  <2> QED BY <2>1, <2>2, <2>3, Zenon
<1>6. ASSUME NEW t \in Threads, Publish(t) \/ Poll(t) PROVE LossInv'
  BY <1>3, <1>6, Zenon DEF Publish, Poll, shared, slots
<1>7. ASSUME NEW p \in Peers, Change(p) \/ Complete(p) \/ Deliver(p) PROVE LossInv'
  BY <1>3, <1>7, Zenon DEF Change, Complete, Deliver, shared, slots
<1>8. ASSUME Bump \/ UNCHANGED vars PROVE LossInv'
  BY <1>3, <1>8, Zenon DEF Bump, vars, shared, slots
<1> QED BY <1>4, <1>5, <1>6, <1>7, <1>8, Zenon DEF Next

\* What a pipeline loses, whether calls overlap or not: a sample is pushed out only of that
\* of a best-effort publisher, and not before Depth others are behind it.
THEOREM LossInvariant == Spec => []LossInv
<1>1. Init => LossInv
  <2> SUFFICES ASSUME Init PROVE LossInv
    OBVIOUS
  <2>1. \A p \in Peers : queue[p] = <<>> /\ pending[p] = 0 /\ lost[p] = {}
    BY Zenon DEF Init
  <2>2. \A p \in Peers : pending[p] <= Len(queue[p])
    BY <2>1
  <2>3. 0 \in Nat
    OBVIOUS
  <2> QED BY <2>1, <2>2, <2>3, Zenon DEF Init, LossInv, SlotsTyped, Kept
<1>2. RoutesInv => RoutesTyped
  BY Zenon DEF RoutesInv
<1>3. LossInv /\ RoutesTyped /\ [Next]_vars => LossInv'
  BY LossStep, Zenon
<1> QED BY <1>1, <1>2, <1>3, RoutesInvariant, PTL DEF Spec

\* A sample that is in a pipeline is carried by it.
LEMMA PushedCarried ==
  ASSUME LossInv, NEW p \in Peers, NEW s \in Range(queue[p])
  PROVE  Carried(p, s)
<1>1. PICK i \in DOMAIN queue[p] : queue[p][i] = s
  BY Zenon DEF Range
<1> QED BY <1>1, Zenon DEF Carried, LossInv, Kept

-----------------------------------------------------------------------------
(* The properties *)

\* RoutesFreshUnlessOverlap, for any number of peers, threads, samples and changes of the
\* matches: when no call of sync_daemon_matches is under way and response_gen was seen,
\* the routes and addresses are the matches.
THEOREM RoutesFreshUnlessOverlapHolds == Spec => []RoutesFreshUnlessOverlap
<1>1. RoutesInv => RoutesFreshUnlessOverlap
  <2> SUFFICES ASSUME RoutesInv, ~ overlap, Quiet, ~ owed, gen = last_gen
               PROVE  routes = matched /\ known = matched
    BY Zenon DEF RoutesFreshUnlessOverlap, RoutesFresh
  <2>1. Settled
    BY Zenon DEF Quiet, Settled, At, Rebuilding
  <2> QED BY <2>1, Zenon DEF RoutesInv, Serial, Routed, Current
<1> QED BY <1>1, RoutesInvariant, PTL

\* LosslessUnlessOverlap, in general: a sample published after the daemon raised
\* response_gen for a match is put in the pipeline of the peer by publish_with_gid, or is
\* about to be, and is not pushed out of it unless the publisher is best effort and Depth
\* samples are behind it.
THEOREM LosslessUnlessOverlapHolds == Spec => []LosslessUnlessOverlap
<1>1. RoutesInv /\ LossInv => LosslessUnlessOverlap
  BY PushedCarried, Zenon DEF RoutesInv, Serial, Pushed, LosslessUnlessOverlap, Lossless
<1> QED BY <1>1, RoutesInvariant, LossInvariant, PTL

\* FirstInOrderUnlessOverlap, in general: no peer gets a sample for the first time after
\* a later one, however live samples and histories are mixed in its pipeline.
THEOREM FirstInOrderUnlessOverlapHolds == Spec => []FirstInOrderUnlessOverlap
<1>1. RoutesInv => FirstInOrderUnlessOverlap
  BY Zenon DEF RoutesInv, Serial, FirstInOrderUnlessOverlap
<1> QED BY <1>1, RoutesInvariant, PTL

\* DeliveredHasHistoryUnlessOverlap, in general: a peer in retained_remote_peers has been
\* sent all of the startup history, or is about to be.
THEOREM DeliveredHasHistoryUnlessOverlapHolds == Spec => []DeliveredHasHistoryUnlessOverlap
<1>1. RoutesInv => DeliveredHasHistoryUnlessOverlap
  BY Zenon DEF RoutesInv, Serial, Histories, HasHistory, Sent, Counted, DeliveredHasHistoryUnlessOverlap,
         DeliveredHasHistory
<1> QED BY <1>1, RoutesInvariant, PTL

\* LateJoinerServedUnlessOverlap, in general: every matched peer has the retained samples
\* of a transient publisher (TRANSIENT_LOCAL) in its pipeline, also one that matched late, or
\* matched again; none is pushed out before Depth samples are behind it.
THEOREM LateJoinerServedUnlessOverlapHolds == Spec => []LateJoinerServedUnlessOverlap
<1>1. RoutesInv /\ LossInv => LateJoinerServedUnlessOverlap
  <2> SUFFICES ASSUME RoutesInv, LossInv, ~ overlap, Quiet, ~ owed, gen = last_gen,
                      NEW p \in matched, NEW b \in Range(retained)
               PROVE  Carried(p, b)
    BY Zenon DEF LateJoinerServedUnlessOverlap, LateJoinerServed
  <2>1. Settled
    BY Zenon DEF Quiet, Settled, At, Rebuilding
  <2>2. routes = matched /\ \A q \in routes : HasHistory(q)
    BY <2>1, Zenon DEF RoutesInv, Serial, Routed, Histories, Current
  <2>3. Sent(p, b)
    BY <2>2, Zenon DEF HasHistory
  <2>4. \A t \in Threads : thread[t].sample = 0 /\ thread[t].pc = "idle"
    BY Zenon DEF RoutesInv, Serial, Samples, Quiet, At
  <2>5. b # 0
    BY DEF RoutesInv, Serial, Numbers
  <2>6. p \in Peers
    BY Zenon DEF RoutesInv, RoutesTyped
  <2>7. b \in Range(queue[p])
    BY <2>3, <2>4, <2>5, Zenon DEF Sent, At
  <2> QED BY <2>6, <2>7, PushedCarried, Zenon
<1> QED BY <1>1, RoutesInvariant, LossInvariant, PTL

=============================================================================
