-------------------------- MODULE SealedSendsProofs -------------------------
(***************************************************************************)
(* Proofs about the sealing of samples with QKD keys (SealedSends).        *)
(*                                                                         *)
(* The two properties need more than they say.  That a key is used up      *)
(* before the next one is asked for rests on the lock of outbound_keys     *)
(* being held over the call of the KME (KmeWithLock), and on the uses of   *)
(* the key being those counted (KeysCounted).  That the peers of a daemon  *)
(* share an envelope rests on who seals being the first to have asked for  *)
(* its cell, which is still empty (SealsFirst), and on every future being  *)
(* in, or having had its envelope from, the cell of its entry (OfEntry),   *)
(* unless that entry left the cache.                                       *)
(***************************************************************************)
EXTENDS SealedSends, TLAPS

-----------------------------------------------------------------------------
(* The inductive invariants of the senders *)

\* An entry of the cache is in its order.
Listed == \A s \in Slots : entries[s] # 0 <=> \E i \in DOMAIN order : order[i] = s

\* The worker writes only what it has taken.
Ahead == \A p \in writing : written[p] < taken[p]

\* A future that waits for the KME has the lock, and no use of the key is left.
KmeWithLock ==
  \A p \in Peers, n \in Pubs : fut[p][n].pc = "kme" =>
    First(lock, p, n) /\ key[DaemonOf[p]].uses \in {0, KeyLife}

\* The key for d is the last one that was asked for, its uses are counted, and those
\* before it are used up.
KeyOf(d) ==
  \/ key[d].id = 0 /\ key[d].uses = 0 /\ \A k \in DOMAIN keys : keys[k].of # d
  \/ /\ key[d].id \in DOMAIN keys /\ keys[key[d].id].of = d
     /\ keys[key[d].id].seals = key[d].uses /\ key[d].uses \in 1..KeyLife
     /\ \A k \in DOMAIN keys : keys[k].of = d /\ k # key[d].id => k < key[d].id /\ keys[k].seals = KeyLife
KeysCounted == \A d \in Daemons : KeyOf(d)

\* A future that seals is the first to have asked for its cell, which has no envelope yet.
InCell == {"cell", "lock", "kme"}
SealsFirst(p, n) ==
  /\ fut[p][n].pc \in InCell => fut[p][n].cell # 0
  /\ fut[p][n].pc \in {"lock", "kme"} =>
       cell[fut[p][n].cell].wire = NoWire /\ First(cell[fut[p][n].cell].asked, p, n)

\* Unless an entry was removed, a future has or has had the cell of its entry.
OfEntry(p, n) ==
  LET s == <<DaemonOf[p], n>> IN
  /\ fut[p][n].pc \in InCell \/ fut[p][n].wire # NoWire => s \in again \/ entries[s] # 0
  /\ fut[p][n].pc \in InCell => s \in again \/ fut[p][n].cell = entries[s]
  /\ fut[p][n].wire # NoWire => s \in again \/ cell[entries[s]].wire = fut[p][n].wire
CellsOfEntries == \A p \in Peers, n \in Pubs : SealsFirst(p, n) /\ OfEntry(p, n)

SealInv == TypeOK /\ Listed /\ Ahead /\ KmeWithLock /\ KeysCounted /\ CellsOfEntries

\* What is recorded of a future while there are c cells.
FutAt(c) == [pc : {"none", "seal", "cell", "lock", "kme", "done"}, cell : 0..c, wire : Wires]

\* A future that moves on keeps its cell and its envelope.
LEMMA FutRecord ==
  ASSUME NEW c \in Nat, NEW y \in FutAt(c), NEW pc \in {"none", "seal", "cell", "lock", "kme", "done"}, NEW x,
         x = [y EXCEPT !.pc = pc]
  PROVE  x \in FutAt(c) /\ x.pc = pc /\ x.cell = y.cell /\ x.wire = y.wire
BY Zenon DEF FutAt

\* Put: what the worker records of one future leaves all other futures alone, also when a
\* new cell was made.
LEMMA FutPut ==
  ASSUME TypeOK, NEW p \in Peers, NEW n \in Pubs, NEW l \in Nat, Len(cell) <= l, NEW f \in FutAt(l), Put(p, n, f)
  PROVE  /\ fut' \in [Peers -> [Pubs -> FutAt(l)]]
         /\ fut'[p][n] = f
         /\ \A q \in Peers, m \in Pubs : q # p \/ m # n => fut'[q][m] = fut[q][m]
<1>1. fut \in [Peers -> [Pubs -> FutAt(Len(cell))]] /\ Len(cell) \in Nat
  BY DEF TypeOK, FutAt
<1>2. FutAt(Len(cell)) \subseteq FutAt(l)
  BY <1>1 DEF FutAt
<1>3. fut \in [Peers -> [Pubs -> FutAt(l)]]
  BY <1>1, <1>2, Zenon
<1> QED BY <1>3, Zenon DEF Put

\* Go: a future that only moves on keeps its cell and its envelope, and the others are
\* untouched.
LEMMA FutGo ==
  ASSUME TypeOK, NEW p \in Peers, NEW n \in Pubs,
         NEW pc \in {"none", "seal", "cell", "lock", "kme", "done"},
         Go(p, n, pc)
  PROVE  /\ fut' \in [Peers -> [Pubs -> FutAt(Len(cell))]]
         /\ fut'[p][n].pc = pc /\ fut'[p][n].cell = fut[p][n].cell /\ fut'[p][n].wire = fut[p][n].wire
         /\ \A q \in Peers, m \in Pubs : q # p \/ m # n => fut'[q][m] = fut[q][m]
<1>1. fut \in [Peers -> [Pubs -> FutAt(Len(cell))]] /\ Len(cell) \in Nat
  BY DEF TypeOK, FutAt
<1>a. PICK y \in FutAt(Len(cell)) : y = fut[p][n]
  BY <1>1, Zenon
<1>b. PICK x : x = [y EXCEPT !.pc = pc]
  BY Zenon
<1>2. x \in FutAt(Len(cell)) /\ x.pc = pc /\ x.cell = y.cell /\ x.wire = y.wire
  BY <1>1, <1>b, FutRecord
<1>3. fut' = [fut EXCEPT ![p][n] = x]
  BY <1>1, <1>a, <1>b, Zenon DEF Go
<1>4. /\ fut' \in [Peers -> [Pubs -> FutAt(Len(cell))]] /\ fut'[p][n] = x
      /\ \A q \in Peers, m \in Pubs : q # p \/ m # n => fut'[q][m] = fut[q][m]
  BY <1>1, <1>2, <1>3, Zenon
<1>5. fut'[p][n].pc = pc /\ fut'[p][n].cell = fut[p][n].cell /\ fut'[p][n].wire = fut[p][n].wire
  BY <1>a, <1>2, <1>4, Zenon
<1> QED BY <1>4, <1>5, Zenon

\* The waiting lists of a cell and of the lock: who is first stays first when another
\* asks, and who asks for an empty list is first.
LEMMA QueueTyped ==
  ASSUME NEW q \in Seq(Futures), NEW p \in Peers, NEW n \in Pubs
  PROVE  /\ Ask(q, p, n) \in Seq(Futures) /\ Leave(q, p, n) \in Seq(Futures) /\ First(Ask(<<>>, p, n), p, n)
         /\ \A r \in Peers, m \in Pubs : First(q, r, m) => First(Ask(q, p, n), r, m)
<1>1. <<p, n>> \in Futures
  BY Zenon DEF Futures
<1>2. Append(q, <<p, n>>) \in Seq(Futures) /\ (q # <<>> => Head(Append(q, <<p, n>>)) = Head(q) /\ Tail(q) \in Seq(Futures))
  BY <1>1
<1>3. Append(q, <<p, n>>) # <<>>
  <2> SUFFICES ASSUME Append(q, <<p, n>>) = <<>> PROVE FALSE
    BY Zenon
  <2>1. Len(Append(q, <<p, n>>)) = Len(q) + 1 /\ Len(q) \in Nat
    BY <1>1
  <2>2. Len(Append(q, <<p, n>>)) = 0
    OBVIOUS
  <2> QED BY <2>1, <2>2
<1>4. Append(<<>>, <<p, n>>) = << <<p, n>> >>
  OBVIOUS
<1> QED BY <1>2, <1>3, <1>4 DEF Ask, Leave, First

\* Without (retain in the removal of a cache entry): exactly the entry removed is gone,
\* and the others are still there once.
LEMMA Removed ==
  ASSUME NEW S, NEW q \in Seq(S), NEW s \in S, \E i \in DOMAIN q : q[i] = s,
         \A i, j \in DOMAIN q : q[i] = q[j] => i = j
  PROVE  /\ Without(q, s) \in Seq(S) /\ Len(Without(q, s)) = Len(q) - 1
         /\ \A i, j \in DOMAIN Without(q, s) : Without(q, s)[i] = Without(q, s)[j] => i = j
         /\ \A t \in S : (\E i \in DOMAIN Without(q, s) : Without(q, s)[i] = t) <=> t # s /\ \E i \in DOMAIN q : q[i] = t
<1> DEFINE k == CHOOSE i \in DOMAIN q : q[i] = s
           r == [i \in 1 .. Len(q) - 1 |-> q[IF i < k THEN i ELSE i + 1]]
<1>1. k \in DOMAIN q /\ q[k] = s
  BY Zenon
<1>2. DOMAIN q = 1..Len(q) /\ Len(q) \in Nat
  OBVIOUS
<1>3. Without(q, s) = r
  BY Zenon DEF Without
<1> HIDE DEF k
<1>4. \A i \in 1 .. Len(q) - 1 : (IF i < k THEN i ELSE i + 1) \in 1..Len(q)
  BY <1>1, <1>2
<1>5. r \in Seq(S) /\ Len(r) = Len(q) - 1 /\ DOMAIN r = 1 .. Len(q) - 1
  BY <1>1, <1>2, <1>4
<1>6. \A i, j \in DOMAIN r : r[i] = r[j] => i = j
  BY <1>1, <1>2, <1>4, <1>5
<1>7. ASSUME NEW t \in S PROVE (\E i \in DOMAIN r : r[i] = t) <=> t # s /\ \E i \in DOMAIN q : q[i] = t
  <2>1. ASSUME NEW i \in DOMAIN r, r[i] = t PROVE t # s /\ \E j \in DOMAIN q : q[j] = t
    BY <1>1, <1>2, <1>4, <1>5, <2>1
  <2>2. ASSUME t # s, NEW j \in DOMAIN q, q[j] = t PROVE \E i \in DOMAIN r : r[i] = t
    <3>1. j # k /\ j \in 1..Len(q) /\ k \in 1..Len(q)
      BY <1>1, <1>2, <2>2, Zenon
    <3>2. CASE j < k
      BY <1>2, <1>5, <2>2, <3>1, <3>2
    <3>3. CASE j > k
      <4>1. j - 1 \in DOMAIN r /\ ~ (j - 1 < k) /\ j - 1 + 1 = j
        BY <1>2, <1>5, <3>1, <3>3
      <4> QED BY <1>5, <2>2, <4>1, Zenon
    <3> QED BY <1>2, <3>1, <3>2, <3>3
  <2> QED BY <2>1, <2>2, Zenon
<1> HIDE DEF r
<1> QED BY <1>3, <1>5, <1>6, <1>7, Zenon

-----------------------------------------------------------------------------
(* The types, by components *)

PipeTyped ==
  /\ published \in 0..MaxPubs
  /\ taken \in [Peers -> 0..MaxPubs] /\ written \in [Peers -> 0..MaxPubs]
  /\ \A p \in Peers : written[p] <= taken[p] /\ taken[p] <= published
  /\ writing \cup down \subseteq Peers
  /\ Ahead
FutTyped == fut \in [Peers -> [Pubs -> FutAt(Len(cell))]]
CellTyped == cell \in Seq(Cells)
CacheTyped ==
  /\ entries \in [Slots -> 0..Len(cell)]
  /\ order \in Seq(Slots) /\ Len(order) <= CacheSize
  /\ \A i, j \in DOMAIN order : order[i] = order[j] => i = j
  /\ again \subseteq Slots
  /\ Listed
KeyTyped ==
  /\ key \in [Daemons -> [id : Nat, uses : Nat]]
  /\ keys \in Seq([of : Daemons, seals : Nat])
Base == TypeOK /\ Listed /\ Ahead

\* The type invariant by components: workers, futures, cells, cache and keys.
LEMMA BaseParts ==
  Base <=> PipeTyped /\ FutTyped /\ CellTyped /\ CacheTyped /\ lock \in Seq(Futures) /\ KeyTyped /\ faults \in Nat
BY Zenon DEF Base, TypeOK, PipeTyped, FutTyped, CellTyped, CacheTyped, KeyTyped, FutAt

\* The same of the next state.
LEMMA BasePartsNext ==
  Base' <=> PipeTyped' /\ FutTyped' /\ CellTyped' /\ CacheTyped' /\ (lock \in Seq(Futures))' /\ KeyTyped' /\ (faults \in Nat)'
BY Zenon DEF Base, TypeOK, PipeTyped, FutTyped, CellTyped, CacheTyped, KeyTyped, FutAt

\* A change of the waiting list of a cell keeps its envelope.
LEMMA CellRecord ==
  ASSUME NEW q, NEW Q, q \in Q, NEW W, NEW y \in [asked : Q, wire : W], NEW x, x = [y EXCEPT !.asked = q]
  PROVE  x \in [asked : Q, wire : W] /\ x.asked = q /\ x.wire = y.wire
BY Zenon

\* Queue: the waiting list of one cell changes, no envelope does.
LEMMA CellPut ==
  ASSUME CellTyped, NEW c \in 1..Len(cell), NEW q \in Seq(Futures), Queue(c, q)
  PROVE  /\ CellTyped' /\ Len(cell') = Len(cell)
         /\ cell'[c].asked = q /\ cell'[c].wire = cell[c].wire
         /\ \A e \in 1..Len(cell) : e # c => cell'[e] = cell[e]
<1>a. PICK y \in Cells : y = cell[c]
  BY DEF CellTyped
<1>b. PICK x : x = [y EXCEPT !.asked = q]
  BY Zenon
<1>1. x \in Cells /\ x.asked = q /\ x.wire = y.wire
  BY <1>b, CellRecord, Zenon DEF Cells
<1>2. cell' = [cell EXCEPT ![c] = x]
  BY <1>a, <1>b, Zenon DEF CellTyped, Queue
<1>3. CellTyped' /\ Len(cell') = Len(cell) /\ cell'[c] = x /\ \A e \in 1..Len(cell) : e # c => cell'[e] = cell[e]
  BY <1>1, <1>2 DEF CellTyped
<1> QED BY <1>a, <1>1, <1>3, Zenon

\* A sealed cell has its envelope; the other cells are as before.
LEMMA CellSet ==
  ASSUME CellTyped, NEW c \in 1..Len(cell), NEW w \in Wires,
         cell' = [cell EXCEPT ![c] = [asked |-> <<>>, wire |-> w]]
  PROVE  /\ CellTyped' /\ Len(cell') = Len(cell)
         /\ cell'[c].wire = w
         /\ \A e \in 1..Len(cell) : e # c => cell'[e] = cell[e]
<1>1. [asked |-> <<>>, wire |-> w] \in Cells
  BY DEF Cells
<1> QED BY <1>1 DEF CellTyped

\* A new cell is added after the others, which are as before.
LEMMA CellNew ==
  ASSUME CellTyped, NEW q \in Seq(Futures), NEW w \in Wires,
         cell' = Append(cell, [asked |-> q, wire |-> w])
  PROVE  /\ CellTyped' /\ Len(cell') = Len(cell) + 1
         /\ cell'[Len(cell) + 1].asked = q /\ cell'[Len(cell) + 1].wire = w
         /\ \A e \in 1..Len(cell) : cell'[e] = cell[e]
<1>1. [asked |-> q, wire |-> w] \in Cells
  BY Zenon DEF Cells
<1> QED BY <1>1 DEF CellTyped

\* The cache is at its limit.
Full == Len(order) >= CacheSize

\* The insertion into the seal cache, with the eviction of the oldest entry when it is
\* full: the cache keeps its size, no entry is in it twice, and order and entries agree.
LEMMA OrderNew ==
  ASSUME CacheTyped, NEW s \in Slots, entries[s] = 0, CacheSize \in Nat \ {0},
         NEW c \in Nat \ {0}, c = Len(cell'), Len(cell) <= c, Len(cell) \in Nat,
         order' = Append(IF Full THEN Tail(order) ELSE order, s),
         entries' = [t \in Slots |-> IF t = s THEN c ELSE IF Full /\ t = Head(order) THEN 0 ELSE entries[t]],
         again' = IF Full THEN again \cup {Head(order)} ELSE again
  PROVE  CacheTyped'
<1> DEFINE l == Len(order)
<1>1. order \in Seq(Slots) /\ l \in Nat /\ l <= CacheSize /\ DOMAIN order = 1..l
  BY DEF CacheTyped
<1>i. \A i, j \in 1..l : order[i] = order[j] => i = j
  BY <1>1, Zenon DEF CacheTyped
<1>s. \A i \in 1..l : order[i] # s
  BY <1>1, Zenon DEF CacheTyped, Listed
<1>l. \A t \in Slots : entries[t] # 0 <=> \E i \in 1..l : order[i] = t
  BY <1>1, Zenon DEF CacheTyped, Listed
<1>e. entries \in [Slots -> 0..Len(cell)] /\ again \subseteq Slots
  BY Zenon DEF CacheTyped
<1>2. CASE Full
  <2>1. order # <<>> /\ l = CacheSize /\ l >= 1
    <3>a. l >= CacheSize
      BY <1>2, Zenon DEF Full
    <3>b. CacheSize \in Nat /\ CacheSize # 0
      BY Zenon
    <3> HIDE DEF l
    <3>1. l = CacheSize /\ l >= 1
      BY <1>1, <3>a, <3>b
    <3> USE DEF l
    <3>2. order = <<>> => l = 0
      BY Zenon
    <3> QED BY <3>1, <3>2, Zenon
  <2>2. /\ Tail(order) \in Seq(Slots) /\ Len(Tail(order)) = l - 1 /\ Head(order) = order[1] /\ Head(order) \in Slots
        /\ \A i \in 1 .. l - 1 : Tail(order)[i] = order[i + 1]
    BY <1>1, <2>1
  <2>3. /\ order' \in Seq(Slots) /\ Len(order') = l /\ order'[l] = s
        /\ \A i \in 1 .. l - 1 : order'[i] = order[i + 1]
    <3>1. order' = Append(Tail(order), s)
      BY <1>2, Zenon
    <3> HIDE DEF l
    <3> QED BY <1>1, <2>1, <2>2, <3>1
  <2> HIDE DEF l
  <2>d. DOMAIN order' = 1..l
    BY <2>3
  <2>5. \A i, j \in 1..l : order'[i] = order'[j] => i = j
    <3> SUFFICES ASSUME NEW i \in 1..l, NEW j \in 1..l, order'[i] = order'[j] PROVE i = j
      BY Zenon
    <3>1. i = l \/ (i \in 1 .. l - 1 /\ i + 1 \in 1..l)
      BY <1>1
    <3>2. j = l \/ (j \in 1 .. l - 1 /\ j + 1 \in 1..l)
      BY <1>1
    <3> QED BY <1>1, <1>i, <1>s, <2>3, <3>1, <3>2
  <2>6. again' \subseteq Slots /\ entries' \in [Slots -> 0..Len(cell')]
    BY <1>2, <1>e, <2>2
  <2>7. ASSUME NEW t \in Slots PROVE entries'[t] # 0 <=> \E i \in 1..l : order'[i] = t
    <3>1. CASE t = s
      <4>1. entries'[t] # 0 /\ l \in 1..l
        BY <1>1, <2>1, <3>1
      <4> QED BY <2>3, <3>1, <4>1, Zenon
    <3>2. CASE t # s /\ t = order[1]
      <4>1. entries'[t] = 0
        BY <1>2, <2>2, <3>2, Zenon
      <4>2. ASSUME NEW i \in 1..l, order'[i] = t PROVE FALSE
        <5>1. i \in 1 .. l - 1 /\ i + 1 \in 1..l /\ 1 \in 1..l /\ i + 1 # 1
          BY <1>1, <2>1, <2>3, <3>2, <4>2
        <5> QED BY <1>i, <2>3, <3>2, <4>2, <5>1
      <4> QED BY <4>1, <4>2, Zenon
    <3>3. CASE t # s /\ t # order[1]
      <4>1. entries'[t] = entries[t]
        BY <1>2, <2>2, <3>3, Zenon
      <4>3. ASSUME NEW i \in 1..l, order[i] = t PROVE \E j \in 1..l : order'[j] = t
        <5>1. i # 1 /\ i - 1 \in 1 .. l - 1 /\ i - 1 + 1 = i /\ i - 1 \in 1..l
          BY <1>1, <3>3, <4>3
        <5>2. order'[i - 1] = t
          BY <2>3, <4>3, <5>1, Zenon
        <5> QED BY <5>1, <5>2, Zenon
      <4>4. ASSUME NEW i \in 1..l, order'[i] = t PROVE \E j \in 1..l : order[j] = t
        <5>1. i \in 1 .. l - 1 /\ i + 1 \in 1..l
          BY <1>1, <2>3, <3>3, <4>4
        <5> QED BY <2>3, <4>4, <5>1, Zenon
      <4> QED BY <1>l, <4>1, <4>3, <4>4, Zenon
    <3> QED BY <3>1, <3>2, <3>3, Zenon
  <2>8. Listed'
    BY <2>d, <2>7, Zenon DEF Listed
  <2> QED BY <1>1, <2>d, <2>3, <2>5, <2>6, <2>8 DEF CacheTyped
<1>3. CASE ~ Full
  <2>1. l + 1 <= CacheSize
    BY <1>1, <1>3 DEF Full
  <2>2. /\ order' \in Seq(Slots) /\ Len(order') = l + 1 /\ order'[l + 1] = s
        /\ \A i \in 1..l : order'[i] = order[i]
    <3>1. order' = Append(order, s)
      BY <1>3, Zenon
    <3>2. Append(order, s) \in Seq(Slots) /\ Len(Append(order, s)) = l + 1
      BY <1>1
    <3>3. Append(order, s)[l + 1] = s /\ \A i \in 1..l : Append(order, s)[i] = order[i]
      BY <1>1
    <3> QED BY <3>1, <3>2, <3>3, Zenon
  <2> HIDE DEF l
  <2>d. DOMAIN order' = 1 .. l + 1
    BY <2>2
  <2>4. \A i, j \in 1 .. l + 1 : order'[i] = order'[j] => i = j
    <3> SUFFICES ASSUME NEW i \in 1 .. l + 1, NEW j \in 1 .. l + 1, order'[i] = order'[j] PROVE i = j
      BY Zenon
    <3>1. (i = l + 1 \/ i \in 1..l) /\ (j = l + 1 \/ j \in 1..l)
      BY <1>1
    <3> QED BY <1>i, <1>s, <2>2, <3>1
  <2>5. again' \subseteq Slots /\ entries' \in [Slots -> 0..Len(cell')]
    BY <1>3, <1>e
  <2>6. \A t \in Slots : entries'[t] = IF t = s THEN c ELSE entries[t]
    BY <1>3, Zenon
  <2>7. ASSUME NEW t \in Slots PROVE entries'[t] # 0 <=> \E i \in 1 .. l + 1 : order'[i] = t
    <3>1. l + 1 \in 1 .. l + 1 /\ \A i \in 1..l : i \in 1 .. l + 1
      BY <1>1
    <3>2. \A i \in 1 .. l + 1 : i \in 1..l \/ i = l + 1
      BY <1>1
    <3> QED BY <1>l, <2>2, <2>6, <3>1, <3>2
  <2>8. Listed'
    BY <2>d, <2>7, Zenon DEF Listed
  <2> QED BY <1>1, <2>d, <2>1, <2>2, <2>4, <2>5, <2>8, Zenon DEF CacheTyped
<1> QED BY <1>2, <1>3, Zenon

\* A publication to a peer has its entry with the daemon of the peer.
LEMMA SlotOf == ASSUME NEW p \in Peers, NEW n \in Pubs PROVE DaemonOf[p] \in Daemons /\ <<DaemonOf[p], n>> \in Slots
BY Zenon DEF Daemons, Slots

\* seal_topic_for_daemon that finds no entry: the future waits, alone, for the new cell
\* of its entry, and no other entry changes but one that is evicted.
LEMMA LookupNew ==
  ASSUME Base, NEW p \in Peers, NEW n \in Pubs, Lookup(p, n), entries[<<DaemonOf[p], n>>] = 0
  PROVE  /\ Base'
         /\ Len(cell) \in Nat /\ Len(cell') = Len(cell) + 1
         /\ cell'[Len(cell) + 1].wire = NoWire /\ cell'[Len(cell) + 1].asked = <<<<p, n>>>>
         /\ \A e \in 1..Len(cell) : cell'[e] = cell[e]
         /\ entries'[<<DaemonOf[p], n>>] = Len(cell) + 1
         /\ again \subseteq again'
         /\ \A t \in Slots : t # <<DaemonOf[p], n>> /\ entries'[t] # entries[t] => t \in again'
         /\ fut'[p][n] = [pc |-> "cell", cell |-> Len(cell) + 1, wire |-> NoWire]
         /\ \A q \in Peers, m \in Pubs : q # p \/ m # n => fut'[q][m] = fut[q][m]
<1> USE SealedSendsAssumption
<1> DEFINE s == <<DaemonOf[p], n>>
           c == Len(cell) + 1
<1>0. PipeTyped /\ FutTyped /\ CellTyped /\ CacheTyped /\ lock \in Seq(Futures) /\ KeyTyped /\ faults \in Nat /\ TypeOK
  BY BaseParts, Zenon DEF Base
<1>1. s \in Slots /\ entries[s] = 0 /\ Len(cell) \in Nat /\ c \in Nat
  BY <1>0, SlotOf DEF CellTyped
<1>2. /\ cell' = Append(cell, [asked |-> <<<<p, n>>>>, wire |-> NoWire])
      /\ order' = Append(IF Full THEN Tail(order) ELSE order, s)
      /\ entries' = [t \in Slots |-> IF t = s THEN c ELSE IF Full /\ t = Head(order) THEN 0 ELSE entries[t]]
      /\ again' = IF Full THEN again \cup {Head(order)} ELSE again
      /\ Wait(p, n, c)
  BY <1>1, Zenon DEF Lookup, Full
<1>3. UNCHANGED <<lock, key, keys, faults, pipeline>>
  BY Zenon DEF Lookup
<1>4. <<<<p, n>>>> \in Seq(Futures) /\ NoWire \in Wires
  BY DEF Futures, Wires, NoWire
<1>5. /\ CellTyped' /\ Len(cell') = c
      /\ cell'[c].asked = <<<<p, n>>>> /\ cell'[c].wire = NoWire
      /\ \A e \in 1..Len(cell) : cell'[e] = cell[e]
  BY <1>0, <1>2, <1>4, CellNew, Zenon
<1> HIDE DEF c, s
<1>6. CacheTyped'
  <2>1. c # 0 /\ Len(cell) <= c /\ CacheSize \in Nat \ {0}
    BY <1>1 DEF c
  <2> QED BY <1>0, <1>1, <1>2, <1>5, <2>1, OrderNew, Zenon
<1>7. /\ FutTyped' /\ fut'[p][n] = [pc |-> "cell", cell |-> c, wire |-> NoWire]
      /\ \A q \in Peers, m \in Pubs : q # p \/ m # n => fut'[q][m] = fut[q][m]
  <2>1. Len(cell) <= c /\ c \in 0..c
    BY <1>1 DEF c
  <2>2. [pc |-> "cell", cell |-> c, wire |-> NoWire] \in FutAt(c)
    BY <1>4, <2>1, Zenon DEF FutAt
  <2>3. Put(p, n, [pc |-> "cell", cell |-> c, wire |-> NoWire])
    BY <1>2, Zenon DEF Wait
  <2> QED BY <1>0, <1>1, <1>5, <2>1, <2>2, <2>3, FutPut DEF FutTyped
<1>8. Base'
  BY <1>0, <1>3, <1>5, <1>6, <1>7, BasePartsNext, Zenon DEF PipeTyped, KeyTyped, Ahead, pipeline
<1>9. entries'[s] = c /\ again \subseteq again' /\ \A t \in Slots : t # s /\ entries'[t] # entries[t] => t \in again'
  BY <1>1, <1>2, Zenon
<1> QED BY <1>1, <1>5, <1>7, <1>8, <1>9, Zenon DEF c, s

\* What a look into the cache changes that finds cell c.
FoundCell(p, n, c) ==
  /\ UNCHANGED <<entries, order, again>>
  /\ c \in 1..Len(cell) /\ Len(cell') = Len(cell)
  /\ cell'[c].wire = cell[c].wire /\ cell[c].asked \in Seq(Futures)
  /\ cell'[c].asked \in {cell[c].asked, Ask(cell[c].asked, p, n)}
  /\ \A e \in 1..Len(cell) : e # c => cell'[e] = cell[e]
  /\ fut'[p][n] = [pc |-> "cell", cell |-> c, wire |-> NoWire]
  /\ \A q \in Peers, m \in Pubs : q # p \/ m # n => fut'[q][m] = fut[q][m]

\* seal_topic_for_daemon that finds an entry: the future waits for its cell, and the
\* cache does not change.
LEMMA LookupOld ==
  ASSUME Base, NEW p \in Peers, NEW n \in Pubs, Lookup(p, n), NEW c, c = entries[<<DaemonOf[p], n>>], c # 0
  PROVE  Base' /\ FoundCell(p, n, c)
<1>0. PipeTyped /\ FutTyped /\ CellTyped /\ CacheTyped /\ lock \in Seq(Futures) /\ KeyTyped /\ faults \in Nat /\ TypeOK
  BY BaseParts, Zenon DEF Base
<1>1. c \in 1..Len(cell) /\ Len(cell) \in Nat
  BY <1>0, SlotOf DEF CellTyped, CacheTyped
<1>2. /\ Queue(c, IF cell[c].wire = NoWire THEN Ask(cell[c].asked, p, n) ELSE cell[c].asked)
      /\ UNCHANGED <<entries, order, again>>
      /\ Wait(p, n, c)
  BY <1>1, Zenon DEF Lookup
<1>3. UNCHANGED <<lock, key, keys, faults, pipeline>>
  BY Zenon DEF Lookup
<1>4. cell[c].asked \in Seq(Futures) /\ NoWire \in Wires
  <2>1. cell[c] \in Cells
    BY <1>0, <1>1 DEF CellTyped
  <2> QED BY <2>1, Zenon DEF Cells, Wires, NoWire
<1>q. PICK q \in Seq(Futures) : q \in {cell[c].asked, Ask(cell[c].asked, p, n)} /\ Queue(c, q)
  BY <1>2, <1>4, QueueTyped, Zenon
<1>5. /\ CellTyped' /\ Len(cell') = Len(cell)
      /\ cell'[c].asked = q /\ cell'[c].wire = cell[c].wire
      /\ \A e \in 1..Len(cell) : e # c => cell'[e] = cell[e]
  BY <1>0, <1>1, <1>q, CellPut, Zenon
<1>7. /\ FutTyped' /\ fut'[p][n] = [pc |-> "cell", cell |-> c, wire |-> NoWire]
      /\ \A r \in Peers, m \in Pubs : r # p \/ m # n => fut'[r][m] = fut[r][m]
  <2>1. Len(cell) <= Len(cell) /\ c \in 0..Len(cell)
    BY <1>1
  <2>2. [pc |-> "cell", cell |-> c, wire |-> NoWire] \in FutAt(Len(cell))
    BY <1>4, <2>1, Zenon DEF FutAt
  <2>3. Put(p, n, [pc |-> "cell", cell |-> c, wire |-> NoWire])
    BY <1>2, Zenon DEF Wait
  <2> QED BY <1>0, <1>1, <1>5, <2>1, <2>2, <2>3, FutPut, Zenon DEF FutTyped
<1>8. Base'
  BY <1>0, <1>2, <1>3, <1>5, <1>7, BasePartsNext, Zenon DEF PipeTyped, KeyTyped, Ahead, pipeline, CacheTyped, Listed
<1> QED BY <1>1, <1>2, <1>4, <1>q, <1>5, <1>7, <1>8, Zenon DEF FoundCell

\* What a sealing with use u of key k changes.
SealedCell(p, n, c, k, u) ==
  /\ Base' /\ c \in 1..Len(cell) /\ Len(cell') = Len(cell)
  /\ cell'[c].wire = <<k, u>>
  /\ \A e \in 1..Len(cell) : e # c => cell'[e] = cell[e]
  /\ fut'[p][n] = [pc |-> "done", cell |-> 0, wire |-> <<k, u>>]
  /\ \A q \in Peers, m \in Pubs : q # p \/ m # n => fut'[q][m] = fut[q][m]

\* A sealing fills the cell of the future and gives the future its envelope; no other
\* future and no other cell changes.
LEMMA SealedChanges ==
  ASSUME Base, NEW p \in Peers, NEW n \in Pubs, NEW k \in Nat, NEW u \in Nat, Sealed(p, n, k, u),
         NEW c, c = fut[p][n].cell, c # 0, UNCHANGED <<faults, pipeline, cache>>, KeyTyped'
  PROVE  SealedCell(p, n, c, k, u)
<1>0. PipeTyped /\ FutTyped /\ CellTyped /\ CacheTyped /\ lock \in Seq(Futures) /\ KeyTyped /\ faults \in Nat /\ TypeOK
  BY BaseParts, Zenon DEF Base
<1>1. c \in 1..Len(cell) /\ Len(cell) \in Nat /\ <<k, u>> \in Wires
  BY <1>0 DEF CellTyped, FutTyped, FutAt, Wires
<1>2. /\ cell' = [cell EXCEPT ![c] = [asked |-> <<>>, wire |-> <<k, u>>]]
      /\ Put(p, n, [pc |-> "done", cell |-> 0, wire |-> <<k, u>>])
      /\ lock' = Leave(lock, p, n)
  BY Zenon DEF Sealed, Done
<1>3. /\ CellTyped' /\ Len(cell') = Len(cell) /\ cell'[c].wire = <<k, u>>
      /\ \A e \in 1..Len(cell) : e # c => cell'[e] = cell[e]
  BY <1>0, <1>1, <1>2, CellSet, Zenon
<1>4. lock' \in Seq(Futures)
  BY <1>0, <1>2, QueueTyped, Zenon
<1>5. /\ FutTyped' /\ fut'[p][n] = [pc |-> "done", cell |-> 0, wire |-> <<k, u>>]
      /\ \A q \in Peers, m \in Pubs : q # p \/ m # n => fut'[q][m] = fut[q][m]
  <2>1. Len(cell) <= Len(cell) /\ 0 \in 0..Len(cell)
    BY <1>1
  <2>2. [pc |-> "done", cell |-> 0, wire |-> <<k, u>>] \in FutAt(Len(cell))
    BY <1>1, <2>1, Zenon DEF FutAt
  <2> QED BY <1>0, <1>1, <1>2, <1>3, <2>1, <2>2, FutPut DEF FutTyped
<1>6. Base'
  BY <1>0, <1>3, <1>4, <1>5, BasePartsNext, Zenon DEF PipeTyped, Ahead, pipeline, cache, CacheTyped, Listed
<1> QED BY <1>1, <1>3, <1>5, <1>6, Zenon DEF SealedCell

\* A failed sealing: the future starts again, leaves the lists it is in, and its entry is
\* removed if it is still that of the cell.
LEMMA FailChanges ==
  ASSUME Base, NEW p \in Peers, NEW n \in Pubs, Fail(p, n), NEW c, c = fut[p][n].cell, c # 0
  PROVE  /\ Base' /\ c \in 1..Len(cell) /\ Len(cell') = Len(cell)
         /\ cell'[c].wire = cell[c].wire
         /\ \A e \in 1..Len(cell) : e # c => cell'[e] = cell[e]
         /\ fut'[p][n] = [pc |-> "seal", cell |-> 0, wire |-> NoWire]
         /\ \A q \in Peers, m \in Pubs : q # p \/ m # n => fut'[q][m] = fut[q][m]
         /\ again \subseteq again' /\ \A t \in Slots : entries'[t] # entries[t] => t \in again'
         /\ lock' = Leave(lock, p, n) /\ UNCHANGED <<key, keys>>
<1> DEFINE s == <<DaemonOf[p], n>>
<1>0. PipeTyped /\ FutTyped /\ CellTyped /\ CacheTyped /\ lock \in Seq(Futures) /\ KeyTyped /\ faults \in Nat /\ TypeOK
  BY BaseParts, Zenon DEF Base
<1>1. c \in 1..Len(cell) /\ Len(cell) \in Nat /\ s \in Slots
  BY <1>0, SlotOf DEF CellTyped, FutTyped, FutAt
<1>2. /\ Queue(c, Leave(cell[c].asked, p, n))
      /\ Put(p, n, [pc |-> "seal", cell |-> 0, wire |-> NoWire])
      /\ lock' = Leave(lock, p, n)
      /\ faults' = faults + 1 /\ UNCHANGED <<key, keys, pipeline>>
  BY Zenon DEF Fail, Released
<1>3. \/ UNCHANGED <<entries, order, again>>
      \/ /\ entries[s] = c /\ entries' = [entries EXCEPT ![s] = 0]
         /\ order' = Without(order, s) /\ again' = again \cup {s}
  BY Zenon DEF Fail
<1>q. PICK q \in Seq(Futures) : Queue(c, q)
  <2>1. cell[c] \in Cells
    BY <1>0, <1>1 DEF CellTyped
  <2>2. cell[c].asked \in Seq(Futures)
    BY <2>1, Zenon DEF Cells
  <2>3. Leave(cell[c].asked, p, n) \in Seq(Futures)
    BY <2>2, QueueTyped, Zenon
  <2> QED BY <1>2, <2>3, Zenon
<1>4. /\ CellTyped' /\ Len(cell') = Len(cell) /\ cell'[c].wire = cell[c].wire
      /\ \A e \in 1..Len(cell) : e # c => cell'[e] = cell[e]
  BY <1>0, <1>1, <1>q, CellPut, Zenon
<1>5. lock' \in Seq(Futures) /\ faults' \in Nat
  <2>1. faults' = faults + 1 /\ faults \in Nat
    BY <1>0, <1>2, Zenon
  <2>2. lock' \in Seq(Futures)
    BY <1>0, <1>2, QueueTyped, Zenon
  <2> QED BY <2>1, <2>2
<1>6. /\ FutTyped' /\ fut'[p][n] = [pc |-> "seal", cell |-> 0, wire |-> NoWire]
      /\ \A r \in Peers, m \in Pubs : r # p \/ m # n => fut'[r][m] = fut[r][m]
  <2>1. Len(cell) <= Len(cell) /\ 0 \in 0..Len(cell) /\ NoWire \in Wires
    BY <1>1 DEF NoWire, Wires
  <2>2. [pc |-> "seal", cell |-> 0, wire |-> NoWire] \in FutAt(Len(cell))
    BY <1>1, <2>1, Zenon DEF FutAt
  <2>3. PICK f \in FutAt(Len(cell)) : Put(p, n, f) /\ f = [pc |-> "seal", cell |-> 0, wire |-> NoWire]
    BY <1>2, <2>2, Zenon
  <2> QED BY <1>0, <1>1, <1>4, <2>1, <2>3, FutPut, Zenon DEF FutTyped
<1> HIDE DEF s
<1>7. CacheTyped' /\ again \subseteq again' /\ \A t \in Slots : entries'[t] # entries[t] => t \in again'
  <2>1. CASE UNCHANGED <<entries, order, again>>
    BY <1>0, <1>4, <2>1, Zenon DEF CacheTyped, Listed
  <2>2. CASE /\ entries[s] = c /\ entries' = [entries EXCEPT ![s] = 0]
             /\ order' = Without(order, s) /\ again' = again \cup {s}
    <3>1. /\ order \in Seq(Slots) /\ Len(order) \in Nat /\ Len(order) <= CacheSize
          /\ entries \in [Slots -> 0..Len(cell)] /\ again \subseteq Slots
          /\ \A i, j \in DOMAIN order : order[i] = order[j] => i = j
          /\ \A t \in Slots : entries[t] # 0 <=> \E i \in DOMAIN order : order[i] = t
      BY <1>0 DEF CacheTyped, Listed
    <3>2. \E i \in DOMAIN order : order[i] = s
      BY <1>1, <2>2, <3>1, Zenon
    <3>3. /\ order' \in Seq(Slots) /\ Len(order') = Len(order) - 1
          /\ \A i, j \in DOMAIN order' : order'[i] = order'[j] => i = j
          /\ \A t \in Slots : (\E i \in DOMAIN order' : order'[i] = t) <=> t # s /\ \E i \in DOMAIN order : order[i] = t
      <4> DEFINE w == Without(order, s)
      <4>1. /\ w \in Seq(Slots) /\ Len(w) = Len(order) - 1
            /\ \A i, j \in DOMAIN w : w[i] = w[j] => i = j
            /\ \A t \in Slots : (\E i \in DOMAIN w : w[i] = t) <=> t # s /\ \E i \in DOMAIN order : order[i] = t
        BY <1>1, <3>1, <3>2, Removed, Zenon
      <4>2. order' = w
        BY <2>2, Zenon
      <4> HIDE DEF w
      <4> QED BY <4>1, <4>2, Zenon
    <3>4. /\ entries' \in [Slots -> 0..Len(cell)] /\ entries'[s] = 0 /\ \A t \in Slots : t # s => entries'[t] = entries[t]
      BY <1>1, <2>2, <3>1
    <3>5. Listed'
      BY <3>1, <3>3, <3>4, Zenon DEF Listed
    <3>6. Len(order') <= CacheSize
      BY <3>1, <3>3, SealedSendsAssumption
    <3> QED BY <1>1, <1>4, <2>2, <3>1, <3>3, <3>4, <3>5, <3>6, Zenon DEF CacheTyped
  <2> QED BY <1>3, <2>1, <2>2, Zenon
<1>8. Base'
  BY <1>0, <1>2, <1>4, <1>5, <1>6, <1>7, BasePartsNext, Zenon DEF PipeTyped, Ahead, pipeline, KeyTyped
<1> QED BY <1>1, <1>2, <1>4, <1>6, <1>7, <1>8, Zenon

\* A step in which a future only moves on, by components.
LEMMA GoChanges ==
  ASSUME Base, NEW p \in Peers, NEW n \in Pubs,
         NEW pc \in {"none", "seal", "cell", "lock", "kme", "done"}, Go(p, n, pc), UNCHANGED cell
  PROVE  /\ FutTyped'
         /\ fut'[p][n].pc = pc /\ fut'[p][n].cell = fut[p][n].cell /\ fut'[p][n].wire = fut[p][n].wire
         /\ \A q \in Peers, m \in Pubs : q # p \/ m # n => fut'[q][m] = fut[q][m]
BY FutGo, Zenon DEF Base, FutTyped

\* The steps of the topic worker, and publications, keep the types: a worker writes only
\* what it has taken from its queue.
LEMMA WorkerBase ==
  ASSUME Base, NEW p \in Peers, Prepare(p) \/ Take(p) \/ Write(p) \/ GoDown(p) \/ Publish
  PROVE  Base'
<1>0. PipeTyped /\ FutTyped /\ CellTyped /\ CacheTyped /\ lock \in Seq(Futures) /\ KeyTyped /\ faults \in Nat
  BY BaseParts, Zenon
<1>1. CASE Prepare(p)
  <2>1. taken[p] + 1 \in Pubs /\ UNCHANGED <<published, written, writing, down, cell, lock, key, keys, faults, cache>>
    BY <1>0, <1>1, SealedSendsAssumption DEF Prepare, PipeTyped, Pubs
  <2>2. FutTyped'
    BY <1>1, <2>1, GoChanges, Zenon DEF Prepare
  <2>3. PipeTyped'
    BY <1>0, <1>1, SealedSendsAssumption DEF Prepare, PipeTyped, Ahead, Polled
  <2> QED BY <1>0, <2>1, <2>2, <2>3, BasePartsNext, Zenon DEF CellTyped, CacheTyped, KeyTyped, cache, Listed
<1>2. CASE Take(p)
  <2>1. PipeTyped'
    BY <1>0, <1>2, Zenon DEF Take, PipeTyped, Ahead
  <2> QED BY <1>0, <1>2, <2>1, BasePartsNext, Zenon DEF Take, FutTyped, CellTyped, CacheTyped, KeyTyped, cache, Listed
<1>3. CASE Write(p)
  <2>1. PipeTyped'
    <3>1. written[p] < taken[p] /\ written[p] \in Nat /\ taken[p] \in 0..MaxPubs /\ MaxPubs \in Nat
      BY <1>0, <1>3, SealedSendsAssumption DEF Write, PipeTyped, Ahead
    <3>2. written' \in [Peers -> 0..MaxPubs] /\ written'[p] = written[p] + 1 /\ \A q \in Peers : q # p => written'[q] = written[q]
      BY <1>0, <1>3, <3>1 DEF Write, PipeTyped
    <3> QED BY <1>0, <1>3, <3>1, <3>2 DEF Write, PipeTyped, Ahead
  <2> QED BY <1>0, <1>3, <2>1, BasePartsNext, Zenon DEF Write, FutTyped, CellTyped, CacheTyped, KeyTyped, cache, Listed
<1>4. CASE GoDown(p)
  <2>1. PipeTyped'
    BY <1>0, <1>4, Zenon DEF GoDown, PipeTyped, Ahead
  <2> QED BY <1>0, <1>4, <2>1, BasePartsNext, Zenon DEF GoDown, FutTyped, CellTyped, CacheTyped, KeyTyped, cache, Listed
<1>5. CASE Publish
  <2>1. PipeTyped'
    BY <1>0, <1>5, SealedSendsAssumption DEF Publish, PipeTyped, Ahead
  <2> QED BY <1>0, <1>5, <2>1, BasePartsNext, Zenon DEF Publish, FutTyped, CellTyped, CacheTyped, KeyTyped, cache, Listed
<1> QED BY <1>1, <1>2, <1>3, <1>4, <1>5, Zenon

\* What holds of a future that seals is kept by a step that leaves it, and the envelope
\* and the first in the list of its cell, alone.
LEMMA SealsFirstFrame ==
  ASSUME NEW q \in Peers, NEW m \in Pubs, SealsFirst(q, m), fut'[q][m] = fut[q][m],
         fut[q][m].pc \in {"lock", "kme"} =>
           /\ cell'[fut[q][m].cell].wire = cell[fut[q][m].cell].wire
           /\ First(cell[fut[q][m].cell].asked, q, m) => First(cell'[fut[q][m].cell].asked, q, m)
  PROVE  SealsFirst(q, m)'
BY Zenon DEF SealsFirst, First

\* What holds of a future and its entry is kept by a step that leaves the entry alone, or
\* counts it as removed.
LEMMA OfEntryFrame ==
  ASSUME NEW q \in Peers, NEW m \in Pubs, OfEntry(q, m), NEW s, s = <<DaemonOf[q], m>>, again \subseteq again',
         fut'[q][m].pc \in InCell => fut[q][m].pc \in InCell,
         fut'[q][m].cell = fut[q][m].cell, fut'[q][m].wire = fut[q][m].wire,
         s \in again' \/ entries'[s] = entries[s],
         fut[q][m].wire # NoWire /\ s \notin again' => cell'[entries[s]].wire = cell[entries[s]].wire
  PROVE  OfEntry(q, m)'
BY Zenon DEF OfEntry

\* The count of the keys depends on nothing but the keys.
LEMMA KeysFrame == ASSUME KeysCounted, UNCHANGED <<key, keys>> PROVE KeysCounted'
BY Zenon DEF KeysCounted, KeyOf

\* The invariant without the types.
SealRest == KmeWithLock /\ KeysCounted /\ CellsOfEntries

\* The steps of the topic worker, and publications, seal nothing.
LEMMA WorkerSeals ==
  ASSUME Base, SealRest, NEW p \in Peers, Prepare(p) \/ Take(p) \/ Write(p) \/ GoDown(p) \/ Publish
  PROVE  SealRest'
<1>1. UNCHANGED <<cell, lock, key, keys, cache>>
  BY Zenon DEF Prepare, Take, Write, GoDown, Publish
<1>2. \A q \in Peers, m \in Pubs : \/ fut'[q][m] = fut[q][m]
                                   \/ /\ fut'[q][m].pc = "seal" /\ fut'[q][m].cell = fut[q][m].cell
                                      /\ fut'[q][m].wire = fut[q][m].wire
  <2>1. CASE Prepare(p)
    <3>1. taken[p] + 1 \in Pubs
      BY <2>1, BaseParts, SealedSendsAssumption DEF Prepare, PipeTyped, Pubs
    <3> QED BY <2>1, <3>1, GoChanges DEF Prepare
  <2>2. CASE Take(p) \/ Write(p) \/ GoDown(p) \/ Publish
    BY <2>2, Zenon DEF Take, Write, GoDown, Publish
  <2> QED BY <2>1, <2>2, Zenon
<1>3. KmeWithLock' /\ KeysCounted'
  BY <1>1, <1>2, KeysFrame DEF SealRest, KmeWithLock, First
<1>4. ASSUME NEW q \in Peers, NEW m \in Pubs PROVE SealsFirst(q, m)' /\ OfEntry(q, m)'
  <2>1. SealsFirst(q, m) /\ OfEntry(q, m)
    BY Zenon DEF SealRest, CellsOfEntries
  <2>2. SealsFirst(q, m)'
    BY <1>1, <1>2, <2>1, Zenon DEF SealsFirst, InCell
  <2>3. OfEntry(q, m)'
    BY <1>1, <1>2, <2>1, OfEntryFrame, Zenon DEF cache, InCell
  <2> QED BY <2>2, <2>3, Zenon
<1> QED BY <1>3, <1>4, Zenon DEF SealRest, CellsOfEntries

\* seal_topic_for_daemon's search of the cache: a future that waits for a cell waits for
\* the one in the cache, unless its entry was removed.
LEMMA LookupSeals ==
  ASSUME Base, SealRest, NEW p \in Peers, NEW n \in Pubs, Lookup(p, n)
  PROVE  Base' /\ SealRest'
<1> DEFINE s == <<DaemonOf[p], n>>
<1>0. UNCHANGED <<lock, key, keys>> /\ s \in Slots
  BY SlotOf, Zenon DEF Lookup
<1>t. \A q \in Peers, m \in Pubs : fut[q][m].cell \in 0..Len(cell) /\ Len(cell) \in Nat /\ entries[<<DaemonOf[q], m>>] \in 0..Len(cell)
  BY BaseParts, SlotOf DEF FutTyped, FutAt, CacheTyped, CellTyped
<1>u. ASSUME NEW q \in Peers, NEW m \in Pubs, fut[q][m].pc \in {"lock", "kme"} PROVE fut[q][m].cell \in 1..Len(cell)
  <2>1. fut[q][m].cell # 0
    BY <1>u, Zenon DEF SealRest, CellsOfEntries, SealsFirst, InCell
  <2>2. fut[q][m].cell \in 0..Len(cell) /\ Len(cell) \in Nat
    BY <1>t, Zenon
  <2> QED BY <2>1, <2>2
<1>1. CASE entries[s] = 0
  <2> DEFINE c == Len(cell) + 1
  <2>1. /\ Base' /\ cell'[c].wire = NoWire
        /\ \A e \in 1..Len(cell) : cell'[e] = cell[e]
        /\ entries'[s] = c /\ again \subseteq again'
        /\ \A t \in Slots : t # s /\ entries'[t] # entries[t] => t \in again'
        /\ fut'[p][n] = [pc |-> "cell", cell |-> c, wire |-> NoWire]
        /\ \A q \in Peers, m \in Pubs : q # p \/ m # n => fut'[q][m] = fut[q][m]
    BY <1>1, LookupNew, Zenon
  <2>2. c \in Nat /\ c # 0
    BY <1>t
  <2> HIDE DEF c
  <2>3. KmeWithLock' /\ KeysCounted'
    BY <1>0, <2>1, KeysFrame DEF SealRest, KmeWithLock, First
  <2>4. SealsFirst(p, n)' /\ OfEntry(p, n)'
    BY <2>1, <2>2 DEF SealsFirst, OfEntry, InCell
  <2>5. ASSUME NEW q \in Peers, NEW m \in Pubs, q # p \/ m # n PROVE SealsFirst(q, m)' /\ OfEntry(q, m)'
    <3>1. SealsFirst(q, m) /\ OfEntry(q, m) /\ fut'[q][m] = fut[q][m]
      BY <2>1, <2>5, Zenon DEF SealRest, CellsOfEntries
    <3>2. SealsFirst(q, m)'
      <4>1. fut[q][m].pc \in {"lock", "kme"} => fut[q][m].cell \in 1..Len(cell)
        BY <1>u, Zenon
      <4> QED BY <2>1, <3>1, <4>1, SealsFirstFrame, Zenon
    <3>3. OfEntry(q, m)'
      <4>1. CASE <<DaemonOf[q], m>> = s
        BY <1>1, <2>1, <3>1, <4>1, Zenon DEF OfEntry
      <4>2. CASE <<DaemonOf[q], m>> # s
        <5>1. <<DaemonOf[q], m>> \in Slots
          BY SlotOf, Zenon
        <5>2. <<DaemonOf[q], m>> \in again' \/ entries'[<<DaemonOf[q], m>>] = entries[<<DaemonOf[q], m>>]
          BY <2>1, <4>2, <5>1, Zenon
        <5>3. fut[q][m].wire # NoWire /\ <<DaemonOf[q], m>> \notin again' => entries[<<DaemonOf[q], m>>] \in 1..Len(cell)
          BY <1>t, <2>1, <3>1 DEF OfEntry
        <5> QED BY <2>1, <3>1, <5>2, <5>3, OfEntryFrame
      <4> QED BY <4>1, <4>2, Zenon
    <3> QED BY <3>2, <3>3, Zenon
  <2>6. CellsOfEntries'
    BY <2>4, <2>5, Zenon DEF CellsOfEntries
  <2> QED BY <2>1, <2>3, <2>6, Zenon DEF SealRest
<1>2. CASE entries[s] # 0
  <2>a. PICK c : c = entries[<<DaemonOf[p], n>>] /\ c # 0
    BY <1>2, Zenon
  <2>1. /\ Base' /\ UNCHANGED <<entries, order, again>>
        /\ c \in 1..Len(cell) /\ Len(cell') = Len(cell)
        /\ cell'[c].wire = cell[c].wire /\ cell[c].asked \in Seq(Futures)
        /\ cell'[c].asked \in {cell[c].asked, Ask(cell[c].asked, p, n)}
        /\ \A e \in 1..Len(cell) : e # c => cell'[e] = cell[e]
        /\ fut'[p][n] = [pc |-> "cell", cell |-> c, wire |-> NoWire]
        /\ \A q \in Peers, m \in Pubs : q # p \/ m # n => fut'[q][m] = fut[q][m]
    <3>1. Base' /\ FoundCell(p, n, c)
      BY <2>a, LookupOld
    <3> QED BY <3>1, Zenon DEF FoundCell
  <2>2. c # 0
    BY <1>2, <2>a, Zenon
  <2>3. KmeWithLock' /\ KeysCounted'
    BY <1>0, <2>1, KeysFrame DEF SealRest, KmeWithLock, First
  <2>4. SealsFirst(p, n)' /\ OfEntry(p, n)'
    BY <2>a, <2>1, <2>2 DEF SealsFirst, OfEntry, InCell
  <2>5. ASSUME NEW q \in Peers, NEW m \in Pubs, q # p \/ m # n PROVE SealsFirst(q, m)' /\ OfEntry(q, m)'
    <3>1. SealsFirst(q, m) /\ OfEntry(q, m) /\ fut'[q][m] = fut[q][m]
      BY <2>1, <2>5, Zenon DEF SealRest, CellsOfEntries
    <3>a. \A e \in 1..Len(cell) : cell'[e].wire = cell[e].wire /\ (First(cell[e].asked, q, m) => First(cell'[e].asked, q, m))
      BY <2>1, QueueTyped, Zenon
    <3>2. SealsFirst(q, m)'
      <4>1. fut[q][m].pc \in {"lock", "kme"} => fut[q][m].cell \in 1..Len(cell)
        BY <1>u, Zenon
      <4> QED BY <3>1, <3>a, <4>1, SealsFirstFrame, Zenon
    <3>3. OfEntry(q, m)'
      <4>1. fut[q][m].wire # NoWire /\ <<DaemonOf[q], m>> \notin again' => entries[<<DaemonOf[q], m>>] \in 1..Len(cell)
        BY <1>t, <2>1, <3>1 DEF OfEntry
      <4> QED BY <2>1, <3>1, <3>a, <4>1, OfEntryFrame
    <3> QED BY <3>2, <3>3, Zenon
  <2>6. CellsOfEntries'
    BY <2>4, <2>5, Zenon DEF CellsOfEntries
  <2> QED BY <2>1, <2>3, <2>6, Zenon DEF SealRest
<1> QED BY <1>1, <1>2, Zenon

\* In a step of p's future n with its cell, what it must keep for the others.
LEMMA OthersSeal ==
  ASSUME Base, SealRest, NEW p \in Peers, NEW n \in Pubs,
         \A q \in Peers, m \in Pubs : q # p \/ m # n => fut'[q][m] = fut[q][m],
         again \subseteq again', \A t \in Slots : t \in again' \/ entries'[t] = entries[t],
         \A q \in Peers, m \in Pubs : (q # p \/ m # n) /\ fut[q][m].pc \in {"lock", "kme"} =>
           cell'[fut[q][m].cell] = cell[fut[q][m].cell],
         \A e \in 1..Len(cell) : cell[e].wire # NoWire => cell'[e].wire = cell[e].wire,
         SealsFirst(p, n)', OfEntry(p, n)'
  PROVE  CellsOfEntries'
<1> SUFFICES ASSUME NEW q \in Peers, NEW m \in Pubs, q # p \/ m # n PROVE SealsFirst(q, m)' /\ OfEntry(q, m)'
  BY Zenon DEF CellsOfEntries
<1>1. SealsFirst(q, m) /\ OfEntry(q, m) /\ fut'[q][m] = fut[q][m]
  BY Zenon DEF SealRest, CellsOfEntries
<1>2. SealsFirst(q, m)'
  BY <1>1, SealsFirstFrame, Zenon
<1>3. <<DaemonOf[q], m>> \in Slots /\ entries[<<DaemonOf[q], m>>] \in 0..Len(cell) /\ Len(cell) \in Nat
  BY BaseParts, SlotOf DEF CacheTyped, CellTyped
<1>4. ASSUME fut[q][m].wire # NoWire, <<DaemonOf[q], m>> \notin again'
      PROVE  cell'[entries[<<DaemonOf[q], m>>]].wire = cell[entries[<<DaemonOf[q], m>>]].wire
  <2>1. entries[<<DaemonOf[q], m>>] # 0 /\ cell[entries[<<DaemonOf[q], m>>]].wire = fut[q][m].wire
    BY <1>1, <1>4, Zenon DEF OfEntry
  <2> QED BY <1>3, <1>4, <2>1
<1>5. OfEntry(q, m)'
  BY <1>1, <1>3, <1>4, OfEntryFrame
<1> QED BY <1>2, <1>5, Zenon

\* A future in get_or_try_init has a cell.
LEMMA InCellOf ==
  ASSUME Base, SealRest, NEW p \in Peers, NEW n \in Pubs, fut[p][n].pc \in InCell
  PROVE  /\ fut[p][n].cell # 0 /\ fut[p][n].cell \in 1..Len(cell)
         /\ cell[fut[p][n].cell].wire \in Wires
<1>1. fut[p][n].cell # 0
  BY Zenon DEF SealRest, CellsOfEntries, SealsFirst
<1>2. fut[p][n].cell \in 0..Len(cell) /\ Len(cell) \in Nat
  BY BaseParts DEF FutTyped, FutAt, CellTyped
<1>3. fut[p][n].cell \in 1..Len(cell)
  BY <1>1, <1>2
<1>4. cell[fut[p][n].cell] \in Cells
  BY <1>3, BaseParts DEF CellTyped
<1> QED BY <1>1, <1>3, <1>4, Zenon DEF Cells

\* Only one future is the first in a list.
LEMMA FirstOnce ==
  ASSUME NEW q, NEW p \in Peers, NEW n \in Pubs, NEW r \in Peers, NEW m \in Pubs, First(q, p, n), First(q, r, m)
  PROVE  p = r /\ n = m
BY DEF First

\* get_or_try_init of a cell with an envelope: the future takes the envelope of its
\* entry.
LEMMA ReuseSeals ==
  ASSUME Base, SealRest, NEW p \in Peers, NEW n \in Pubs, Reuse(p, n)
  PROVE  Base' /\ SealRest'
<1>a. PICK c : c = fut[p][n].cell
  BY Zenon
<1>1. fut[p][n].pc = "cell" /\ cell[c].wire # NoWire /\ UNCHANGED <<cell, lock, key, keys, faults, pipeline, cache>>
  BY <1>a, Zenon DEF Reuse, At
<1>2. c \in 1..Len(cell) /\ cell[c].wire \in Wires /\ Len(cell) \in Nat
  BY <1>a, <1>1, InCellOf, BaseParts DEF InCell, CellTyped
<1>3. PICK f : f = [pc |-> "done", cell |-> 0, wire |-> cell[c].wire]
  BY Zenon
<1>4. f \in FutAt(Len(cell)) /\ Put(p, n, f) /\ Len(cell) <= Len(cell)
  BY <1>a, <1>2, <1>3 DEF FutAt, Reuse, Done
<1>5. /\ FutTyped' /\ fut'[p][n] = f
      /\ \A q \in Peers, m \in Pubs : q # p \/ m # n => fut'[q][m] = fut[q][m]
  BY <1>1, <1>2, <1>4, FutPut DEF Base, FutTyped
<1>6. Base'
  BY <1>1, <1>5, BaseParts, BasePartsNext, Zenon DEF PipeTyped, Ahead, pipeline, cache, CacheTyped, Listed, CellTyped, KeyTyped
<1>7. KmeWithLock' /\ KeysCounted'
  BY <1>1, <1>3, <1>5, KeysFrame DEF SealRest, KmeWithLock, First
<1>8. SealsFirst(p, n)'
  BY <1>3, <1>5 DEF SealsFirst, InCell
<1>9. OfEntry(p, n)'
  <2>1. OfEntry(p, n)
    BY Zenon DEF SealRest, CellsOfEntries
  <2> QED BY <1>a, <1>1, <1>3, <1>5, <2>1 DEF OfEntry, InCell, cache
<1>10. CellsOfEntries'
  BY <1>1, <1>5, <1>8, <1>9, OthersSeal, Zenon DEF cache
<1> QED BY <1>6, <1>7, <1>10, Zenon DEF SealRest

\* get_or_try_init of an empty cell: only the first to ask seals.
LEMMA InitialiseSeals ==
  ASSUME Base, SealRest, NEW p \in Peers, NEW n \in Pubs, Initialise(p, n)
  PROVE  Base' /\ SealRest'
<1>1. /\ fut[p][n].pc = "cell" /\ cell[fut[p][n].cell].wire = NoWire /\ First(cell[fut[p][n].cell].asked, p, n)
      /\ Go(p, n, "lock") /\ lock' = Ask(lock, p, n) /\ UNCHANGED <<cell, key, keys, faults, pipeline, cache>>
  BY Zenon DEF Initialise, Initialises, At
<1>2. /\ FutTyped'
      /\ fut'[p][n].pc = "lock" /\ fut'[p][n].cell = fut[p][n].cell /\ fut'[p][n].wire = fut[p][n].wire
      /\ \A q \in Peers, m \in Pubs : q # p \/ m # n => fut'[q][m] = fut[q][m]
  BY <1>1, GoChanges, Zenon
<1>3. lock \in Seq(Futures) /\ lock' \in Seq(Futures) /\ \A q \in Peers, m \in Pubs : First(lock, q, m) => First(lock', q, m)
  BY <1>1, BaseParts, QueueTyped, Zenon
<1>4. Base'
  BY <1>1, <1>2, <1>3, BaseParts, BasePartsNext, Zenon DEF PipeTyped, Ahead, pipeline, cache, CacheTyped, Listed, CellTyped, KeyTyped
<1>5. KeysCounted'
  BY <1>1, KeysFrame, Zenon DEF SealRest
<1>6. KmeWithLock'
  <2> SUFFICES ASSUME NEW q \in Peers, NEW m \in Pubs, fut'[q][m].pc = "kme"
               PROVE  First(lock', q, m) /\ key'[DaemonOf[q]].uses \in {0, KeyLife}
    BY Zenon DEF KmeWithLock, First
  <2>1. q # p \/ m # n
    BY <1>2, Zenon
  <2> QED BY <1>1, <1>2, <1>3, <2>1, Zenon DEF SealRest, KmeWithLock
<1>7. SealsFirst(p, n)'
  <2>1. fut[p][n].cell # 0
    BY <1>1, InCellOf, Zenon DEF InCell
  <2> QED BY <1>1, <1>2, <2>1, Zenon DEF SealsFirst, First
<1>8. OfEntry(p, n)'
  <2>1. OfEntry(p, n)
    BY Zenon DEF SealRest, CellsOfEntries
  <2> QED BY <1>1, <1>2, <2>1, Zenon DEF OfEntry, InCell, cache
<1>9. CellsOfEntries'
  BY <1>1, <1>2, <1>7, <1>8, OthersSeal, Zenon DEF cache
<1> QED BY <1>4, <1>5, <1>6, <1>9, Zenon DEF SealRest

\* encryption_key without a key that is left: the future waits for the KME with the lock
\* held.
LEMMA AskKmeSeals ==
  ASSUME Base, SealRest, NEW p \in Peers, NEW n \in Pubs, AskKme(p, n)
  PROVE  Base' /\ SealRest'
<1>1. /\ fut[p][n].pc = "lock" /\ First(lock, p, n) /\ key[DaemonOf[p]].uses \in {0, KeyLife}
      /\ Go(p, n, "kme") /\ UNCHANGED <<cell, lock, key, keys, faults, pipeline, cache>>
  BY Zenon DEF AskKme, At
<1>2. /\ FutTyped'
      /\ fut'[p][n].pc = "kme" /\ fut'[p][n].cell = fut[p][n].cell /\ fut'[p][n].wire = fut[p][n].wire
      /\ \A q \in Peers, m \in Pubs : q # p \/ m # n => fut'[q][m] = fut[q][m]
  BY <1>1, GoChanges, Zenon
<1>4. Base'
  BY <1>1, <1>2, BaseParts, BasePartsNext, Zenon DEF PipeTyped, Ahead, pipeline, cache, CacheTyped, Listed, CellTyped, KeyTyped
<1>5. KeysCounted'
  BY <1>1, KeysFrame, Zenon DEF SealRest
<1>6. KmeWithLock'
  BY <1>1, <1>2, Zenon DEF SealRest, KmeWithLock, First
<1>7. SealsFirst(p, n)'
  BY <1>1, <1>2, Zenon DEF SealRest, CellsOfEntries, SealsFirst, First, InCell
<1>8. OfEntry(p, n)'
  <2>1. OfEntry(p, n)
    BY Zenon DEF SealRest, CellsOfEntries
  <2> QED BY <1>1, <1>2, <2>1, Zenon DEF OfEntry, InCell, cache
<1>9. CellsOfEntries'
  BY <1>1, <1>2, <1>7, <1>8, OthersSeal, Zenon DEF cache
<1> QED BY <1>4, <1>5, <1>6, <1>9, Zenon DEF SealRest

\* A sealing by the future that has the lock and its cell: all that have or get the
\* envelope of this entry get the same one.
LEMMA SealedSeals ==
  ASSUME Base, SealRest, NEW p \in Peers, NEW n \in Pubs, fut[p][n].pc \in {"lock", "kme"}, First(lock, p, n),
         NEW k \in Nat, NEW u \in Nat, u # 0, Sealed(p, n, k, u),
         UNCHANGED <<faults, pipeline, cache>>, KeyTyped', KeysCounted', \A d \in Daemons : d # DaemonOf[p] => key'[d] = key[d]
  PROVE  Base' /\ SealRest'
<1>a. PICK c : c = fut[p][n].cell
  BY Zenon
<1>1. c # 0 /\ cell[c].wire = NoWire /\ First(cell[c].asked, p, n)
  BY <1>a, Zenon DEF SealRest, CellsOfEntries, SealsFirst, InCell
<1>2. /\ Base' /\ c \in 1..Len(cell) /\ Len(cell') = Len(cell)
      /\ cell'[c].wire = <<k, u>>
      /\ \A e \in 1..Len(cell) : e # c => cell'[e] = cell[e]
      /\ fut'[p][n] = [pc |-> "done", cell |-> 0, wire |-> <<k, u>>]
      /\ \A q \in Peers, m \in Pubs : q # p \/ m # n => fut'[q][m] = fut[q][m]
  <2>1. SealedCell(p, n, c, k, u)
    BY <1>a, <1>1, SealedChanges, Zenon
  <2> QED BY <2>1, Zenon DEF SealedCell
<1>3. fut'[p][n].pc = "done" /\ fut'[p][n].cell = 0 /\ fut'[p][n].wire = <<k, u>>
  BY <1>2
<1>4. KmeWithLock'
  <2> SUFFICES ASSUME NEW q \in Peers, NEW m \in Pubs, fut'[q][m].pc = "kme" PROVE FALSE
    BY Zenon DEF KmeWithLock, First
  <2>1. q # p \/ m # n
    BY <1>3, Zenon
  <2>2. First(lock, q, m)
    BY <1>2, <2>1, Zenon DEF SealRest, KmeWithLock
  <2> QED BY <2>1, <2>2, FirstOnce, Zenon
<1>5. SealsFirst(p, n)'
  BY <1>3, Zenon DEF SealsFirst, InCell
<1>6. OfEntry(p, n)'
  <2>1. OfEntry(p, n)
    BY Zenon DEF SealRest, CellsOfEntries
  <2> QED BY <1>a, <1>2, <1>3, <2>1, Zenon DEF OfEntry, InCell, cache
<1>7. ASSUME NEW q \in Peers, NEW m \in Pubs, q # p \/ m # n, fut[q][m].pc \in {"lock", "kme"}
      PROVE  cell'[fut[q][m].cell] = cell[fut[q][m].cell]
  <2>1. fut[q][m].cell \in 1..Len(cell) /\ First(cell[fut[q][m].cell].asked, q, m)
    BY <1>7, InCellOf, Zenon DEF InCell, SealRest, CellsOfEntries, SealsFirst
  <2>2. fut[q][m].cell # c
    BY <1>1, <1>7, <2>1, FirstOnce, Zenon
  <2> QED BY <1>2, <2>1, <2>2, Zenon
<1>8. \A e \in 1..Len(cell) : cell[e].wire # NoWire => cell'[e].wire = cell[e].wire
  BY <1>1, <1>2, Zenon
<1>9. CellsOfEntries'
  BY <1>2, <1>5, <1>6, <1>7, <1>8, OthersSeal, Zenon DEF cache
<1> QED BY <1>2, <1>4, <1>9, Zenon DEF SealRest

\* A use of a key counts one more.
LEMMA KeyRecord ==
  ASSUME NEW y \in [id : Nat, uses : Nat], NEW x, x = [y EXCEPT !.uses = @ + 1]
  PROVE  x \in [id : Nat, uses : Nat] /\ x.id = y.id /\ x.uses = y.uses + 1
OBVIOUS

\* A use of the key for one daemon leaves the keys for the others alone.
LEMMA KeyUsed ==
  ASSUME KeyTyped, NEW d \in Daemons, key' = [key EXCEPT ![d].uses = @ + 1]
  PROVE  /\ key' \in [Daemons -> [id : Nat, uses : Nat]]
         /\ key'[d].id = key[d].id /\ key'[d].uses = key[d].uses + 1
         /\ \A e \in Daemons : e # d => key'[e] = key[e]
<1>a. PICK y \in [id : Nat, uses : Nat] : y = key[d]
  BY Zenon DEF KeyTyped
<1>b. PICK x : x = [y EXCEPT !.uses = @ + 1]
  BY Zenon
<1>1. x \in [id : Nat, uses : Nat] /\ x.id = y.id /\ x.uses = y.uses + 1
  BY <1>b, KeyRecord, Zenon
<1>2. key' = [key EXCEPT ![d] = x]
  BY <1>a, <1>b, Zenon DEF KeyTyped
<1>3. key' \in [Daemons -> [id : Nat, uses : Nat]] /\ key'[d] = x /\ \A e \in Daemons : e # d => key'[e] = key[e]
  BY <1>1, <1>2, Zenon DEF KeyTyped
<1> QED BY <1>a, <1>1, <1>3, Zenon

\* A key that seals counts one more.
LEMMA SealRecord ==
  ASSUME NEW y \in [of : Daemons, seals : Nat], NEW x, x = [y EXCEPT !.seals = @ + 1]
  PROVE  x \in [of : Daemons, seals : Nat] /\ x.of = y.of /\ x.seals = y.seals + 1
OBVIOUS

\* An assignment to one element of a sequence.
LEMMA SeqPut ==
  ASSUME NEW S, NEW q \in Seq(S), NEW k \in DOMAIN q, NEW x \in S
  PROVE  /\ q[k] \in S /\ [q EXCEPT ![k] = x] \in Seq(S) /\ DOMAIN [q EXCEPT ![k] = x] = DOMAIN q
         /\ [q EXCEPT ![k] = x][k] = x /\ \A e \in DOMAIN q : e # k => [q EXCEPT ![k] = x][e] = q[e]
OBVIOUS

\* The envelopes of one key are counted, those of the others stay.
LEMMA SealCounted ==
  ASSUME KeyTyped, NEW k \in DOMAIN keys, keys' = [keys EXCEPT ![k].seals = @ + 1]
  PROVE  /\ keys' \in Seq([of : Daemons, seals : Nat]) /\ DOMAIN keys' = DOMAIN keys
         /\ keys'[k].of = keys[k].of /\ keys'[k].seals = keys[k].seals + 1
         /\ \A e \in DOMAIN keys : e # k => keys'[e] = keys[e]
<1>a. PICK y \in [of : Daemons, seals : Nat] : y = keys[k]
  <2>1. ASSUME NEW S, keys \in Seq(S) PROVE keys[k] \in S
    BY <2>1
  <2> QED BY <2>1, Zenon DEF KeyTyped
<1>b. PICK x : x = [y EXCEPT !.seals = @ + 1]
  BY Zenon
<1>1. x \in [of : Daemons, seals : Nat] /\ x.of = y.of /\ x.seals = y.seals + 1
  BY <1>b, SealRecord, Zenon
<1>2. keys' = [keys EXCEPT ![k] = x]
  BY <1>a, <1>b, Zenon DEF KeyTyped
<1>3. /\ keys' \in Seq([of : Daemons, seals : Nat]) /\ DOMAIN keys' = DOMAIN keys /\ keys'[k] = x
      /\ \A e \in DOMAIN keys : e # k => keys'[e] = keys[e]
  <2>1. PICK S : S = [of : Daemons, seals : Nat]
    BY Zenon
  <2>2. x \in S /\ keys \in Seq(S)
    BY <1>1, <2>1, Zenon DEF KeyTyped
  <2>3. /\ keys' \in Seq(S) /\ DOMAIN keys' = DOMAIN keys /\ keys'[k] = x
        /\ \A e \in DOMAIN keys : e # k => keys'[e] = keys[e]
    BY <1>2, <2>2, SeqPut
  <2> QED BY <2>1, <2>3, Zenon
<1> QED BY <1>a, <1>1, <1>3, Zenon

\* encryption_key with a key that has envelopes left: it seals one more, at most
\* QKD_MESSAGES_PER_KEY.
LEMMA UseKeySeals ==
  ASSUME Base, SealRest, NEW p \in Peers, NEW n \in Pubs, UseKey(p, n)
  PROVE  Base' /\ SealRest'
<1>a. PICK d \in Daemons : d = DaemonOf[p]
  BY SlotOf, Zenon
<1>b. PICK k : k = key[d].id
  BY Zenon
<1>1. /\ fut[p][n].pc = "lock" /\ First(lock, p, n) /\ key[d].uses \in 1 .. KeyLife - 1
      /\ key' = [key EXCEPT ![d].uses = @ + 1] /\ keys' = [keys EXCEPT ![k].seals = @ + 1]
      /\ Sealed(p, n, k, key[d].uses + 1) /\ UNCHANGED <<faults, pipeline, cache>>
  BY <1>a, <1>b, Zenon DEF UseKey, At
<1>2. KeyTyped /\ KeyLife \in Nat \ {0}
  BY BaseParts, SealedSendsAssumption, Zenon
<1>3. /\ k \in DOMAIN keys /\ keys[k].of = d /\ keys[k].seals = key[d].uses
      /\ \A e \in DOMAIN keys : keys[e].of = d /\ e # k => e < k /\ keys[e].seals = KeyLife
  BY <1>b, <1>1 DEF SealRest, KeysCounted, KeyOf
<1>4. /\ key' \in [Daemons -> [id : Nat, uses : Nat]]
      /\ key'[d].id = k /\ key'[d].uses = key[d].uses + 1
      /\ \A e \in Daemons : e # d => key'[e] = key[e]
  BY <1>b, <1>1, <1>2, KeyUsed, Zenon
<1>5. /\ keys' \in Seq([of : Daemons, seals : Nat]) /\ DOMAIN keys' = DOMAIN keys
      /\ keys'[k].of = d /\ keys'[k].seals = key[d].uses + 1
      /\ \A e \in DOMAIN keys : e # k => keys'[e] = keys[e]
  BY <1>1, <1>2, <1>3, SealCounted, Zenon
<1>6. k \in Nat /\ key[d].uses + 1 \in 1..KeyLife
  BY <1>b, <1>1, <1>2 DEF KeyTyped
<1>7. KeysCounted'
  <2> SUFFICES ASSUME NEW e \in Daemons PROVE KeyOf(e)'
    BY Zenon DEF KeysCounted
  <2>1. CASE e = d
    <3>1. \A i \in DOMAIN keys : keys'[i].of = d /\ i # k => i < k /\ keys'[i].seals = KeyLife
      BY <1>3, <1>5, Zenon
    <3> QED BY <1>3, <1>4, <1>5, <1>6, <2>1, <3>1, Zenon DEF KeyOf
  <2>2. CASE e # d
    <3>1. KeyOf(e) /\ key'[e] = key[e]
      BY <1>4, <2>2, Zenon DEF SealRest, KeysCounted
    <3>2. \A i \in DOMAIN keys : keys'[i].of = keys[i].of /\ (keys[i].of = e => keys'[i] = keys[i])
      BY <1>3, <1>5, <2>2, Zenon
    <3> QED BY <1>5, <3>1, <3>2, Zenon DEF KeyOf
  <2> QED BY <2>1, <2>2, Zenon
<1>8. KeyTyped'
  BY <1>4, <1>5, Zenon DEF KeyTyped
<1> QED
  <2>1. PICK u \in Nat : u # 0 /\ Sealed(p, n, k, u)
    BY <1>1, <1>6
  <2>2. \A e \in Daemons : e # DaemonOf[p] => key'[e] = key[e]
    BY <1>a, <1>4, Zenon
  <2> QED BY <1>1, <1>6, <1>7, <1>8, <2>1, <2>2, SealedSeals, Zenon

\* encryption_key with a new key from the KME: the key before it was used up, since no
\* one else had the lock meanwhile.
LEMMA NewKeySeals ==
  ASSUME Base, SealRest, NEW p \in Peers, NEW n \in Pubs, NewKey(p, n)
  PROVE  Base' /\ SealRest'
<1>a. PICK d \in Daemons : d = DaemonOf[p]
  BY SlotOf, Zenon
<1>b. PICK k : k = Len(keys) + 1
  BY Zenon
<1>1. /\ fut[p][n].pc = "kme" /\ keys' = Append(keys, [of |-> d, seals |-> 1])
      /\ key' = [key EXCEPT ![d] = [id |-> k, uses |-> 1]]
      /\ Sealed(p, n, k, 1) /\ UNCHANGED <<faults, pipeline, cache>>
  BY <1>a, <1>b, Zenon DEF NewKey, At
<1>2. KeyTyped /\ KeyLife \in Nat \ {0} /\ Len(keys) \in Nat /\ DOMAIN keys = 1..Len(keys)
  BY BaseParts, SealedSendsAssumption DEF KeyTyped
<1>3. First(lock, p, n) /\ key[d].uses \in {0, KeyLife} /\ k \in Nat
  BY <1>a, <1>b, <1>1, <1>2 DEF SealRest, KmeWithLock
<1>4. /\ key' \in [Daemons -> [id : Nat, uses : Nat]]
      /\ key'[d].id = k /\ key'[d].uses = 1
      /\ \A e \in Daemons : e # d => key'[e] = key[e]
  BY <1>1, <1>2, <1>3, Zenon DEF KeyTyped
<1>5. /\ keys' \in Seq([of : Daemons, seals : Nat]) /\ DOMAIN keys' = 1..k
      /\ keys'[k].of = d /\ keys'[k].seals = 1
      /\ \A e \in DOMAIN keys : keys'[e] = keys[e]
  BY <1>b, <1>1, <1>2 DEF KeyTyped
<1>7. KeysCounted'
  <2> SUFFICES ASSUME NEW e \in Daemons PROVE KeyOf(e)'
    BY Zenon DEF KeysCounted
  <2>1. CASE e = d
    <3>1. \A i \in DOMAIN keys : keys[i].of = d => keys[i].seals = KeyLife
      BY <1>2, <1>3 DEF SealRest, KeysCounted, KeyOf
    <3>2. \A i \in 1..k : keys'[i].of = d /\ i # k => i < k /\ keys'[i].seals = KeyLife
      BY <1>b, <1>2, <1>5, <3>1
    <3>3. k \in 1..k /\ 1 \in 1..KeyLife
      BY <1>b, <1>2
    <3> QED BY <1>4, <1>5, <2>1, <3>2, <3>3, Zenon DEF KeyOf
  <2>2. CASE e # d
    <3>1. KeyOf(e) /\ key'[e] = key[e]
      BY <1>4, <2>2, Zenon DEF SealRest, KeysCounted
    <3>2. \A i \in 1..k : i \in DOMAIN keys \/ keys'[i].of # e
      BY <1>b, <1>2, <1>5, <2>2
    <3>3. DOMAIN keys \subseteq DOMAIN keys'
      BY <1>b, <1>2, <1>5
    <3> QED BY <1>5, <3>1, <3>2, <3>3, Zenon DEF KeyOf
  <2> QED BY <2>1, <2>2, Zenon
<1>8. KeyTyped'
  BY <1>4, <1>5, Zenon DEF KeyTyped
<1>9. \A e \in Daemons : e # DaemonOf[p] => key'[e] = key[e]
  BY <1>a, <1>4, Zenon
<1> QED BY <1>1, <1>3, <1>7, <1>8, <1>9, SealedSeals

\* A failure of the KME or of the session hands over the cell and the lock, and counts
\* the entry as removed.
LEMMA FailSeals ==
  ASSUME Base, SealRest, NEW p \in Peers, NEW n \in Pubs, Fail(p, n)
  PROVE  Base' /\ SealRest'
<1>a. PICK c : c = fut[p][n].cell
  BY Zenon
<1>1. /\ fut[p][n].pc \in InCell /\ c # 0 /\ cell[c].wire = NoWire /\ First(cell[c].asked, p, n)
  <2>1. CASE At(p, n, "kme")
    BY <1>a, <2>1, Zenon DEF At, SealRest, CellsOfEntries, SealsFirst, InCell
  <2>2. CASE Initialises(p, n)
    BY <1>a, <2>2, Zenon DEF Initialises, At, SealRest, CellsOfEntries, SealsFirst, InCell
  <2> QED BY <2>1, <2>2, Zenon DEF Fail
<1>2. /\ Base' /\ c \in 1..Len(cell) /\ Len(cell') = Len(cell)
      /\ cell'[c].wire = cell[c].wire
      /\ \A e \in 1..Len(cell) : e # c => cell'[e] = cell[e]
      /\ fut'[p][n] = [pc |-> "seal", cell |-> 0, wire |-> NoWire]
      /\ \A q \in Peers, m \in Pubs : q # p \/ m # n => fut'[q][m] = fut[q][m]
      /\ again \subseteq again' /\ \A t \in Slots : entries'[t] # entries[t] => t \in again'
      /\ lock' = Leave(lock, p, n) /\ UNCHANGED <<key, keys>>
  BY <1>a, <1>1, FailChanges
<1>3. fut'[p][n].pc = "seal" /\ fut'[p][n].cell = 0 /\ fut'[p][n].wire = NoWire
  BY <1>2
<1>4. KmeWithLock'
  <2> SUFFICES ASSUME NEW q \in Peers, NEW m \in Pubs, fut'[q][m].pc = "kme"
               PROVE  First(lock', q, m) /\ key'[DaemonOf[q]].uses \in {0, KeyLife}
    BY Zenon DEF KmeWithLock, First
  <2>1. q # p \/ m # n
    BY <1>3, Zenon
  <2>2. First(lock, q, m) /\ key[DaemonOf[q]].uses \in {0, KeyLife}
    BY <1>2, <2>1, Zenon DEF SealRest, KmeWithLock
  <2>3. lock' = lock
    BY <1>2, <2>1, <2>2, FirstOnce, Zenon DEF Leave
  <2> QED BY <1>2, <2>2, <2>3, Zenon
<1>5. SealsFirst(p, n)' /\ OfEntry(p, n)'
  BY <1>3, Zenon DEF SealsFirst, InCell, OfEntry
<1>7. ASSUME NEW q \in Peers, NEW m \in Pubs, q # p \/ m # n, fut[q][m].pc \in {"lock", "kme"}
      PROVE  cell'[fut[q][m].cell] = cell[fut[q][m].cell]
  <2>1. fut[q][m].cell \in 1..Len(cell) /\ First(cell[fut[q][m].cell].asked, q, m)
    BY <1>7, InCellOf, Zenon DEF InCell, SealRest, CellsOfEntries, SealsFirst
  <2>2. fut[q][m].cell # c
    BY <1>1, <1>7, <2>1, FirstOnce, Zenon
  <2> QED BY <1>2, <2>1, <2>2, Zenon
<1>8. \A e \in 1..Len(cell) : cell[e].wire # NoWire => cell'[e].wire = cell[e].wire
  BY <1>2, Zenon
<1>9. CellsOfEntries'
  BY <1>2, <1>5, <1>7, <1>8, OthersSeal, Zenon
<1>10. KeysCounted'
  BY <1>2, KeysFrame, Zenon DEF SealRest
<1> QED BY <1>2, <1>4, <1>9, <1>10, Zenon DEF SealRest

\* What holds of the sealings depends on futures, cells, lock, keys and cache only.
LEMMA SealFrame == ASSUME SealRest, UNCHANGED <<fut, cell, lock, key, keys, cache>> PROVE SealRest'
BY DEF SealRest, KmeWithLock, KeysCounted, KeyOf, CellsOfEntries, SealsFirst, OfEntry, First, cache

\* The invariant holds before the first publication.
LEMMA SealInit == Init => SealInv
<1> SUFFICES ASSUME Init PROVE SealInv
  BY Zenon
<1>1. cell = <<>> /\ Len(cell) = 0 /\ order = <<>> /\ keys = <<>> /\ lock = <<>> /\ NoWire \in Wires
  BY Zenon DEF Init, NoWire, Wires
<1>2. fut \in [Peers -> [Pubs -> FutAt(0)]] /\ \A p \in Peers, n \in Pubs : fut[p][n].pc = "none" /\ fut[p][n].wire = NoWire
  BY <1>1 DEF Init, Idle, FutAt
<1>3. PipeTyped
  BY SealedSendsAssumption DEF Init, PipeTyped, Ahead
<1>4. CacheTyped
  BY <1>1, SealedSendsAssumption DEF Init, CacheTyped, Listed
<1>5. CellTyped /\ FutTyped /\ KeyTyped /\ lock \in Seq(Futures) /\ faults \in Nat
  BY <1>1, <1>2 DEF Init, CellTyped, FutTyped, KeyTyped
<1>6. Base
  BY <1>3, <1>4, <1>5, BaseParts, Zenon
<1>7. KmeWithLock /\ CellsOfEntries
  BY <1>2, Zenon DEF KmeWithLock, CellsOfEntries, SealsFirst, OfEntry, InCell
<1>8. KeysCounted
  BY <1>1 DEF Init, KeysCounted, KeyOf
<1> QED BY <1>6, <1>7, <1>8, Zenon DEF SealInv, Base

\* Every step of a worker, a future or the environment keeps the invariant.
LEMMA SealStep == SealInv /\ [Next]_vars => SealInv'
<1> SUFFICES ASSUME Base, SealRest, [Next]_vars PROVE Base' /\ SealRest'
  BY Zenon DEF SealInv, Base, SealRest
<1>1. ASSUME NEW p \in Peers, Prepare(p) \/ Take(p) \/ Write(p) \/ GoDown(p) \/ Publish PROVE Base' /\ SealRest'
  BY <1>1, WorkerBase, WorkerSeals, Zenon
<1>2. ASSUME NEW p \in Peers, NEW n \in Pubs, Seal(p, n) PROVE Base' /\ SealRest'
  BY <1>2, LookupSeals, ReuseSeals, InitialiseSeals, UseKeySeals, AskKmeSeals, NewKeySeals, Zenon DEF Seal
<1>3. ASSUME NEW p \in Peers, NEW n \in Pubs, Fail(p, n) PROVE Base' /\ SealRest'
  BY <1>3, FailSeals, Zenon
<1>4. CASE Publish
  <2>1. PipeTyped'
    BY <1>4, BaseParts, SealedSendsAssumption DEF Publish, PipeTyped, Ahead
  <2>2. Base'
    BY <1>4, <2>1, BaseParts, BasePartsNext, Zenon DEF Publish, FutTyped, CellTyped, CacheTyped, KeyTyped, cache, Listed
  <2> QED BY <1>4, <2>2, SealFrame, Zenon DEF Publish
<1>5. CASE UNCHANGED vars
  <2>1. Base'
    BY <1>5, BaseParts, BasePartsNext, Zenon DEF vars, PipeTyped, Ahead, FutTyped, CellTyped, CacheTyped, KeyTyped, Listed
  <2> QED BY <1>5, <2>1, SealFrame, Zenon DEF vars, cache
<1> QED BY <1>1, <1>2, <1>3, <1>4, <1>5, Zenon DEF Next, Worker

\* The inductive invariant of the sealed sends: types, a cache in which every entry is
\* once, the future that asks the KME with the lock, the count of the keys, and the
\* futures in the cells of their entries.
THEOREM SealInvariant == Spec => []SealInv
BY SealInit, SealStep, PTL DEF Spec

\* KeysUsedUp, for any number of peers, daemons and publications and any
\* QKD_MESSAGES_PER_KEY: encryption_key asks the KME for a new key only when the one
\* before has sealed as many publications as it may, and no key seals more.
THEOREM KeysUsedUpHolds == Spec => []KeysUsedUp
<1>1. SealInv => KeysUsedUp
  <2> SUFFICES ASSUME SealInv, NEW k \in DOMAIN keys
               PROVE  /\ keys[k].seals <= KeyLife
                      /\ \A j \in DOMAIN keys : j > k /\ keys[j].of = keys[k].of => keys[k].seals = KeyLife
    BY Zenon DEF KeysUsedUp
  <2>1. KeyTyped /\ KeyLife \in Nat
    BY SealedSendsAssumption, Zenon DEF SealInv, TypeOK, KeyTyped
  <2>a. PICK d \in Daemons : d = keys[k].of
    <3>1. ASSUME NEW S, keys \in Seq(S) PROVE keys[k] \in S
      BY <3>1
    <3>2. keys[k] \in [of : Daemons, seals : Nat]
      BY <2>1, <3>1, Zenon DEF KeyTyped
    <3> QED BY <3>2, Zenon
  <2>2. /\ key[d].id \in DOMAIN keys /\ keys[key[d].id].seals \in 1..KeyLife
        /\ \A e \in DOMAIN keys : keys[e].of = d /\ e # key[d].id => e < key[d].id /\ keys[e].seals = KeyLife
    BY <2>a, Zenon DEF SealInv, KeysCounted, KeyOf
  <2>3. k \in Nat /\ key[d].id \in Nat /\ \A j \in DOMAIN keys : j \in Nat
    <3>1. ASSUME NEW S, keys \in Seq(S) PROVE \A j \in DOMAIN keys : j \in Nat
      BY <3>1
    <3>2. \A j \in DOMAIN keys : j \in Nat
      BY <2>1, <3>1, Zenon DEF KeyTyped
    <3> QED BY <2>2, <3>2, Zenon
  <2>4. CASE k = key[d].id
    <3>1. keys[k].seals <= KeyLife
      BY <2>1, <2>2, <2>4
    <3>2. \A j \in DOMAIN keys : ~ (j > k /\ keys[j].of = d)
      BY <2>2, <2>3, <2>4
    <3> QED BY <2>a, <3>1, <3>2, Zenon
  <2>5. CASE k # key[d].id
    BY <2>a, <2>1, <2>2, <2>5
  <2> QED BY <2>4, <2>5, Zenon
<1> QED BY <1>1, SealInvariant, PTL

\* SealedOnceUnlessRemoved, for any number of peers and any cache size: the peers of a
\* daemon get the same envelope of a publication from seal_topic_for_daemon, unless the
\* entry was evicted or removed after a failure.
THEOREM SealedOnceUnlessRemovedHolds == Spec => []SealedOnceUnlessRemoved
<1>1. SealInv => SealedOnceUnlessRemoved
  BY DEF SealInv, CellsOfEntries, OfEntry, SealedOnceUnlessRemoved
<1> QED BY <1>1, SealInvariant, PTL
=============================================================================
