------------------------------ MODULE QkdProofs ------------------------------
(***************************************************************************)
(* Proofs about the sessions of two QKD daemons (QkdSessions).             *)
(*                                                                         *)
(* ActiveIsShared is not inductive: the acknowledgement that makes a       *)
(* session active may be late, and the key in it may have been announced   *)
(* before a restart.  The invariant says of every key which daemon may     *)
(* still offer it (OneMaker), under which id (AnnouncedNow), and what an   *)
(* acknowledgement on its way stands for (AckIsShared).  The steps of the  *)
(* daemons are first reduced to what they change (Quiet, Reoffers, Makes,  *)
(* Takes, Activates, Forgets, Restarts).                                   *)
(***************************************************************************)
EXTENDS MCQkd, TLAPS

-----------------------------------------------------------------------------
(* The inductive invariant of the sessions *)

Other(h) == 3 - h

\* A key that h has made, as long as it is pending there or its announcement is on its way.
Announces(h, k) == \E m \in net : m.type = "announce" /\ m.to = Other(h) /\ m.key = k
Offers(h, k) == Announces(h, k) \/ \E i \in 1..MaxIds : session[h][i].key = k /\ ~ session[h][i].active

\* Sessions are with daemons that were there, and have keys that were made.
Past ==
  /\ \A h \in 1..2 : id[h] \in used
  /\ \A h \in 1..2, i \in 1..MaxIds :
       /\ session[h][i].key # 0 => i \in used /\ session[h][i].key <= made
       /\ session[h][i].active => session[h][i].key # 0
  /\ \A m \in net : /\ m.type # "ack" => m.id \in used
                    /\ m.type # "hello" => m.key <= made

\* Only one daemon offers a key, to daemons with a higher id; the other one has accepted it, or
\* does not have it.
OneMaker ==
  \A h \in 1..2, k \in 1..MaxKeys : Offers(h, k) =>
    /\ ~ Offers(Other(h), k)
    /\ \A i \in 1..MaxIds : /\ session[h][i].key = k => id[h] < i
                            /\ session[Other(h)][i].key = k => session[Other(h)][i].active

\* What is announced with a key that h still has, h has announced with the id that it has now.
AnnouncedNow ==
  \A h \in 1..2 : \A m \in net : \A i \in 1..MaxIds :
    m.type = "announce" /\ m.to = Other(h) /\ session[h][i].key = m.key => m.id = id[h]

\* An acknowledged key that is pending for the other daemon is active there.
AckIsShared ==
  \A h \in 1..2 : \A m \in net : LET i == id[Other(h)] IN
    m.type = "ack" /\ m.to = h /\ session[h][i].key = m.key /\ id[h] < i /\ ~ split =>
      session[Other(h)][id[h]].key = m.key /\ session[Other(h)][id[h]].active

\* An active session of the lower daemon is shared, in terms of its fields.
FieldsShared ==
  \A h \in 1..2 : LET i == id[Other(h)] IN
    id[h] < i /\ session[h][i].active /\ ~ split =>
      session[Other(h)][id[h]].key = session[h][i].key /\ session[Other(h)][id[h]].active

Agreed == Past /\ OneMaker /\ AnnouncedNow /\ AckIsShared /\ FieldsShared
SessionInv == N!TypeOK /\ Agreed

\* The two hosts of QkdSessions, and the one on the other side.
LEMMA HostsAre ==
  /\ N!Hosts = 1..2 /\ N!Ids = 1..MaxIds /\ N!Keys = 1..MaxKeys /\ N!NoKey = 0
  /\ \A h \in 1..2 : /\ N!Peer(h) = Other(h) /\ Other(h) \in 1..2 /\ Other(h) # h /\ Other(Other(h)) = h
                     /\ \A g \in 1..2 : g = h \/ g = Other(h)
BY DEF N!Hosts, N!Ids, N!Keys, N!NoKey, N!Peer, Other

Sess == [key : 1..MaxKeys \cup {0}, active : BOOLEAN]
Stored == session \in [1..2 -> [1..MaxIds -> Sess]]

\* put: QkdKeyStore changes the session with one daemon only.
LEMMA SessionPut ==
  ASSUME Stored, NEW h \in 1..2, NEW i \in 1..MaxIds, NEW s \in Sess, N!put(h, i, s)
  PROVE  /\ Stored' /\ session'[h][i] = s
         /\ \A g \in 1..2, j \in 1..MaxIds : g # h \/ j # i => session'[g][j] = session[g][j]
BY Zenon DEF Stored, N!put

\* The sessions that get_encryption_key and accept_inbound store.
LEMMA SessionFields ==
  ASSUME NEW k \in 1..MaxKeys
  PROVE  /\ N!Pending(k) \in Sess /\ N!Pending(k).key = k /\ ~ N!Pending(k).active
         /\ N!Active(k) \in Sess /\ N!Active(k).key = k /\ N!Active(k).active
BY Zenon DEF N!Pending, N!Active, Sess

\* The entry of a daemon with which there is no session.
LEMMA NoSession == N!None \in Sess /\ N!None.key = 0 /\ ~ N!None.active
BY Zenon DEF N!None, N!NoKey, Sess

\* The types of QkdSessions include those of the stores.
LEMMA SessionTyped == N!TypeOK => Stored
BY HostsAre, Zenon DEF N!TypeOK, Stored, Sess

\* ActiveIsShared in terms of the fields of the sessions, as the steps need it.
LEMMA SharedFields == ASSUME Stored, id \in [1..2 -> 1..MaxIds] PROVE FieldsShared <=> N!ActiveIsShared
<1>1. ASSUME NEW r \in Sess, NEW s \in Sess, s.active PROVE (r = s) <=> (r.key = s.key /\ r.active)
  BY <1>1 DEF Sess
<1>2. \A h \in 1..2 : /\ id[h] \in 1..MaxIds /\ id[Other(h)] \in 1..MaxIds
                      /\ session[Other(h)][id[h]] \in Sess /\ session[h][id[Other(h)]] \in Sess
  BY HostsAre DEF Stored
<1> QED BY <1>1, <1>2, HostsAre DEF FieldsShared, N!ActiveIsShared

Quiet ==
  /\ UNCHANGED <<id, used, session, made, split>>
  /\ \A m \in net' : m \in net \/ (m.type = "hello" /\ m.id \in used)

\* Heartbeats, datagrams that are lost or that come again: what leaves the stores alone
\* and announces nothing keeps the agreement.
LEMMA QuietAgreed == ASSUME Agreed, Quiet PROVE Agreed'
<1>1. \A h \in 1..2, k \in 1..MaxKeys : Offers(h, k)' => Offers(h, k)
  BY Zenon DEF Quiet, Offers, Announces
<1>2. Past'
  BY Zenon DEF Agreed, Quiet, Past
<1>3. OneMaker'
  BY <1>1, HostsAre, Zenon DEF Agreed, Quiet, OneMaker
<1>4. AnnouncedNow'
  BY Zenon DEF Agreed, Quiet, AnnouncedNow
<1>5. AckIsShared'
  BY Zenon DEF Agreed, Quiet, AckIsShared
<1>6. FieldsShared'
  BY Zenon DEF Agreed, Quiet, FieldsShared
<1> QED BY <1>2, <1>3, <1>4, <1>5, <1>6, Zenon DEF Agreed

\* h announces a key k that is pending there.
Reoffers(h, i) ==
  /\ UNCHANGED <<id, used, session, made, split>>
  /\ session[h][i].key # 0 /\ ~ session[h][i].active
  /\ \A m \in net' : \/ m \in net
                     \/ m.type = "announce" /\ m.to = Other(h) /\ m.id = id[h] /\ m.key = session[h][i].key

\* prepare_outbound with a key that is there: its announcement is repeated, with the id
\* that the daemon has now.
LEMMA ReoffersAgreed == ASSUME Stored, Agreed, NEW h \in 1..2, NEW i \in 1..MaxIds, Reoffers(h, i) PROVE Agreed'
<1>k. PICK k \in 1..MaxKeys : k = session[h][i].key
  <2>1. session[h][i] \in Sess
    BY Zenon DEF Stored
  <2> QED BY <2>1, Zenon DEF Sess, Reoffers
<1>0. Offers(h, k)
  BY <1>k, Zenon DEF Reoffers, Offers
<1>1. \A g \in 1..2, l \in 1..MaxKeys : Offers(g, l)' => Offers(g, l)
  BY <1>k, <1>0, HostsAre DEF Reoffers, Offers, Announces
<1>2. Past'
  BY Zenon DEF Agreed, Reoffers, Past
<1>3. OneMaker'
  BY <1>1, HostsAre, Zenon DEF Agreed, Reoffers, OneMaker
<1>4. AnnouncedNow'
  <2> SUFFICES ASSUME NEW g \in 1..2, NEW m \in net', NEW j \in 1..MaxIds, m.type = "announce", m.to = Other(g),
                      session[g][j].key = m.key, m \notin net
               PROVE  m.id = id[g]
    BY Zenon DEF Agreed, Reoffers, AnnouncedNow
  <2> QED BY HostsAre DEF Reoffers
<1>5. AckIsShared'
  BY Zenon DEF Agreed, Reoffers, AckIsShared
<1>6. FieldsShared'
  BY Zenon DEF Agreed, Reoffers, FieldsShared
<1> QED BY <1>2, <1>3, <1>4, <1>5, <1>6, Zenon DEF Agreed

\* The keys in datagrams are keys.
Numbered == \A m \in net : m.type # "hello" => m.key \in 1..MaxKeys

\* h makes a key for i, and announces it.
Makes(h, i) ==
  /\ UNCHANGED <<id, used, split>> /\ made' = made + 1
  /\ session[h][i].key = 0 /\ id[h] < i /\ i \in used
  /\ session'[h][i].key = made + 1 /\ ~ session'[h][i].active
  /\ \A g \in 1..2, j \in 1..MaxIds : g # h \/ j # i => session'[g][j] = session[g][j]
  /\ \A m \in net' : \/ m \in net
                     \/ m.type = "announce" /\ m.to = Other(h) /\ m.id = id[h] /\ m.key = made + 1

\* prepare_outbound with a new key of the KME: no one else has, or offers, that key.
LEMMA MakesAgreed ==
  ASSUME Agreed, made \in Nat, NEW h \in 1..2, NEW i \in 1..MaxIds, Makes(h, i),
         \A g \in 1..2, j \in 1..MaxIds : session[g][j].key \in Nat, Numbered, id \in [1..2 -> 1..MaxIds]
  PROVE  Agreed'
<1>k. PICK k \in Nat : k = made + 1
  OBVIOUS
<1>0. /\ \A g \in 1..2, j \in 1..MaxIds : session[g][j].key # k /\ session[g][j].key <= made
      /\ \A m \in net : m.type # "hello" => m.key # k
  BY <1>k DEF Agreed, Past, Numbered
<1>1. /\ \A g \in 1..2, l \in 1..MaxKeys : l # k /\ Offers(g, l)' => Offers(g, l)
      /\ \A g \in 1..2 : Offers(g, k)' => g = h
  <2>1. \A g \in 1..2, l \in 1..MaxKeys : l # k /\ Offers(g, l)' => Offers(g, l)
    BY <1>k DEF Makes, Offers, Announces
  <2>2. ASSUME NEW g \in 1..2, g # h PROVE ~ Offers(g, k)'
    BY <1>k, <1>0, <2>2, HostsAre DEF Makes, Offers, Announces
  <2> QED BY <2>1, <2>2, Zenon
<1>2. Past'
  BY <1>k, <1>0 DEF Agreed, Makes, Past, Numbered
<1>3. OneMaker'
  <2> SUFFICES ASSUME NEW g \in 1..2, NEW l \in 1..MaxKeys, Offers(g, l)'
               PROVE  /\ ~ Offers(Other(g), l)'
                      /\ \A j \in 1..MaxIds : /\ session'[g][j].key = l => id[g] < j
                                              /\ session'[Other(g)][j].key = l => session'[Other(g)][j].active
    BY DEF OneMaker, Makes
  <2>1. CASE l = k
    <3>1. g = h /\ ~ Offers(Other(g), l)'
      BY <1>1, <2>1, HostsAre, Zenon
    <3> QED BY <1>k, <1>0, <2>1, <3>1, HostsAre DEF Makes
  <2>2. CASE l # k
    <3>1. /\ Offers(g, l) /\ ~ Offers(Other(g), l)
          /\ \A j \in 1..MaxIds : /\ session[g][j].key = l => id[g] < j
                                  /\ session[Other(g)][j].key = l => session[Other(g)][j].active
      BY <1>1, <2>2, Zenon DEF Agreed, OneMaker
    <3>2. ~ Offers(Other(g), l)'
      BY <1>1, <2>2, <3>1, HostsAre, Zenon
    <3>3. \A f \in 1..2, j \in 1..MaxIds : session'[f][j].key = l => session'[f][j] = session[f][j]
      BY <1>k, <2>2 DEF Makes
    <3> QED BY <3>1, <3>2, <3>3, HostsAre, Zenon
  <2> QED BY <2>1, <2>2, Zenon
<1>4. AnnouncedNow'
  BY <1>k, <1>0, HostsAre DEF Agreed, AnnouncedNow, Makes
<1>5. AckIsShared'
  <2> SUFFICES ASSUME NEW g \in 1..2, NEW m \in net', NEW j \in 1..MaxIds, j = id[Other(g)],
                      m.type = "ack", m.to = g, session'[g][j].key = m.key, id[g] < j, ~ split
               PROVE  session'[Other(g)][id[g]].key = m.key /\ session'[Other(g)][id[g]].active
    BY HostsAre DEF AckIsShared, Makes
  <2>1. m \in net /\ m.key # k /\ m.key # 0
    BY <1>0 DEF Makes, Numbered
  <2>2. session[g][j].key = m.key
    BY <1>k, <2>1, Zenon DEF Makes
  <2>3. session[Other(g)][id[g]].key = m.key /\ session[Other(g)][id[g]].active
    BY <2>1, <2>2, Zenon DEF Agreed, AckIsShared
  <2>4. Other(g) \in 1..2 /\ id[g] \in 1..MaxIds
    BY HostsAre, Zenon
  <2> QED BY <2>1, <2>3, <2>4 DEF Makes
<1>6. FieldsShared'
  <2> SUFFICES ASSUME NEW g \in 1..2, NEW j \in 1..MaxIds, j = id[Other(g)],
                      session'[g][j].active, id[g] < j, ~ split
               PROVE  session'[Other(g)][id[g]].key = session'[g][j].key /\ session'[Other(g)][id[g]].active
    BY HostsAre DEF FieldsShared, Makes
  <2>1. session'[g][j] = session[g][j] /\ session[g][j].key # 0
    BY DEF Makes, Agreed, Past
  <2>3. session[Other(g)][id[g]].key = session[g][j].key /\ session[Other(g)][id[g]].active
    BY <2>1, Zenon DEF Agreed, FieldsShared
  <2>4. Other(g) \in 1..2 /\ id[g] \in 1..MaxIds
    BY HostsAre, Zenon
  <2> QED BY <2>1, <2>3, <2>4 DEF Makes
<1> QED BY <1>2, <1>3, <1>4, <1>5, <1>6, Zenon DEF Agreed

\* h accepts the key of an announcement m.
Takes(h, m) ==
  /\ UNCHANGED <<id, used, made>>
  /\ m \in net /\ m.type = "announce" /\ m.to = h
  /\ session'[h][m.id].key = m.key /\ session'[h][m.id].active
  /\ \A g \in 1..2, j \in 1..MaxIds : g # h \/ j # m.id => session'[g][j] = session[g][j]
  /\ split => split'
  /\ session[h][m.id].key # m.key /\ N!Strayed(h, m) => split'
  /\ \A x \in net' : x \in net \/ (x.type = "ack" /\ x.to = Other(h) /\ x.key = m.key)

\* accept_inbound of a key that the KME gives: the daemon that announced it offers it to
\* this one, unless the two came apart.
LEMMA TakesAgreed ==
  ASSUME Agreed, made \in Nat, NEW h \in 1..2, NEW m, Takes(h, m), m.id \in 1..MaxIds,
         Numbered, id \in [1..2 -> 1..MaxIds]
  PROVE  Agreed'
<1>a. PICK p \in 1..2 : p = Other(h) /\ h = Other(p) /\ p # h /\ \A g \in 1..2 : g = h \/ g = p
  BY HostsAre, Zenon
<1>b. PICK k \in 1..MaxKeys : k = m.key
  BY Zenon DEF Takes, Numbered
<1>c. PICK a \in 1..MaxIds : a = m.id
  BY Zenon
<1>0. Offers(p, k) /\ ~ Offers(h, k)
  <2>1. Offers(p, k)
    BY <1>a, <1>b, Zenon DEF Takes, Offers, Announces
  <2> QED BY <1>a, <2>1, Zenon DEF Agreed, OneMaker
<1>d. /\ \A i \in 1..MaxIds : /\ session[p][i].key = k => id[p] < i
                              /\ session[h][i].key = k => session[h][i].active
      /\ id[h] \in 1..MaxIds /\ id[p] \in 1..MaxIds
  BY <1>a, <1>0, Zenon DEF Agreed, OneMaker
<1>e. /\ session'[h][a].key = k /\ session'[h][a].active
      /\ \A g \in 1..2, j \in 1..MaxIds : g # h \/ j # a => session'[g][j] = session[g][j]
  BY <1>b, <1>c, Zenon DEF Takes
<1>f. ASSUME a = id[p], session[h][a].key # k, session[p][id[h]].key # k, id[h] < id[p] \/ session[h][a].active
      PROVE  split'
  <2>1. N!Strayed(h, m)
    BY <1>a, <1>b, <1>c, <1>f, HostsAre, Zenon DEF N!Strayed, N!find_for_daemon, N!has_active_session
  <2> QED BY <1>b, <1>c, <1>f, <2>1, Zenon DEF Takes
<1>1. \A g \in 1..2, l \in 1..MaxKeys : Offers(g, l)' => Offers(g, l)
  <2>1. \A x \in net' : x.type = "announce" => x \in net
    BY Zenon DEF Takes
  <2>2. \A g \in 1..2, l \in 1..MaxKeys, i \in 1..MaxIds :
          session'[g][i].key = l /\ ~ session'[g][i].active => session[g][i].key = l /\ ~ session[g][i].active
    BY <1>e, Zenon
  <2> QED BY <2>1, <2>2 DEF Offers, Announces
<1>2. Past'
  <2>1. a \in used /\ k <= made /\ k # 0
    BY <1>b, <1>c DEF Agreed, Past, Takes
  <2>2. \A x \in net' : (x.type # "ack" => x.id \in used) /\ (x.type # "hello" => x.key <= made)
    BY <1>b, <2>1, Zenon DEF Agreed, Past, Takes
  <2>3. \A g \in 1..2, i \in 1..MaxIds :
          /\ session'[g][i].key # 0 => i \in used /\ session'[g][i].key <= made
          /\ session'[g][i].active => session'[g][i].key # 0
    BY <1>e, <2>1 DEF Agreed, Past
  <2>4. UNCHANGED <<id, used, made>> /\ \A g \in 1..2 : id[g] \in used
    BY Zenon DEF Takes, Agreed, Past
  <2> QED BY <2>2, <2>3, <2>4, Zenon DEF Past
<1>3. OneMaker'
  <2> SUFFICES ASSUME NEW g \in 1..2, NEW l \in 1..MaxKeys, Offers(g, l)'
               PROVE  /\ ~ Offers(Other(g), l)'
                      /\ \A j \in 1..MaxIds : /\ session'[g][j].key = l => id[g] < j
                                              /\ session'[Other(g)][j].key = l => session'[Other(g)][j].active
    BY Zenon DEF OneMaker, Takes
  <2>1. /\ Offers(g, l) /\ ~ Offers(Other(g), l)
        /\ \A j \in 1..MaxIds : /\ session[g][j].key = l => id[g] < j
                                /\ session[Other(g)][j].key = l => session[Other(g)][j].active
    BY <1>1, Zenon DEF Agreed, OneMaker
  <2>2. ~ Offers(Other(g), l)'
    BY <1>1, <2>1, HostsAre, Zenon
  <2>3. g = h => l # k
    BY <1>0, <2>1, Zenon
  <2> QED BY <1>a, <1>e, <2>1, <2>2, <2>3
<1>4. AnnouncedNow'
  <2> SUFFICES ASSUME NEW g \in 1..2, NEW x \in net', NEW j \in 1..MaxIds, x.type = "announce", x.to = Other(g),
                      session'[g][j].key = x.key
               PROVE  x.id = id[g]
    BY Zenon DEF AnnouncedNow, Takes
  <2>1. x \in net
    BY Zenon DEF Takes
  <2>2. CASE g = h /\ j = a
    BY <1>0, <1>e, <2>1, <2>2, Zenon DEF Offers, Announces
  <2>3. CASE g # h \/ j # a
    BY <1>e, <2>1, <2>3, Zenon DEF Agreed, AnnouncedNow
  <2> QED BY <2>2, <2>3, Zenon
<1>g. \A g \in 1..2 : ~ split' /\ id[g] < id[Other(g)] /\ session[g][id[Other(g)]].active =>
        session[Other(g)][id[g]].key = session[g][id[Other(g)]].key /\ session[Other(g)][id[g]].active
  BY Zenon DEF Agreed, FieldsShared, Takes
<1>5. ASSUME ~ split', a = id[p], id[h] < id[p] PROVE session[h][a].key = k /\ session[h][a].active
  BY <1>d, <1>f, <1>5
<1>6. ASSUME ~ split', a = id[p], session[h][a].active PROVE session[h][a].key = k \/ session[p][id[h]].key = k
  BY <1>f, <1>6, Zenon
<1>7. AckIsShared'
  <2> SUFFICES ASSUME NEW g \in 1..2, NEW x \in net', NEW j \in 1..MaxIds, j = id[Other(g)],
                      x.type = "ack", x.to = g, session'[g][j].key = x.key, id[g] < j, ~ split'
               PROVE  session'[Other(g)][id[g]].key = x.key /\ session'[Other(g)][id[g]].active
    BY <1>a, <1>d DEF AckIsShared, Takes
  <2>0. x \in net => \A i \in 1..MaxIds : i = j /\ session[g][j].key = x.key =>
          session[Other(g)][id[g]].key = x.key /\ session[Other(g)][id[g]].active
    BY Zenon DEF Agreed, AckIsShared, Takes
  <2>1. CASE g = h
    <3>1. x \in net /\ j = id[p]
      BY <1>a, <2>1, Zenon DEF Takes
    <3>2. session[h][j].key = x.key
      BY <1>5, <1>e, <2>1, <3>1
    <3> QED BY <1>a, <1>d, <1>e, <2>0, <2>1, <3>1, <3>2
  <2>2. CASE g = p
    <3>1. session[p][id[h]].key = x.key /\ j = id[h] /\ id[p] < id[h]
      BY <1>a, <1>d, <1>e, <2>2
    <3>2. CASE x \in net
      <4>1. session[h][id[p]].key = x.key /\ session[h][id[p]].active
        BY <1>a, <1>d, <2>0, <2>2, <3>1, <3>2, Zenon
      <4>2. a = id[p] => x.key = k
        BY <1>6, <3>1, <4>1, Zenon
      <4> QED BY <1>a, <1>d, <1>e, <2>2, <4>1, <4>2
    <3>3. CASE x \notin net
      <4>1. x.key = k
        BY <1>b, <3>3, Zenon DEF Takes
      <4>2. a = id[p]
        BY <1>a, <1>b, <1>c, <1>d, <3>1, <4>1 DEF Takes, Agreed, AnnouncedNow
      <4> QED BY <1>a, <1>e, <2>2, <4>1, <4>2, Zenon
    <3> QED BY <3>2, <3>3, Zenon
  <2> QED BY <1>a, <2>1, <2>2, Zenon
<1>8. FieldsShared'
  <2> SUFFICES ASSUME NEW g \in 1..2, NEW j \in 1..MaxIds, j = id[Other(g)],
                      session'[g][j].active, id[g] < j, ~ split'
               PROVE  session'[Other(g)][id[g]].key = session'[g][j].key /\ session'[Other(g)][id[g]].active
    BY <1>a, <1>d DEF FieldsShared, Takes
  <2>1. CASE g = h
    <3>1. j = id[p]
      BY <1>a, <2>1, Zenon
    <3>2. session[h][j].active /\ session[h][j].key = session'[h][j].key
      BY <1>5, <1>e, <2>1, <3>1, Zenon
    <3> QED BY <1>a, <1>d, <1>e, <1>g, <2>1, <3>1, <3>2
  <2>2. CASE g = p
    <3>1. session[p][id[h]].active /\ session'[p][id[h]] = session[p][id[h]] /\ j = id[h] /\ id[p] < id[h]
      BY <1>a, <1>d, <1>e, <2>2
    <3>2. session[h][id[p]].key = session[p][id[h]].key /\ session[h][id[p]].active
      BY <1>a, <1>g, <2>2, <3>1, Zenon
    <3>3. a = id[p] => session[p][id[h]].key = k
      BY <1>6, <3>2, Zenon
    <3> QED BY <1>a, <1>d, <1>e, <2>2, <3>1, <3>2, <3>3
  <2> QED BY <1>a, <2>1, <2>2, Zenon
<1> QED BY <1>2, <1>3, <1>4, <1>7, <1>8, Zenon DEF Agreed

\* h makes the session with i active, whose key was acknowledged by m.
Activates(h, i, m) ==
  /\ UNCHANGED <<id, used, made, split>>
  /\ m \in net /\ m.type = "ack" /\ m.to = h /\ session[h][i].key = m.key
  /\ session'[h][i].key = m.key /\ session'[h][i].active
  /\ \A g \in 1..2, j \in 1..MaxIds : g # h \/ j # i => session'[g][j] = session[g][j]
  /\ \A x \in net' : x \in net

\* activate_outbound_by_key_id: a key that was acknowledged is active on the other side.
LEMMA ActivatesAgreed ==
  ASSUME Agreed, NEW h \in 1..2, NEW i \in 1..MaxIds, NEW m, Activates(h, i, m),
         Numbered, id \in [1..2 -> 1..MaxIds]
  PROVE  Agreed'
<1>a. \A g \in 1..2, j \in 1..MaxIds : /\ session'[g][j].key = session[g][j].key
                                       /\ session[g][j].active => session'[g][j].active
                                       /\ session'[g][j].active => session[g][j].active \/ (g = h /\ j = i)
  BY Zenon DEF Activates
<1>b. /\ UNCHANGED <<id, used, made, split>> /\ \A x \in net' : x \in net
      /\ \A g \in 1..2 : Other(g) \in 1..2 /\ id[g] \in 1..MaxIds
  BY HostsAre, Zenon DEF Activates
<1>1. \A g \in 1..2, l \in 1..MaxKeys : Offers(g, l)' => Offers(g, l)
  BY <1>a, <1>b, Zenon DEF Offers, Announces
<1>2. Past'
  <2>1. session'[h][i].key # 0
    BY DEF Activates, Numbered
  <2> QED BY <1>a, <1>b, <2>1 DEF Agreed, Past
<1>3. OneMaker'
  BY <1>a, <1>b, <1>1 DEF Agreed, OneMaker
<1>4. AnnouncedNow'
  BY <1>a, <1>b DEF Agreed, AnnouncedNow
<1>5. AckIsShared'
  BY <1>a, <1>b DEF Agreed, AckIsShared
<1>6. FieldsShared'
  <2> SUFFICES ASSUME NEW g \in 1..2, NEW j \in 1..MaxIds, j = id[Other(g)],
                      session'[g][j].active, id[g] < j, ~ split
               PROVE  session[Other(g)][id[g]].key = session[g][j].key /\ session[Other(g)][id[g]].active
    BY <1>a, <1>b DEF FieldsShared
  <2>1. CASE session[g][j].active
    BY <2>1, Zenon DEF Agreed, FieldsShared
  <2>2. CASE g = h /\ j = i
    BY <2>2 DEF Agreed, AckIsShared, Activates
  <2> QED BY <1>a, <2>1, <2>2, Zenon
<1> QED BY <1>2, <1>3, <1>4, <1>5, <1>6, Zenon DEF Agreed

\* h forgets the session with i.
Forgets(h, i) ==
  /\ UNCHANGED <<id, used, made, net>>
  /\ session'[h][i].key = 0 /\ ~ session'[h][i].active
  /\ \A g \in 1..2, j \in 1..MaxIds : g # h \/ j # i => session'[g][j] = session[g][j]
  /\ split => split'
  /\ i = id[Other(h)] /\ i < id[h] => split'

\* A session is dropped for want of heartbeats: on the side that announced it nothing is
\* left to be shared, and on the other one the two came apart.
LEMMA ForgetsAgreed ==
  ASSUME Agreed, NEW h \in 1..2, NEW i \in 1..MaxIds, Forgets(h, i),
         Numbered, id \in [1..2 -> 1..MaxIds]
  PROVE  Agreed'
<1>a. \A g \in 1..2, j \in 1..MaxIds : /\ session'[g][j].key # 0 => session'[g][j] = session[g][j]
                                       /\ session'[g][j].active => session'[g][j] = session[g][j]
  BY Zenon DEF Forgets
<1>b. /\ UNCHANGED <<id, used, made, net>>
      /\ \A g \in 1..2 : Other(g) \in 1..2 /\ id[g] \in 1..MaxIds
  BY HostsAre, Zenon DEF Forgets
<1>c. ASSUME NEW g \in 1..2, ~ split', id[g] < id[Other(g)] PROVE session'[Other(g)][id[g]] = session[Other(g)][id[g]]
  BY <1>b, <1>c, HostsAre DEF Forgets
<1>1. \A g \in 1..2, l \in 1..MaxKeys : Offers(g, l)' => Offers(g, l)
  BY <1>a, <1>b DEF Offers, Announces
<1>2. Past'
  BY <1>a, <1>b DEF Agreed, Past
<1>3. OneMaker'
  <2> SUFFICES ASSUME NEW g \in 1..2, NEW l \in 1..MaxKeys, Offers(g, l)'
               PROVE  /\ ~ Offers(Other(g), l)'
                      /\ \A j \in 1..MaxIds : /\ session'[g][j].key = l => id[g] < j
                                              /\ session'[Other(g)][j].key = l => session'[Other(g)][j].active
    BY <1>b, Zenon DEF OneMaker
  <2>1. \A f \in 1..2, j \in 1..MaxIds : session'[f][j].key = l => session'[f][j] = session[f][j]
    BY <1>a
  <2> QED BY <1>b, <1>1, <2>1, Zenon DEF Agreed, OneMaker
<1>4. AnnouncedNow'
  <2> SUFFICES ASSUME NEW g \in 1..2, NEW x \in net, NEW j \in 1..MaxIds, x.type = "announce", x.to = Other(g),
                      session'[g][j].key = x.key
               PROVE  x.id = id[g]
    BY <1>b, Zenon DEF AnnouncedNow
  <2>1. session[g][j].key = x.key
    BY <1>a DEF Numbered
  <2> QED BY <2>1, Zenon DEF Agreed, AnnouncedNow
<1>5. AckIsShared'
  <2> SUFFICES ASSUME NEW g \in 1..2, NEW x \in net, NEW j \in 1..MaxIds, j = id[Other(g)],
                      x.type = "ack", x.to = g, session'[g][j].key = x.key, id[g] < j, ~ split'
               PROVE  session'[Other(g)][id[g]].key = x.key /\ session'[Other(g)][id[g]].active
    BY <1>b, Zenon DEF AckIsShared
  <2>1. session[g][j].key = x.key /\ ~ split
    BY <1>a DEF Numbered, Forgets
  <2> QED BY <1>c, <2>1 DEF Agreed, AckIsShared
<1>6. FieldsShared'
  <2> SUFFICES ASSUME NEW g \in 1..2, NEW j \in 1..MaxIds, j = id[Other(g)],
                      session'[g][j].active, id[g] < j, ~ split'
               PROVE  session'[Other(g)][id[g]].key = session'[g][j].key /\ session'[Other(g)][id[g]].active
    BY <1>b, Zenon DEF FieldsShared
  <2>1. session'[g][j] = session[g][j] /\ ~ split
    BY <1>a, Zenon DEF Forgets
  <2> QED BY <1>c, <2>1, Zenon DEF Agreed, FieldsShared
<1> QED BY <1>2, <1>3, <1>4, <1>5, <1>6, Zenon DEF Agreed

\* h starts again, with a new id.
Restarts(h, i) ==
  /\ i \notin used /\ used' = used \cup {i}
  /\ id'[h] = i /\ id'[Other(h)] = id[Other(h)] /\ UNCHANGED <<made, net, split>>
  /\ \A j \in 1..MaxIds : /\ session'[h][j].key = 0 /\ ~ session'[h][j].active
                          /\ session'[Other(h)][j] = session[Other(h)][j]

\* A daemon starts again, with an id that no session was ever made for.
LEMMA RestartsAgreed ==
  ASSUME Agreed, NEW h \in 1..2, NEW i \in 1..MaxIds, Restarts(h, i), Numbered, id \in [1..2 -> 1..MaxIds]
  PROVE  Agreed'
<1>a. PICK p \in 1..2 : p = Other(h) /\ h = Other(p) /\ p # h /\ \A g \in 1..2 : g = h \/ g = p
  BY HostsAre, Zenon
<1>b. /\ UNCHANGED <<made, net, split>> /\ id'[h] = i /\ id'[p] = id[p] /\ id[p] \in 1..MaxIds
      /\ used' = used \cup {i} /\ session[p][i].key = 0 /\ ~ session[p][i].active
      /\ \A j \in 1..MaxIds : session'[h][j].key = 0 /\ ~ session'[h][j].active /\ session'[p][j] = session[p][j]
  BY <1>a, Zenon DEF Restarts, Agreed, Past
<1>1. \A g \in 1..2, l \in 1..MaxKeys : Offers(g, l)' => Offers(g, l)
  BY <1>a, <1>b DEF Offers, Announces
<1>2. Past'
  BY <1>a, <1>b DEF Agreed, Past
<1>3. OneMaker'
  <2> SUFFICES ASSUME NEW g \in 1..2, NEW l \in 1..MaxKeys, Offers(g, l)'
               PROVE  /\ ~ Offers(Other(g), l)'
                      /\ \A j \in 1..MaxIds : /\ session'[g][j].key = l => id'[g] < j
                                              /\ session'[Other(g)][j].key = l => session'[Other(g)][j].active
    BY Zenon DEF OneMaker
  <2>1. /\ Offers(g, l) /\ ~ Offers(Other(g), l)
        /\ \A j \in 1..MaxIds : /\ session[g][j].key = l => id[g] < j
                                /\ session[Other(g)][j].key = l => session[Other(g)][j].active
    BY <1>1, Zenon DEF Agreed, OneMaker
  <2>2. ~ Offers(Other(g), l)' /\ l # 0
    BY <1>1, <2>1, HostsAre
  <2>3. CASE g = h
    BY <1>a, <1>b, <2>1, <2>2, <2>3
  <2>4. CASE g = p
    BY <1>a, <1>b, <2>1, <2>2, <2>4
  <2> QED BY <1>a, <2>3, <2>4, Zenon
<1>4. AnnouncedNow'
  <2> SUFFICES ASSUME NEW g \in 1..2, NEW x \in net, NEW j \in 1..MaxIds, x.type = "announce", x.to = Other(g),
                      session'[g][j].key = x.key
               PROVE  x.id = id'[g]
    BY <1>b DEF AnnouncedNow
  <2>1. x.key # 0
    BY DEF Numbered
  <2>2. g = p
    BY <1>a, <1>b, <2>1
  <2> QED BY <1>b, <2>2 DEF Agreed, AnnouncedNow
<1>5. AckIsShared'
  <2> SUFFICES ASSUME NEW g \in 1..2, NEW x \in net, x.type = "ack", x.to = g, session'[g][id'[Other(g)]].key = x.key
               PROVE  FALSE
    BY <1>b, Zenon DEF AckIsShared
  <2>1. x.key # 0
    BY DEF Numbered
  <2> QED BY <1>a, <1>b, <2>1
<1>6. FieldsShared'
  <2> SUFFICES ASSUME NEW g \in 1..2, session'[g][id'[Other(g)]].active
               PROVE  FALSE
    BY Zenon DEF FieldsShared
  <2> QED BY <1>a, <1>b
<1> QED BY <1>2, <1>3, <1>4, <1>5, <1>6, Zenon DEF Agreed

SessTyped ==
  /\ id \in [1..2 -> 1..MaxIds] /\ used \subseteq 1..MaxIds /\ Stored
  /\ known \in [1..2 -> SUBSET (1..MaxIds)] /\ synced \in [1..2 -> 1..MaxIds \cup {0}]
  /\ net \subseteq N!Datagrams
  /\ made \in Nat /\ made <= MaxKeys /\ retrieved \subseteq 1..made
  /\ losses \in Nat /\ losses <= MaxLosses /\ split \in BOOLEAN

\* The types of QkdSessions with the bounds as naturals.
LEMMA SessTypes == (N!TypeOK <=> SessTyped) /\ (N!TypeOK' <=> SessTyped')
<1>1. (made \in N!Keys \cup {N!NoKey} <=> made \in Nat /\ made <= MaxKeys) /\ (losses \in 0..MaxLosses <=> losses \in Nat /\ losses <= MaxLosses)
  BY SessionsAssumption DEF N!Keys, N!NoKey
<1>2. (made' \in N!Keys \cup {N!NoKey} <=> made' \in Nat /\ made' <= MaxKeys) /\ (losses' \in 0..MaxLosses <=> losses' \in Nat /\ losses' <= MaxLosses)
  BY SessionsAssumption DEF N!Keys, N!NoKey
<1> QED BY <1>1, <1>2, HostsAre, Zenon DEF N!TypeOK, SessTyped, Stored, Sess

\* The fields of a datagram, by its type.
LEMMA DatagramFields ==
  ASSUME NEW m \in N!Datagrams
  PROVE  /\ m.type \in {"hello", "announce", "ack"} /\ m.to \in 1..2
         /\ m.type # "ack" => m.id \in 1..MaxIds
         /\ m.type # "hello" => m.key \in 1..MaxKeys
BY Zenon DEF N!Datagrams, N!Hosts, N!Ids, N!Keys

\* The fields of an announcement and of an acknowledgement.
LEMMA DatagramSent ==
  ASSUME id \in [1..2 -> 1..MaxIds], NEW h \in 1..2, NEW k \in 1..MaxKeys, NEW x
  PROVE  /\ x = N!Announcement(h, k) => /\ x \in N!Datagrams /\ x.type = "announce" /\ x.to = Other(h)
                                        /\ x.id = id[h] /\ x.key = k
         /\ x = N!Ack(h, k) => x \in N!Datagrams /\ x.type = "ack" /\ x.to = Other(h) /\ x.key = k
BY HostsAre DEF N!Announcement, N!Ack, N!Datagrams

\* The fields of a heartbeat.
LEMMA HelloSent ==
  ASSUME id \in [1..2 -> 1..MaxIds], NEW h \in 1..2, NEW x, x = [type |-> "hello", to |-> N!Peer(h), id |-> id[h]]
  PROVE  x \in N!Datagrams /\ x.type = "hello" /\ x.id = id[h]
BY HostsAre, Zenon DEF N!Datagrams

\* Announcements and acknowledgements name keys.
LEMMA NumberedNet == SessTyped => Numbered
BY DatagramFields, Zenon DEF SessTyped, Numbered

\* A handled datagram is followed by its answers only, whether or not it comes again.
LEMMA ReceivedNet ==
  ASSUME NEW m, NEW A, N!Received(m, A)
  PROVE  \A x \in net' : x \in net \/ x \in A
BY Zenon DEF N!Received

\* known_peers keeps its type when a daemon is dropped from it.
LEMMA ForgetTyped ==
  ASSUME SessTyped, NEW h \in 1..2, NEW i, N!Forget(h, i)
  PROVE  known' \in [1..2 -> SUBSET (1..MaxIds)]
BY Zenon DEF SessTyped, N!Forget

\* Faults are counted up to their bound.
LEMMA FaultTyped == ASSUME SessTyped, N!Fault PROVE losses' \in Nat /\ losses' <= MaxLosses
BY SessionsAssumption DEF SessTyped, N!Fault

\* The heartbeat keeps the invariant.
LEMMA HelloAgreed ==
  ASSUME SessTyped, Agreed, NEW h \in 1..2, N!Hello(h) PROVE SessTyped' /\ Agreed'
<1>a. PICK x : x = [type |-> "hello", to |-> N!Peer(h), id |-> id[h]]
  BY Zenon
<1>1. x \in N!Datagrams /\ x.type = "hello" /\ x.id = id[h] /\ id[h] \in used
  BY <1>a, HelloSent, Zenon DEF SessTyped, Agreed, Past
<1>2. net' = net \cup {x} /\ UNCHANGED <<id, used, session, known, synced, made, retrieved, losses, split>>
  BY <1>a, Zenon DEF N!Hello
<1>3. SessTyped'
  BY <1>1, <1>2, Zenon DEF SessTyped, Stored
<1>4. Quiet
  BY <1>1, <1>2, Zenon DEF Quiet
<1> QED BY <1>3, <1>4, QuietAgreed, Zenon

\* The handling of a heartbeat, with the synchronisation or the announcement that follows
\* it, keeps the invariant.
LEMMA OnHelloAgreed ==
  ASSUME SessTyped, Agreed, NEW h \in 1..2, NEW m, N!OnHello(h, m) PROVE SessTyped' /\ Agreed'
<1>1. m \in net /\ m.type = "hello" /\ m.to = h /\ UNCHANGED <<id, used, retrieved, split>>
  BY Zenon DEF N!OnHello
<1>2. m.id \in 1..MaxIds /\ m.id \in used
  BY <1>1, DatagramFields, Zenon DEF SessTyped, Agreed, Past
<1>3. known' \in [1..2 -> SUBSET (1..MaxIds)] /\ synced' \in [1..2 -> 1..MaxIds \cup {0}]
  <2>1. CASE known' = [known EXCEPT ![h] = @ \cup {m.id}]
    BY <1>2, <2>1, Zenon DEF SessTyped, N!OnHello
  <2>2. CASE N!Forget(h, m.id)
    BY <1>2, <2>2, ForgetTyped, Zenon DEF SessTyped, N!OnHello
  <2> QED BY <2>1, <2>2, Zenon DEF N!OnHello
<1>4. CASE N!Received(m, {}) /\ UNCHANGED <<session, made>> /\ (UNCHANGED losses \/ N!Fault)
  <2>1. \A x \in net' : x \in net
    BY <1>4, ReceivedNet
  <2>2. losses' \in Nat /\ losses' <= MaxLosses
    BY <1>4, FaultTyped, Zenon DEF SessTyped
  <2>3. SessTyped'
    BY <1>1, <1>3, <1>4, <2>1, <2>2, Zenon DEF SessTyped, Stored
  <2>4. Quiet
    BY <1>1, <1>4, <2>1, Zenon DEF Quiet
  <2> QED BY <2>3, <2>4, QuietAgreed, Zenon
<1>5. CASE ~ N!has_active_session(h, m.id) /\ id[h] < m.id /\ N!Outbound(h, m)
  <2>0. ~ session[h][m.id].active /\ session[h][m.id] \in Sess
    BY <1>2, <1>5, Zenon DEF N!has_active_session, SessTyped, Stored
  <2>1. CASE /\ N!find_for_daemon(h, m.id).key # N!NoKey
             /\ N!Received(m, N!Announced(h, session[h][m.id].key))
             /\ UNCHANGED <<session, made, losses>>
    <3>a. PICK k \in 1..MaxKeys : k = session[h][m.id].key
      BY <2>0, <2>1, HostsAre, Zenon DEF N!find_for_daemon, Sess
    <3>1. \A x \in net' : x \in net \/ x = N!Announcement(h, k)
      BY <2>1, <3>a, ReceivedNet DEF N!Announced
    <3>2. \A x \in net' : /\ x \in N!Datagrams
                          /\ x \in net \/ (x.type = "announce" /\ x.to = Other(h) /\ x.id = id[h] /\ x.key = k)
      BY <3>1, DatagramSent DEF SessTyped
    <3>3. SessTyped'
      BY <1>1, <1>3, <2>1, <3>2, Zenon DEF SessTyped, Stored
    <3>4. Reoffers(h, m.id)
      BY <1>1, <2>0, <2>1, <3>a, <3>2 DEF Reoffers
    <3>5. Stored
      BY Zenon DEF SessTyped
    <3> QED BY <1>2, <3>3, <3>4, <3>5, ReoffersAgreed, Zenon
  <2>2. CASE /\ N!find_for_daemon(h, m.id).key = N!NoKey
             /\ N!Made(h, m.id)
             /\ N!Received(m, {N!Announcement(h, made + 1)})
             /\ UNCHANGED losses
    <3>a. PICK k \in 1..MaxKeys : k = made + 1
      BY <2>2, SessionsAssumption DEF N!Made, SessTyped
    <3>0. made < MaxKeys /\ made' = k /\ N!put(h, m.id, N!Pending(k)) /\ N!Received(m, {N!Announcement(h, k)})
      BY <2>2, <3>a, Zenon DEF N!Made
    <3>1. \A x \in net' : x \in net \/ x = N!Announcement(h, k)
      BY <3>0, ReceivedNet
    <3>2. \A x \in net' : /\ x \in N!Datagrams
                          /\ x \in net \/ (x.type = "announce" /\ x.to = Other(h) /\ x.id = id[h] /\ x.key = k)
      BY <3>1, DatagramSent DEF SessTyped
    <3>b. PICK s \in Sess : s = N!Pending(k) /\ s.key = k /\ ~ s.active
      BY SessionFields, Zenon
    <3>3. /\ Stored' /\ session'[h][m.id] = s
          /\ \A g \in 1..2, j \in 1..MaxIds : g # h \/ j # m.id => session'[g][j] = session[g][j]
      BY <1>2, <3>0, <3>b, SessionPut, Zenon DEF SessTyped
    <3>4. SessTyped'
      BY <1>1, <1>3, <2>2, <3>0, <3>2, <3>3, <3>a, SessionsAssumption DEF SessTyped
    <3>5. Makes(h, m.id)
      BY <1>1, <1>2, <1>5, <2>2, <3>0, <3>2, <3>3, <3>a, <3>b, HostsAre, Zenon DEF Makes, N!find_for_daemon
    <3>6. \A g \in 1..2, j \in 1..MaxIds : session[g][j].key \in Nat
      <4>1. \A g \in 1..2, j \in 1..MaxIds : session[g][j] \in Sess
        BY Zenon DEF SessTyped, Stored
      <4> QED BY <4>1 DEF Sess
    <3>7. id \in [1..2 -> 1..MaxIds] /\ made \in Nat /\ Numbered
      BY NumberedNet, Zenon DEF SessTyped
    <3> QED BY <1>2, <3>4, <3>5, <3>6, <3>7, MakesAgreed, Zenon
  <2>3. CASE N!Fault /\ N!Received(m, {}) /\ UNCHANGED <<session, made>>
    BY <1>4, <2>3, Zenon
  <2> QED BY <1>5, <2>1, <2>2, <2>3, Zenon DEF N!Outbound
<1> QED BY <1>4, <1>5, Zenon DEF N!OnHello

\* The handling of an announcement, accepted or ignored, keeps the invariant.
LEMMA OnAnnounceAgreed ==
  ASSUME SessTyped, Agreed, NEW h \in 1..2, NEW m, N!OnAnnounce(h, m) PROVE SessTyped' /\ Agreed'
<1>1. m \in net /\ m.type = "announce" /\ m.to = h /\ UNCHANGED <<id, used, synced, made>>
  BY Zenon DEF N!OnAnnounce
<1>2. m.id \in 1..MaxIds /\ m.key \in 1..MaxKeys /\ m.key <= made
  BY <1>1, DatagramFields, Zenon DEF SessTyped, Agreed, Past
<1>3. CASE N!Received(m, {}) /\ UNCHANGED <<session, known, retrieved, split>> /\ (UNCHANGED losses \/ N!Fault)
  <2>1. \A x \in net' : x \in net
    BY <1>3, ReceivedNet
  <2>2. losses' \in Nat /\ losses' <= MaxLosses
    BY <1>3, FaultTyped, Zenon DEF SessTyped
  <2>3. SessTyped'
    BY <1>1, <1>3, <2>1, <2>2, Zenon DEF SessTyped, Stored
  <2>4. Quiet
    BY <1>1, <1>3, <2>1, Zenon DEF Quiet
  <2> QED BY <2>3, <2>4, QuietAgreed, Zenon
<1>4. CASE N!Accepted(h, m) /\ N!Received(m, {N!Ack(h, m.key)}) /\ N!Forget(h, m.id) /\ UNCHANGED losses
  <2>a. PICK k \in 1..MaxKeys : k = m.key
    BY <1>2, Zenon
  <2>b. PICK s \in Sess : s = N!Active(k) /\ s.key = k /\ s.active
    BY SessionFields, Zenon
  <2>1. N!put(h, m.id, s)
    BY <1>4, <2>a, <2>b, Zenon DEF N!Accepted
  <2>2. /\ Stored' /\ session'[h][m.id] = s
        /\ \A g \in 1..2, j \in 1..MaxIds : g # h \/ j # m.id => session'[g][j] = session[g][j]
    BY <1>2, <2>1, SessionPut, Zenon DEF SessTyped
  <2>3. \A x \in net' : x \in net \/ x = N!Ack(h, k)
    BY <1>4, <2>a, ReceivedNet
  <2>4. \A x \in net' : x \in N!Datagrams /\ (x \in net \/ (x.type = "ack" /\ x.to = Other(h) /\ x.key = k))
    BY <2>3, DatagramSent DEF SessTyped
  <2>5. known' \in [1..2 -> SUBSET (1..MaxIds)]
    BY <1>4, ForgetTyped, Zenon
  <2>6. \/ session[h][m.id].key = k /\ UNCHANGED <<retrieved, split>>
        \/ session[h][m.id].key # k /\ retrieved' = retrieved \cup {k} /\ split' = (split \/ N!Strayed(h, m))
    BY <1>4, <2>a, Zenon DEF N!Accepted
  <2>7. retrieved' \subseteq 1..made /\ split' \in BOOLEAN
    <3>1. split \in BOOLEAN
      BY Zenon DEF SessTyped
    <3>2. split' \in BOOLEAN
      BY <2>6, <3>1, Zenon
    <3>3. retrieved \subseteq 1..made /\ made \in Nat
      BY Zenon DEF SessTyped
    <3>4. k \in 1..made
      BY <1>2, <2>a, <3>3
    <3>5. retrieved' \subseteq retrieved \cup {k}
      BY <2>6, Zenon
    <3> QED BY <3>2, <3>3, <3>4, <3>5, Zenon
  <2>8. SessTyped'
    BY <1>1, <1>4, <2>2, <2>4, <2>5, <2>7, Zenon DEF SessTyped
  <2>9. Takes(h, m)
    <3>1. split => split'
      BY <2>6, Zenon
    <3>2. session[h][m.id].key # m.key /\ N!Strayed(h, m) => split'
      BY <2>a, <2>6, Zenon
    <3> QED BY <1>1, <2>a, <2>b, <2>2, <2>4, <3>1, <3>2, Zenon DEF Takes
  <2>10. id \in [1..2 -> 1..MaxIds] /\ made \in Nat /\ Numbered
    BY NumberedNet, Zenon DEF SessTyped
  <2> QED BY <1>2, <2>8, <2>9, <2>10, TakesAgreed, Zenon
<1> QED BY <1>3, <1>4, Zenon DEF N!OnAnnounce

\* The handling of an acknowledgement, of a key that is still there or of one that is
\* not, keeps the invariant.
LEMMA OnAckAgreed ==
  ASSUME SessTyped, Agreed, NEW h \in 1..2, NEW m, N!OnAck(h, m) PROVE SessTyped' /\ Agreed'
<1>1. /\ m \in net /\ m.type = "ack" /\ m.to = h /\ N!Received(m, {})
      /\ UNCHANGED <<id, used, synced, made, retrieved, losses, split>>
  BY Zenon DEF N!OnAck
<1>2. \A x \in net' : x \in net
  BY <1>1, ReceivedNet
<1>3. CASE UNCHANGED <<session, known>>
  <2>1. SessTyped'
    BY <1>1, <1>2, <1>3, Zenon DEF SessTyped, Stored
  <2>2. Quiet
    BY <1>1, <1>2, <1>3, Zenon DEF Quiet
  <2> QED BY <2>1, <2>2, QuietAgreed, Zenon
<1>4. CASE \E i \in N!Acknowledged(h, m.key) : N!put(h, i, N!Active(session[h][i].key)) /\ N!Forget(h, i)
  <2>a. PICK i \in N!Acknowledged(h, m.key) : N!put(h, i, N!Active(session[h][i].key)) /\ N!Forget(h, i)
    BY <1>4, Zenon
  <2>1. i \in 1..MaxIds /\ session[h][i].key = m.key
    BY <2>a, HostsAre, Zenon DEF N!Acknowledged, N!find_by_key_id_for_tls
  <2>b. PICK k \in 1..MaxKeys : k = m.key
    BY <1>1, NumberedNet, Zenon DEF Numbered
  <2>c. PICK s \in Sess : s = N!Active(k) /\ s.key = k /\ s.active
    BY SessionFields, Zenon
  <2>2. N!put(h, i, s)
    BY <2>a, <2>b, <2>c, <2>1, Zenon
  <2>3. /\ Stored' /\ session'[h][i] = s
        /\ \A g \in 1..2, j \in 1..MaxIds : g # h \/ j # i => session'[g][j] = session[g][j]
    BY <2>1, <2>2, SessionPut, Zenon DEF SessTyped
  <2>4. known' \in [1..2 -> SUBSET (1..MaxIds)]
    BY <2>a, ForgetTyped, Zenon
  <2>5. SessTyped'
    BY <1>1, <1>2, <2>3, <2>4, Zenon DEF SessTyped
  <2>6. Activates(h, i, m)
    BY <1>1, <1>2, <2>1, <2>3, <2>b, <2>c, Zenon DEF Activates
  <2>7. id \in [1..2 -> 1..MaxIds] /\ Numbered
    BY NumberedNet, Zenon DEF SessTyped
  <2> QED BY <2>1, <2>5, <2>6, <2>7, ActivatesAgreed, Zenon
<1> QED BY <1>3, <1>4, Zenon DEF N!OnAck

\* The expiry of a peer keeps the invariant.
LEMMA StaleAgreed ==
  ASSUME SessTyped, Agreed, NEW h \in 1..2, NEW i \in 1..MaxIds, N!Stale(h, i) PROVE SessTyped' /\ Agreed'
<1>a. PICK s \in Sess : s = N!None /\ s.key = 0 /\ ~ s.active
  BY NoSession, Zenon
<1>1. /\ N!put(h, i, s) /\ N!Forget(h, i) /\ UNCHANGED <<id, used, synced, net, made, retrieved>>
      /\ IF i = id[Other(h)] THEN N!Fault /\ split' = (split \/ i < id[h]) ELSE UNCHANGED <<losses, split>>
  BY <1>a, HostsAre, Zenon DEF N!Stale
<1>2. /\ Stored' /\ session'[h][i] = s
      /\ \A g \in 1..2, j \in 1..MaxIds : g # h \/ j # i => session'[g][j] = session[g][j]
  BY <1>1, SessionPut, Zenon DEF SessTyped
<1>3. losses' \in Nat /\ losses' <= MaxLosses
  BY <1>1, FaultTyped, Zenon DEF SessTyped
<1>4. split' \in BOOLEAN
  <2>1. split \in BOOLEAN
    BY Zenon DEF SessTyped
  <2> QED BY <1>1, <2>1, Zenon
<1>5. known' \in [1..2 -> SUBSET (1..MaxIds)]
  BY <1>1, ForgetTyped, Zenon
<1>6. SessTyped'
  BY <1>1, <1>2, <1>3, <1>4, <1>5, Zenon DEF SessTyped
<1>7. Forgets(h, i)
  <2>1. (split => split') /\ (i = id[Other(h)] /\ i < id[h] => split')
    BY <1>1, Zenon
  <2> QED BY <1>a, <1>1, <1>2, <2>1, Zenon DEF Forgets
<1>8. id \in [1..2 -> 1..MaxIds] /\ Numbered
  BY NumberedNet, Zenon DEF SessTyped
<1> QED BY <1>6, <1>7, <1>8, ForgetsAgreed, Zenon

\* A restart keeps the invariant: the datagrams of the daemon before it are still on
\* their way.
LEMMA RestartAgreed ==
  ASSUME SessTyped, Agreed, NEW h \in 1..2, N!Restart(h) PROVE SessTyped' /\ Agreed'
<1>a. PICK i \in 1..MaxIds : i \notin used /\ id' = [id EXCEPT ![h] = i] /\ used' = used \cup {i}
  BY HostsAre, Zenon DEF N!Restart
<1>b. PICK s \in Sess : s = N!None /\ s.key = 0 /\ ~ s.active
  BY NoSession, Zenon
<1>1. /\ session' = [session EXCEPT ![h] = [j \in 1..MaxIds |-> s]]
      /\ known' = [known EXCEPT ![h] = {}] /\ synced' = [synced EXCEPT ![h] = 0]
      /\ N!Fault /\ UNCHANGED <<net, made, retrieved, split>>
  BY <1>b, HostsAre DEF N!Restart, N!Cleared
<1>2. /\ Stored' /\ \A j \in 1..MaxIds : session'[h][j] = s /\ session'[Other(h)][j] = session[Other(h)][j]
  BY <1>1, HostsAre, Zenon DEF SessTyped, Stored
<1>3. /\ known' \in [1..2 -> SUBSET (1..MaxIds)] /\ synced' \in [1..2 -> 1..MaxIds \cup {0}]
      /\ id' \in [1..2 -> 1..MaxIds] /\ id'[h] = i /\ id'[Other(h)] = id[Other(h)]
  BY <1>a, <1>1, HostsAre, Zenon DEF SessTyped
<1>4. SessTyped'
  BY <1>a, <1>1, <1>2, <1>3, FaultTyped, Zenon DEF SessTyped
<1>5. Restarts(h, i)
  BY <1>a, <1>b, <1>1, <1>2, <1>3, Zenon DEF Restarts
<1>6. id \in [1..2 -> 1..MaxIds] /\ Numbered
  BY NumberedNet, Zenon DEF SessTyped
<1> QED BY <1>4, <1>5, <1>6, RestartsAgreed, Zenon

\* A lost datagram keeps the invariant.
LEMMA LoseAgreed ==
  ASSUME SessTyped, Agreed, NEW m, N!Lose(m) PROVE SessTyped' /\ Agreed'
<1>1. \A x \in net' : x \in net
  BY Zenon DEF N!Lose
<1>2. N!Fault /\ UNCHANGED <<id, used, session, known, synced, made, retrieved, split>>
  BY Zenon DEF N!Lose
<1>3. SessTyped'
  BY <1>1, <1>2, FaultTyped, Zenon DEF SessTyped, Stored
<1>4. Quiet
  BY <1>1, <1>2, Zenon DEF Quiet
<1> QED BY <1>3, <1>4, QuietAgreed, Zenon

\* Two daemons without sessions.
LEMMA SessionInit == N!Init => SessionInv
<1> SUFFICES ASSUME N!Init PROVE SessTyped /\ Agreed
  BY SessTypes, Zenon DEF SessionInv
<1>a. PICK s \in Sess : s = N!None /\ s.key = 0 /\ ~ s.active
  BY NoSession, Zenon
<1>1. /\ id \in [1..2 -> 1..MaxIds] /\ used = {id[1], id[2]} /\ net = {} /\ made = 0 /\ retrieved = {}
      /\ losses = 0 /\ split = FALSE
      /\ session = [h \in 1..2 |-> [i \in 1..MaxIds |-> s]]
      /\ known = [h \in 1..2 |-> {}] /\ synced = [h \in 1..2 |-> 0]
  BY <1>a, HostsAre DEF N!Init
<1>2. \A h \in 1..2, i \in 1..MaxIds : session[h][i].key = 0 /\ ~ session[h][i].active
  BY <1>a, <1>1, Zenon
<1>3. SessTyped
  <2>1. Stored
    BY <1>1, Zenon DEF Stored
  <2>2. known \in [1..2 -> SUBSET (1..MaxIds)] /\ synced \in [1..2 -> 1..MaxIds \cup {0}]
    BY <1>1, Zenon
  <2>3. used \subseteq 1..MaxIds /\ retrieved \subseteq 1..made /\ net \subseteq N!Datagrams
    BY <1>1
  <2>4. made \in Nat /\ losses \in Nat /\ MaxKeys \in Nat /\ MaxLosses \in Nat
    BY <1>1, SessionsAssumption, Zenon
  <2>5. made <= MaxKeys /\ losses <= MaxLosses
    BY <1>1, <2>4
  <2>6. split \in BOOLEAN
    BY <1>1, Zenon
  <2> QED BY <1>1, <2>1, <2>2, <2>3, <2>4, <2>5, <2>6, Zenon DEF SessTyped
<1>4. Past /\ OneMaker /\ AnnouncedNow /\ AckIsShared /\ FieldsShared
  <2>0. \A h \in 1..2 : id[h] \in 1..MaxIds /\ id[h] \in used /\ Other(h) \in 1..2
    BY <1>1, HostsAre
  <2>1. \A h \in 1..2, k \in 1..MaxKeys : ~ Offers(h, k)
    BY <1>1, <1>2 DEF Offers, Announces
  <2> QED BY <1>1, <1>2, <2>0, <2>1, Zenon DEF Past, OneMaker, AnnouncedNow, AckIsShared, FieldsShared
<1> QED BY <1>3, <1>4, Zenon DEF Agreed

\* Every step of a daemon, of the network and of the KME keeps the invariant.
LEMMA SessionStep == SessionInv /\ [N!Next]_(N!vars) => SessionInv'
<1> SUFFICES ASSUME SessTyped, Agreed, [N!Next]_(N!vars) PROVE SessTyped' /\ Agreed'
  BY SessTypes, Zenon DEF SessionInv
<1>1. ASSUME NEW h \in 1..2, N!Hello(h) \/ N!Restart(h) \/ \E i \in 1..MaxIds : N!Stale(h, i) PROVE SessTyped' /\ Agreed'
  BY <1>1, HelloAgreed, RestartAgreed, StaleAgreed, Zenon
<1>2. ASSUME NEW m \in net, N!Lose(m) PROVE SessTyped' /\ Agreed'
  BY <1>2, LoseAgreed, Zenon
<1>3. ASSUME NEW m \in net, NEW h \in 1..2, N!Handle(h, m) PROVE SessTyped' /\ Agreed'
  BY <1>3, OnHelloAgreed, OnAnnounceAgreed, OnAckAgreed, Zenon DEF N!Handle
<1>4. CASE UNCHANGED N!vars
  <2>1. SessTyped'
    BY <1>4, Zenon DEF N!vars, SessTyped, Stored
  <2>2. Quiet
    BY <1>4, Zenon DEF N!vars, Quiet
  <2> QED BY <2>1, <2>2, QuietAgreed, Zenon
<1> QED BY <1>1, <1>2, <1>3, <1>4, HostsAre, Zenon DEF N!Next

\* The inductive invariant of the sessions: what is in the stores and on its way was made
\* by daemons that were there; only the daemon that made a key offers it; what it
\* announces it announces with its present id; what is acknowledged, or active on the
\* side that made it, is active on the other side.
THEOREM SessionInvariant == N!Spec => []SessionInv
BY SessionInit, SessionStep, PTL DEF N!Spec

\* ActiveIsShared follows from the invariant.
LEMMA SessionShared == SessionInv => ActiveIsShared
BY SharedFields, SessTypes, Zenon DEF SessionInv, Agreed, SessTyped, ActiveIsShared

\* ActiveIsShared, for any number of restarts, keys, lost, repeated and late datagrams: a
\* session that activate_outbound_by_key_id has made active on the side that announced it
\* is there on the other side with the same key, unless the two sides came apart as
\* recorded in split.
THEOREM ActiveIsSharedHolds == N!Spec => []ActiveIsShared
BY SessionInvariant, SessionShared, PTL

=============================================================================
