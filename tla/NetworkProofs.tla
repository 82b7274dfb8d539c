---------------------------- MODULE NetworkProofs ----------------------------
(***************************************************************************)
(* Proofs about what nodes say to each other, for every network and every  *)
(* order of the datagrams.                                                 *)
(*                                                                         *)
(* PeerNetwork: relay keys only get newer because a node's handshakes      *)
(* carry its keys with times: whatever order they arrive in, one with an   *)
(* older key has no later time than one with a newer key (KeysInOrder),    *)
(* and the table holds the latest time at which its key was seen           *)
(* (TablesInOrder).                                                        *)
(*                                                                         *)
(* Requests: the argument follows one cell.  Cell collects all there is    *)
(* about it, Sound says what holds of that, a lemma of the first half says *)
(* what one kind of change does to it, and the second half shows that each *)
(* step is such a change for one cell, or for some, and none for the       *)
(* others.  The request under the claim of a cell is at one place (IsAt):  *)
(* a queue, a datagram, the pages of the reply or a fetch that asks again. *)
(* A GET beside it could only be made by a fetch whose window ends while   *)
(* the request is under way.  That is what Patience excludes: every window *)
(* is as long as it can be while a request is under way, and the claim     *)
(* that waits with a second provider outlives the window of the fetch that *)
(* will ask it.                                                            *)
(***************************************************************************)
EXTENDS PeerNetwork, Requests, FiniteSetTheorems, SequenceTheorems, TLAPS

-----------------------------------------------------------------------------
(* Relay keys.                                                             *)


IsSeq(q) == \E S : q \in Seq(S)

Among(m, q) == \E i \in 1..Len(q) : m = q[i]

(* m is on its way in one of the queues of post. *)
InMail(m, post) == \E n, p \in Nodes : Among(m, post[n][p])

OnWay(m) == InMail(m, net) \/ m \in late

IsHandshake(m) == m.type = "handshake"

IsMail(post) ==
    /\ DOMAIN post = Nodes
    /\ \A n \in Nodes : DOMAIN post[n] = Nodes
    /\ \A n, p \in Nodes : IsSeq(post[n][p])

Peer == [key : Nat, time : Nat, seen : {"fresh", "stale", "probed"}]

IsTable(t) == DOMAIN t \subseteq Nodes /\ t \in [DOMAIN t -> Peer]

TypeOK ==
    /\ clock \in Nat
    /\ key \in [Nodes -> Nat]
    /\ DOMAIN peers = Nodes /\ \A n \in Nodes : IsTable(peers[n])
    /\ IsMail(net)

(* A handshake carries a key its sender had, with the time it had it. *)
Dated(m) ==
    /\ m.from \in Nodes /\ m.to \in Nodes
    /\ IsHandshake(m) => /\ m.key \in Nat /\ m.key <= key[m.from]
                         /\ m.time \in Nat /\ m.time <= clock

Before(m, o) ==
    (IsHandshake(m) /\ IsHandshake(o) /\ m.from = o.from /\ m.key < o.key)
        => m.time <= o.time

KeysInOrder ==
    /\ \A m : OnWay(m) => Dated(m)
    /\ \A m, o : OnWay(m) /\ OnWay(o) => Before(m, o)

(* An entry of a table about p. *)
NoneOlder(e, p) ==
    \A m : (OnWay(m) /\ IsHandshake(m) /\ m.from = p /\ m.key < e.key) => m.time <= e.time

EntryOK(e, p) == e.key <= key[p] /\ e.time <= clock /\ NoneOlder(e, p)

TablesInOrder == \A n \in Nodes : \A p \in Known(n) : EntryOK(peers[n][p], p)

Inv == TypeOK /\ KeysInOrder /\ TablesInOrder

-----------------------------------------------------------------------------
(* Datagrams in queues.                                                    *)

(* Nothing is in an empty queue. *)
LEMMA EmptyIs == IsSeq(<< >>) /\ \A m : ~Among(m, << >>)
  BY EmptySeq DEF IsSeq, Among

(* One datagram. *)
LEMMA OneIs == ASSUME NEW m PROVE IsSeq(<<m>>) /\ \A o : Among(o, <<m>>) => o = m
<1> DEFINE q == <<m>>
<1>1. q \in Seq({m}) /\ Len(q) = 1 /\ q[1] = m
  OBVIOUS
<1> HIDE DEF q
<1>2. IsSeq(q)
  BY <1>1 DEF IsSeq
<1>3. \A o : Among(o, q) => o = m
  BY <1>1 DEF Among
<1> QED
  BY <1>2, <1>3 DEF q

(* Two queues, one after the other. *)
LEMMA ConcatIs ==
    ASSUME NEW q, NEW r, IsSeq(q), IsSeq(r)
    PROVE  /\ IsSeq(q \o r)
           /\ \A m : Among(m, q \o r) => Among(m, q) \/ Among(m, r)
<1>1. PICK S, T : q \in Seq(S) /\ r \in Seq(T)
  BY DEF IsSeq
<1>2. q \in Seq(S \cup T) /\ r \in Seq(S \cup T)
  BY <1>1, SeqMonotonic
<1>3. /\ q \o r \in Seq(S \cup T)
      /\ Len(q) \in Nat /\ Len(r) \in Nat /\ Len(q \o r) = Len(q) + Len(r)
      /\ \A i \in 1..(Len(q) + Len(r)) :
             (q \o r)[i] = IF i <= Len(q) THEN q[i] ELSE r[i - Len(q)]
  BY <1>2, ConcatProperties, LenProperties
<1>4. ASSUME NEW m, Among(m, q \o r) PROVE Among(m, q) \/ Among(m, r)
  <2>1. PICK i \in 1..(Len(q) + Len(r)) : m = (q \o r)[i]
    BY <1>3, <1>4 DEF Among
  <2>2. CASE i <= Len(q)
    <3>1. i \in 1..Len(q) /\ m = q[i]
      BY <1>3, <2>1, <2>2
    <3> QED
      BY <3>1 DEF Among
  <2>3. CASE ~(i <= Len(q))
    <3>1. i - Len(q) \in 1..Len(r) /\ m = r[i - Len(q)]
      BY <1>3, <2>1, <2>3
    <3> QED
      BY <3>1 DEF Among
  <2> QED
    BY <2>2, <2>3
<1> QED
  BY <1>3, <1>4 DEF IsSeq

(* The first of a queue, and the others. *)
LEMMA HeadTailIs ==
    ASSUME NEW q, IsSeq(q), q # << >>
    PROVE  /\ Among(Head(q), q) /\ IsSeq(Tail(q))
           /\ \A m : Among(m, Tail(q)) => Among(m, q)
<1>1. PICK S : q \in Seq(S)
  BY DEF IsSeq
<1>2. Tail(q) \in Seq(S) /\ Len(Tail(q)) = Len(q) - 1 /\ Len(q) \in Nat \ {0}
  BY <1>1, HeadTailProperties, EmptySeq
<1>3. Head(q) = q[1] /\ 1 \in 1..Len(q)
  BY <1>1, <1>2
<1>4. \A i \in 1..Len(Tail(q)) : Tail(q)[i] = q[i + 1] /\ i + 1 \in 1..Len(q)
  BY <1>1, <1>2, HeadTailProperties
<1> QED
  BY <1>2, <1>3, <1>4 DEF IsSeq, Among

-----------------------------------------------------------------------------
(* What a node sends.                                                      *)

(* Datagrams of n that leave it now, with the relay key k. *)
FromNow(m, n, k) ==
    /\ m.from = n /\ m.to \in Nodes
    /\ IsHandshake(m) => m.key = k /\ m.time = clock

Leaves(sent, n, k) ==
    /\ DOMAIN sent = Nodes
    /\ \A p \in Nodes : /\ IsSeq(sent[p])
                        /\ \A m : Among(m, sent[p]) => FromNow(m, n, k)

(* A handshake. *)
LEMMA HandshakeLeaves ==
    ASSUME NEW n, NEW p \in Nodes, NEW k, NEW reply
    PROVE  FromNow(HandshakeAt(n, p, k, reply), n, k)
  BY DEF FromNow, HandshakeAt, IsHandshake

(* A sealed message. *)
LEMMA SealedLeaves ==
    ASSUME NEW n, NEW p \in Nodes, NEW k, NEW peerKey, NEW topic, NEW about
    PROVE  FromNow(SealedFor(n, p, peerKey, topic, about), n, k)
  BY DEF FromNow, SealedFor, IsHandshake

(* Nothing leaves. *)
LEMMA SilenceLeaves == ASSUME NEW n, NEW k PROVE Leaves(Silence, n, k)
  BY EmptyIs DEF Leaves, Silence

(* What is sent to one node. *)
LEMMA ToLeaves ==
    ASSUME NEW n, NEW k, NEW p, NEW q,
           p \in Nodes => IsSeq(q) /\ \A m : Among(m, q) => FromNow(m, n, k)
    PROVE  Leaves(To(p, q), n, k)
<1>1. /\ DOMAIN To(p, q) = Nodes
      /\ \A o \in Nodes : To(p, q)[o] = IF o = p THEN q ELSE << >>
  BY DEF To, Silence
<1> QED
  BY <1>1, EmptyIs DEF Leaves

(* One datagram to one node. *)
LEMMA OneLeaves ==
    ASSUME NEW n, NEW k, NEW p, NEW m, p \in Nodes => FromNow(m, n, k)
    PROVE  Leaves(To(p, <<m>>), n, k)
<1>1. IsSeq(<<m>>) /\ \A o : Among(o, <<m>>) => o = m
  BY OneIs
<1>2. p \in Nodes => \A o : Among(o, <<m>>) => FromNow(o, n, k)
  BY <1>1
<1> HIDE DEF Leaves
<1> QED
  BY <1>1, <1>2, ToLeaves

(* Handshakes to many. *)
LEMMA HandshakesLeave ==
    ASSUME NEW n, NEW k, NEW S
    PROVE  Leaves(HandshakesAt(n, S, k), n, k)
<1> DEFINE one(p) == HandshakeAt(n, p, k, TRUE)
<1>1. /\ DOMAIN HandshakesAt(n, S, k) = Nodes
      /\ \A p \in Nodes : HandshakesAt(n, S, k)[p] = IF p \in S THEN <<one(p)>> ELSE << >>
  BY DEF HandshakesAt
<1>2. \A p \in Nodes : FromNow(one(p), n, k)
  BY HandshakeLeaves
<1> HIDE DEF one
<1>3. \A p \in Nodes : IsSeq(<<one(p)>>) /\ \A m : Among(m, <<one(p)>>) => m = one(p)
  BY OneIs
<1> QED
  BY <1>1, <1>2, <1>3, EmptyIs DEF Leaves

(* A sealed message to a peer. *)
LEMMA MessageLeaves ==
    ASSUME NEW n, NEW k, NEW p, NEW topic, NEW about
    PROVE  Leaves(To(p, <<Sealed(n, p, topic, about)>>), n, k)
<1>1. p \in Nodes => FromNow(Sealed(n, p, topic, about), n, k)
  BY SealedLeaves DEF Sealed
<1> QED
  BY <1>1, OneLeaves

(* The answer to a handshake. *)
LEMMA GreetingLeaves ==
    ASSUME NEW n \in Nodes, NEW p \in Nodes, NEW peerKey, NEW reply
    PROVE  Leaves(Greeting(n, p, peerKey, reply), n, key[n])
<1> DEFINE first == Handshake(n, p, FALSE)
           last  == SealedFor(n, p, peerKey, "ping", {})
           front == IF reply THEN <<first>> ELSE << >>
<1>1. FromNow(first, n, key[n]) /\ FromNow(last, n, key[n])
  BY HandshakeLeaves, SealedLeaves DEF Handshake
<1> HIDE DEF first, last
<1>2. /\ IsSeq(<<last>>) /\ \A m : Among(m, <<last>>) => m = last
      /\ IsSeq(<<first>>) /\ \A m : Among(m, <<first>>) => m = first
  BY OneIs
<1>3. IsSeq(front) /\ \A m : Among(m, front) => m = first
  BY <1>2, EmptyIs
<1> HIDE DEF front
<1>4. /\ IsSeq(front \o <<last>>)
      /\ \A m : Among(m, front \o <<last>>) => FromNow(m, n, key[n])
  BY <1>1, <1>2, <1>3, ConcatIs
<1> QED
  BY <1>4, ToLeaves DEF Greeting, first, last, front

(* What is posted is in the queues beside what was there. *)
LEMMA PostedIs ==
    ASSUME NEW post, IsMail(post), NEW n \in Nodes, NEW k, NEW sent, Leaves(sent, n, k)
    PROVE  /\ IsMail(Posted(post, n, sent))
           /\ \A m : InMail(m, Posted(post, n, sent)) => InMail(m, post) \/ FromNow(m, n, k)
<1> DEFINE new == Posted(post, n, sent)
<1>1. /\ DOMAIN new = Nodes
      /\ DOMAIN new[n] = Nodes /\ \A p \in Nodes : new[n][p] = post[n][p] \o sent[p]
      /\ \A o \in Nodes \ {n} : new[o] = post[o]
  BY DEF Posted, IsMail
<1>2. \A p \in Nodes : IsSeq(post[n][p]) /\ IsSeq(sent[p])
  BY DEF IsMail, Leaves
<1> HIDE DEF new
<1>3. ASSUME NEW p \in Nodes
      PROVE  /\ IsSeq(new[n][p])
             /\ \A m : Among(m, new[n][p]) => Among(m, post[n][p]) \/ Among(m, sent[p])
  <2> DEFINE old == post[n][p]
             more == sent[p]
  <2>1. IsSeq(old) /\ IsSeq(more) /\ new[n][p] = old \o more
    BY <1>1, <1>2
  <2> HIDE DEF old, more
  <2>2. IsSeq(old \o more) /\ \A m : Among(m, old \o more) => Among(m, old) \/ Among(m, more)
    BY <2>1, ConcatIs
  <2> QED
    BY <2>1, <2>2 DEF old, more
<1>4. IsMail(new)
  BY <1>1, <1>3 DEF IsMail
<1>5. ASSUME NEW m, InMail(m, new) PROVE InMail(m, post) \/ FromNow(m, n, k)
  <2>1. PICK o, p \in Nodes : Among(m, new[o][p])
    BY <1>5 DEF InMail
  <2>2. CASE o = n
    BY <1>3, <2>1, <2>2 DEF InMail, Leaves
  <2>3. CASE o # n
    BY <1>1, <2>1, <2>3 DEF InMail
  <2> QED
    BY <2>2, <2>3
<1> QED
  BY <1>4, <1>5 DEF new

(* What is taken from a queue was in it. *)
LEMMA TakenIs ==
    ASSUME IsMail(net), NEW n \in Nodes, NEW p \in Nodes, net[p][n] # << >>
    PROVE  /\ InMail(Head(net[p][n]), net)
           /\ IsMail(Taken(n, p))
           /\ \A m : InMail(m, Taken(n, p)) => InMail(m, net)
<1> DEFINE new == Taken(n, p)
<1>1. /\ DOMAIN new = Nodes
      /\ \A o \in Nodes : DOMAIN new[o] = Nodes
      /\ new[p][n] = Tail(net[p][n])
      /\ \A o, r \in Nodes : (o # p \/ r # n) => new[o][r] = net[o][r]
  BY DEF Taken, IsMail
<1> HIDE DEF new
<1>2. /\ Among(Head(net[p][n]), net[p][n]) /\ IsSeq(Tail(net[p][n]))
      /\ \A m : Among(m, Tail(net[p][n])) => Among(m, net[p][n])
  BY HeadTailIs DEF IsMail
<1>3. IsMail(new)
  BY <1>1, <1>2 DEF IsMail
<1>4. ASSUME NEW m, InMail(m, new) PROVE InMail(m, net)
  <2>1. PICK o, r \in Nodes : Among(m, new[o][r])
    BY <1>4 DEF InMail
  <2> QED
    BY <1>1, <1>2, <2>1 DEF InMail
<1> QED
  BY <1>2, <1>3, <1>4 DEF InMail, new

-----------------------------------------------------------------------------
(* The order of keys and times.                                            *)

(* What was in order stays so if all that is new carries the newest keys.  *)
LEMMA OrderKept ==
    ASSUME Inv,
           key' \in [Nodes -> Nat], \A p \in Nodes : key[p] <= key'[p],
           clock' \in Nat, clock <= clock',
           \A m : OnWay(m)' => \/ OnWay(m)
                               \/ \E n \in Nodes : FromNow(m, n, key'[n]) /\ clock' = clock
    PROVE  /\ KeysInOrder'
           /\ \A p \in Nodes, e \in Peer : EntryOK(e, p) => EntryOK(e, p)'
<1> DEFINE IsNew(m) == /\ m.from \in Nodes /\ m.to \in Nodes
                       /\ IsHandshake(m) => m.key = key'[m.from] /\ m.time = clock'
           Old(m)   == /\ OnWay(m) /\ m.from \in Nodes /\ m.to \in Nodes
                       /\ IsHandshake(m) => /\ m.key \in Nat /\ m.key <= key[m.from]
                                            /\ m.time \in Nat /\ m.time <= clock
<1>1. clock \in Nat /\ key \in [Nodes -> Nat]
  BY DEF Inv, TypeOK
<1>2. ASSUME NEW m, OnWay(m)' PROVE Old(m) \/ IsNew(m)
  <2>1. CASE OnWay(m)
    BY <2>1 DEF Inv, KeysInOrder, Dated
  <2>2. CASE \E n \in Nodes : FromNow(m, n, key'[n]) /\ clock' = clock
    BY <2>2 DEF FromNow
  <2> QED
    BY <1>2, <2>1, <2>2
<1>3. ASSUME NEW m, OnWay(m)' PROVE Dated(m)'
  BY <1>1, <1>2, <1>3 DEF Dated
<1>4. ASSUME NEW m, NEW o, OnWay(m)', OnWay(o)' PROVE Before(m, o)
  <2> SUFFICES ASSUME IsHandshake(m), IsHandshake(o), m.from = o.from, m.key < o.key
               PROVE  m.time <= o.time
    BY DEF Before
  <2>1. CASE Old(m) /\ Old(o)
    BY <2>1 DEF Inv, KeysInOrder, Before
  <2>2. CASE Old(m) /\ IsNew(o)
    BY <1>1, <2>2
  <2>3. CASE IsNew(m)
    BY <1>1, <1>2, <1>4, <2>3
  <2> QED
    BY <1>2, <1>4, <2>1, <2>2, <2>3
<1>5. ASSUME NEW p \in Nodes, NEW e \in Peer, EntryOK(e, p) PROVE EntryOK(e, p)'
  <2>1. e.key \in Nat /\ e.time \in Nat /\ e.key <= key[p] /\ e.time <= clock
    BY <1>5 DEF EntryOK, Peer
  <2>2. ASSUME NEW m, OnWay(m)', IsHandshake(m), m.from = p, m.key < e.key
        PROVE  m.time <= e.time
    <3>1. CASE Old(m)
      BY <1>5, <2>2, <3>1 DEF EntryOK, NoneOlder
    <3>2. CASE IsNew(m)
      BY <1>1, <2>1, <2>2, <3>2
    <3> QED
      BY <1>2, <2>2, <3>1, <3>2
  <2> QED
    BY <1>1, <2>1, <2>2 DEF EntryOK, NoneOlder
<1> QED
  BY <1>3, <1>4, <1>5 DEF KeysInOrder

(* A table after a step of its node. *)
TableOK(t, n) ==
    /\ IsTable(t)
    /\ \A p \in DOMAIN t : EntryOK(t[p], p)
    /\ \A p \in DOMAIN t \cap Known(n) : peers[n][p].key <= t[p].key

(* The table as it is. *)
LEMMA TableStays == ASSUME Inv, NEW n \in Nodes PROVE TableOK(peers[n], n)
<1>1. \A p \in Known(n) : EntryOK(peers[n][p], p) /\ peers[n][p] \in Peer
  BY DEF Inv, TypeOK, TablesInOrder, IsTable, Known
<1> QED
  BY <1>1 DEF Inv, TypeOK, TableOK, Peer, Known

(* An entry changed, or added. *)
LEMMA TableWith ==
    ASSUME Inv, NEW n \in Nodes, NEW p \in Nodes, NEW e \in Peer, EntryOK(e, p),
           p \in Known(n) => peers[n][p].key <= e.key,
           NEW t, DOMAIN t = Known(n) \cup {p},
           t = [q \in Known(n) \cup {p} |-> IF q = p THEN e ELSE peers[n][q]]
    PROVE  TableOK(t, n)
<1>1. /\ \A q \in Known(n) : EntryOK(peers[n][q], q) /\ peers[n][q] \in Peer
      /\ Known(n) \subseteq Nodes
  BY DEF Inv, TypeOK, TablesInOrder, IsTable, Known
<1>2. /\ DOMAIN t \subseteq Nodes /\ t \in [DOMAIN t -> Peer]
      /\ \A q \in DOMAIN t : t[q] = IF q = p THEN e ELSE peers[n][q]
  BY <1>1
<1>3. \A q \in DOMAIN t : EntryOK(t[q], q)
  BY <1>1, <1>2
<1>4. \A q \in DOMAIN t \cap Known(n) : peers[n][q].key <= t[q].key
  BY <1>1, <1>2 DEF Peer
<1> QED
  BY <1>2, <1>3, <1>4 DEF TableOK, IsTable

(* Peers are forgotten. *)
LEMMA TableWithout ==
    ASSUME Inv, NEW n \in Nodes, NEW S \in SUBSET Known(n)
    PROVE  TableOK([q \in S |-> peers[n][q]], n)
<1>1. /\ \A q \in Known(n) : EntryOK(peers[n][q], q) /\ peers[n][q] \in Peer
      /\ Known(n) \subseteq Nodes
  BY DEF Inv, TypeOK, TablesInOrder, IsTable, Known
<1> QED
  BY <1>1 DEF TableOK, IsTable, Peer

-----------------------------------------------------------------------------
(* The handlers.                                                           *)

(* What a handler gives. *)
OutcomeOK(x, n) == TableOK(x.peers, n) /\ Leaves(x.sent, n, key[n])

(* A handshake does not take a table back. *)
LEMMA HandshakeHandled ==
    ASSUME Inv, NEW m, OnWay(m), IsHandshake(m), NEW n \in Nodes, n = m.to
    PROVE  OutcomeOK(HandleHandshake(n, m), n)
<1> DEFINE p == m.from
<1>1. /\ p \in Nodes /\ m.key \in Nat /\ m.key <= key[p]
      /\ m.time \in Nat /\ m.time <= clock
  BY DEF Inv, KeysInOrder, Dated
<1>2. OutcomeOK(Ignored(n), n)
  BY TableStays, SilenceLeaves DEF OutcomeOK, Ignored, Outcome
<1>3. \A o : (OnWay(o) /\ IsHandshake(o) /\ o.from = p /\ o.key < m.key) => o.time <= m.time
  BY DEF Inv, KeysInOrder, Before
<1>4. \A o : (OnWay(o) /\ IsHandshake(o)) => o.time \in Nat /\ o.key \in Nat
  BY DEF Inv, KeysInOrder, Dated
<1>5. ASSUME p \notin Known(n) PROVE OutcomeOK(MeetNode(n, m), n)
  <2> DEFINE e == [key |-> m.key, time |-> m.time, seen |-> "fresh"]
             t == [q \in Known(n) \cup {p} |-> IF q = p THEN e ELSE peers[n][q]]
  <2>1. e \in Peer /\ EntryOK(e, p)
    <3>1. e \in Peer /\ e.key = m.key /\ e.time = m.time
      BY <1>1 DEF Peer
    <3> HIDE DEF e
    <3> QED
      BY <1>1, <1>3, <3>1 DEF EntryOK, NoneOlder
  <2>2. t = [q \in Known(n) \cup {p} |-> IF q = p THEN e ELSE peers[n][q]]
    OBVIOUS
  <2>3. DOMAIN t = Known(n) \cup {p}
    BY <2>2
  <2> HIDE DEF t, e, p
  <2>4. TableOK(t, n)
    BY <1>1, <1>5, <2>1, <2>2, <2>3, TableWith
  <2>5. Leaves(Greeting(n, p, m.key, TRUE), n, key[n])
    BY <1>1, GreetingLeaves
  <2> QED
    BY <2>4, <2>5 DEF OutcomeOK, MeetNode, Outcome, t, e, p
<1>6. ASSUME p \in Known(n), ~Superseded(n, m) PROVE OutcomeOK(GreetPeer(n, m), n)
  <2> DEFINE old == peers[n][p]
             e   == [old EXCEPT !.key = m.key, !.time = IF m.time > @ THEN m.time ELSE @]
             t   == [peers[n] EXCEPT ![m.from].key  = m.key,
                                     ![m.from].time = IF m.time > @ THEN m.time ELSE @]
  <2>1. /\ old \in Peer /\ EntryOK(old, p)
        /\ peers[n] = [q \in Known(n) |-> peers[n][q]]
    BY <1>6 DEF Inv, TypeOK, IsTable, TablesInOrder, Known
  <2>2. e \in Peer /\ e.key = m.key /\ e.time = IF m.time > old.time THEN m.time ELSE old.time
    BY <1>1, <2>1 DEF Peer
  <2>3. m.key = old.key \/ m.time > old.time
    BY <1>1, <1>6, <2>1 DEF Superseded, Peer
  <2>4. t = [q \in Known(n) \cup {p} |-> IF q = p THEN e ELSE peers[n][q]]
    <3>1. t = [q \in Known(n) |-> IF q = p THEN e ELSE peers[n][q]]
      BY <1>6, <2>1 DEF Peer
    <3>2. Known(n) \cup {p} = Known(n)
      BY <1>6
    <3> QED
      BY <3>1, <3>2
  <2>5. DOMAIN t = Known(n) \cup {p}
    BY <2>4
  <2> HIDE DEF e, t
  <2>6. EntryOK(e, p)
    <3>1. ASSUME NEW o, OnWay(o), IsHandshake(o), o.from = p, o.key < e.key
          PROVE  o.time <= e.time
      <4>1. o.time <= m.time /\ o.time \in Nat
        BY <1>3, <1>4, <2>2, <3>1
      <4> QED
        BY <1>1, <2>1, <2>2, <4>1 DEF Peer
    <3>2. e.key <= key[p] /\ e.time <= clock
      BY <1>1, <2>1, <2>2 DEF EntryOK
    <3> QED
      BY <3>1, <3>2 DEF EntryOK, NoneOlder
  <2>7. old.key <= e.key
    <3>1. CASE m.key = old.key
      BY <1>1, <2>2, <3>1
    <3>2. CASE m.time > old.time
      <4>1. ~(m.key < old.key)
        BY <1>1, <2>1, <3>2 DEF EntryOK, NoneOlder, Peer
      <4> QED
        BY <1>1, <2>1, <2>2, <4>1 DEF Peer
    <3> QED
      BY <2>3, <3>1, <3>2
  <2>8. TableOK(t, n)
    <3> HIDE DEF p
    <3> QED
      BY <1>1, <2>2, <2>4, <2>5, <2>6, <2>7, TableWith
  <2>9. Leaves(Greeting(n, m.from, m.key, m.reply), n, key[n])
    BY <1>1, GreetingLeaves
  <2> QED
    BY <2>8, <2>9 DEF OutcomeOK, GreetPeer, Outcome, t
<1> QED
  BY <1>2, <1>5, <1>6 DEF HandleHandshake

(* A sealed message leaves the keys alone. *)
LEMMA SealedHandled ==
    ASSUME Inv, NEW m, OnWay(m), NEW n \in Nodes, n = m.to
    PROVE  OutcomeOK(HandleSealed(n, m), n)
<1>1. m.from \in Nodes
  BY DEF Inv, KeysInOrder, Dated
<1>2. OutcomeOK(Ignored(n), n)
  BY TableStays, SilenceLeaves DEF OutcomeOK, Ignored, Outcome
<1>3. OutcomeOK(Rekey(n, m), n)
  <2> DEFINE h == Handshake(n, m.from, TRUE)
  <2>1. FromNow(h, n, key[n])
    BY <1>1, HandshakeLeaves DEF Handshake
  <2> HIDE DEF h
  <2>2. Leaves(To(m.from, <<h>>), n, key[n])
    BY <2>1, OneLeaves
  <2> QED
    BY <2>2, TableStays DEF OutcomeOK, Rekey, Outcome, h
<1>4. Leaves(Replies(n, m), n, key[n])
  <2>1. Leaves(AnswerAsk(n, m), n, key[n])
    BY MessageLeaves DEF AnswerAsk
  <2>2. Leaves(AnswerNodes(n, m), n, key[n])
    BY HandshakesLeave DEF AnswerNodes, HandshakesTo
  <2> QED
    BY <2>1, <2>2, SilenceLeaves DEF Replies
<1>5. ASSUME m.from \in Known(n)
      PROVE  TableOK([peers[n] EXCEPT ![m.from].seen = "fresh"], n)
  <2> DEFINE p   == m.from
             old == peers[n][p]
             e   == [old EXCEPT !.seen = "fresh"]
             t   == [peers[n] EXCEPT ![m.from].seen = "fresh"]
  <2>1. /\ old \in Peer /\ EntryOK(old, p)
        /\ peers[n] = [q \in Known(n) |-> peers[n][q]]
    BY <1>5 DEF Inv, TypeOK, IsTable, TablesInOrder, Known
  <2>2. e \in Peer /\ e.key = old.key /\ e.time = old.time
    <3>1. e = [key |-> old.key, time |-> old.time, seen |-> "fresh"]
      BY <2>1 DEF Peer
    <3>2. old.key \in Nat /\ old.time \in Nat
      BY <2>1 DEF Peer
    <3> QED
      BY <3>1, <3>2 DEF Peer
  <2>3. t = [q \in Known(n) \cup {p} |-> IF q = p THEN e ELSE peers[n][q]]
    <3>1. t = [q \in Known(n) |-> IF q = p THEN e ELSE peers[n][q]]
      BY <1>5, <2>1 DEF Peer
    <3>2. Known(n) \cup {p} = Known(n)
      BY <1>5
    <3> QED
      BY <3>1, <3>2
  <2>4. DOMAIN t = Known(n) \cup {p}
    BY <2>3
  <2> HIDE DEF e, t
  <2>5. EntryOK(e, p) /\ old.key <= e.key
    <3>1. old.key \in Nat
      BY <2>1 DEF Peer
    <3> HIDE DEF old, p
    <3>2. e.key = old.key /\ e.time = old.time /\ old.key <= e.key
      BY <2>2, <3>1
    <3>3. old.key <= key[p] /\ old.time <= clock /\ NoneOlder(old, p)
      BY <2>1 DEF EntryOK
    <3>4. NoneOlder(e, p)
      BY <3>2, <3>3 DEF NoneOlder
    <3> QED
      BY <3>2, <3>3, <3>4 DEF EntryOK
  <2> HIDE DEF p
  <2>6. TableOK(t, n)
    BY <1>1, <2>2, <2>3, <2>4, <2>5, TableWith DEF p
  <2> QED
    BY <2>6 DEF t
<1> QED
  BY <1>2, <1>3, <1>4, <1>5 DEF HandleSealed, OutcomeOK, Outcome

-----------------------------------------------------------------------------
(* The steps.                                                              *)

(* No key in a table goes back. *)
KeysNewer ==
    \A n \in Nodes : \A p \in Known(n) \cap Known(n)' : peers'[n][p].key >= peers[n][p].key

(* Time and relay keys only grow, and what is new on its way is by now. *)
OnlyNewer ==
    /\ key' \in [Nodes -> Nat] /\ \A p \in Nodes : key[p] <= key'[p]
    /\ clock' \in Nat /\ clock <= clock'
    /\ IsMail(net')
    /\ \A m : OnWay(m)' => \/ OnWay(m)
                           \/ \E n \in Nodes : FromNow(m, n, key'[n]) /\ clock' = clock

(* A step is right if each table is. *)
LEMMA TablesKept ==
    ASSUME Inv, OnlyNewer, DOMAIN peers' = Nodes, \A n \in Nodes : TableOK(peers'[n], n)
    PROVE  Inv' /\ KeysNewer
<1>1. /\ KeysInOrder'
      /\ \A p \in Nodes, e \in Peer : EntryOK(e, p) => EntryOK(e, p)'
  BY OrderKept DEF OnlyNewer
<1>2. TypeOK'
  BY DEF TypeOK, OnlyNewer, TableOK
<1>3. ASSUME NEW n \in Nodes, NEW p \in Known(n)' PROVE EntryOK(peers[n][p], p)'
  <2>1. PICK e : e = peers'[n][p]
    OBVIOUS
  <2>2. p \in Nodes /\ e \in Peer /\ EntryOK(e, p)
    BY <1>3, <2>1 DEF TableOK, IsTable, Known
  <2>3. EntryOK(e, p)'
    BY <1>1, <2>2
  <2>4. EntryOK(peers[n][p], p)' <=> EntryOK(e, p)'
    BY <2>1 DEF EntryOK, NoneOlder
  <2> QED
    BY <2>3, <2>4
<1>4. TablesInOrder'
  BY <1>3 DEF TablesInOrder
<1>5. KeysNewer
  <2> SUFFICES ASSUME NEW n \in Nodes, NEW p \in Known(n) \cap Known(n)'
               PROVE  peers'[n][p].key >= peers[n][p].key
    BY DEF KeysNewer
  <2>1. peers[n][p].key <= peers'[n][p].key
    BY DEF TableOK, Known
  <2>2. peers[n][p] \in Peer /\ peers'[n][p] \in Peer
    BY DEF TableOK, IsTable, Known, Inv, TypeOK
  <2> QED
    BY <2>1, <2>2 DEF Peer
<1> QED
  BY <1>1, <1>2, <1>4, <1>5 DEF Inv

(* A step of one node sends something, or nothing. *)
LEMMA Sends ==
    ASSUME Inv, NEW n \in Nodes, NEW k, NEW post, NEW sent, Leaves(sent, n, k),
           IsMail(post), \A m : InMail(m, post) => OnWay(m),
           net' = Posted(post, n, sent), \A m \in late' : OnWay(m),
           key' \in [Nodes -> Nat], \A p \in Nodes : key[p] <= key'[p], k = key'[n],
           clock' = clock
    PROVE  OnlyNewer
<1>1. /\ IsMail(net')
      /\ \A m : InMail(m, net') => InMail(m, post) \/ FromNow(m, n, k)
  BY PostedIs
<1>2. clock \in Nat
  BY DEF Inv, TypeOK
<1>3. ASSUME NEW m, OnWay(m)' PROVE OnWay(m) \/ FromNow(m, n, k)
  <2>1. InMail(m, net') \/ m \in late'
    BY <1>3 DEF OnWay, InMail
  <2> QED
    BY <1>1, <2>1
<1> QED
  BY <1>1, <1>2, <1>3 DEF OnlyNewer

(* Nobody sends. *)
LEMMA Rests ==
    ASSUME Inv, UNCHANGED <<key, net>>, late' \subseteq late, clock' \in Nat, clock <= clock'
    PROVE  OnlyNewer
<1>1. \A m : OnWay(m)' => OnWay(m)
  BY DEF OnWay, InMail
<1> QED
  BY <1>1 DEF OnlyNewer, Inv, TypeOK

(* The tables stay. *)
LEMMA TablesStay ==
    ASSUME Inv, OnlyNewer, UNCHANGED peers
    PROVE  Inv' /\ KeysNewer
  BY TablesKept, TableStays DEF Inv, TypeOK

(* The table of one node changes. *)
LEMMA TableChanges ==
    ASSUME Inv, OnlyNewer, NEW n \in Nodes, NEW t, TableOK(t, n),
           peers' = [peers EXCEPT ![n] = t]
    PROVE  Inv' /\ KeysNewer
<1>1. DOMAIN peers' = Nodes /\ \A o \in Nodes : peers'[o] = IF o = n THEN t ELSE peers[o]
  BY DEF Inv, TypeOK
<1>2. \A o \in Nodes : TableOK(peers'[o], o)
  BY <1>1, TableStays
<1> QED
  BY <1>1, <1>2, TablesKept

(* A datagram is handled. *)
LEMMA HandleStep ==
    ASSUME Inv, NEW m, OnWay(m), NEW post, IsMail(post),
           \A o : InMail(o, post) => OnWay(o), \A o \in late' : OnWay(o), Handle(m, post)
    PROVE  Inv' /\ KeysNewer
<1> DEFINE n == m.to
           outcome == IF m.type = "handshake" THEN HandleHandshake(n, m) ELSE HandleSealed(n, m)
<1>1. n \in Nodes
  BY DEF Inv, KeysInOrder, Dated
<1>2. OutcomeOK(outcome, n)
  BY <1>1, HandshakeHandled, SealedHandled DEF IsHandshake
<1>3. /\ peers' = [peers EXCEPT ![n] = outcome.peers]
      /\ net' = Posted(post, n, outcome.sent)
      /\ key' = key /\ clock' = clock
  BY DEF Handle
<1> HIDE DEF outcome, n
<1>4. PICK t, sent : t = outcome.peers /\ sent = outcome.sent
  OBVIOUS
<1>5. PICK k : k = key[n]
  OBVIOUS
<1>6. TableOK(t, n) /\ Leaves(sent, n, k)
  BY <1>2, <1>4, <1>5 DEF OutcomeOK
<1>7. /\ key' \in [Nodes -> Nat] /\ \A p \in Nodes : key[p] <= key'[p]
      /\ k = key'[n]
  BY <1>3, <1>5 DEF Inv, TypeOK
<1>8. OnlyNewer
  BY <1>1, <1>3, <1>4, <1>6, <1>7, Sends
<1> QED
  BY <1>1, <1>3, <1>4, <1>6, <1>8, TableChanges

(* Relay keys stay. *)
LEMMA SendsNow ==
    ASSUME Inv, NEW n \in Nodes, NEW sent, Leaves(sent, n, key[n]), Post(n, sent),
           UNCHANGED <<clock, key, late>>
    PROVE  OnlyNewer
<1>1. PICK k, post : k = key[n] /\ post = net
  OBVIOUS
<1>2. /\ key' \in [Nodes -> Nat] /\ \A p \in Nodes : key[p] <= key'[p]
      /\ k = key'[n]
  BY <1>1 DEF Inv, TypeOK
<1>3. /\ Leaves(sent, n, k) /\ IsMail(post) /\ net' = Posted(post, n, sent)
      /\ \A m : InMail(m, post) => OnWay(m)
  BY <1>1 DEF Post, Inv, TypeOK, OnWay
<1>4. \A m \in late' : OnWay(m)
  BY DEF OnWay
<1> QED
  BY <1>2, <1>3, <1>4, Sends

(* The first of a queue comes in, or is lost. *)
LEMMA ReceiveStep ==
    ASSUME Inv, NEW n \in Nodes, NEW p \in Nodes,
           Receive(n, p) \/ Repeat(n, p) \/ Lose(n, p)
    PROVE  Inv' /\ KeysNewer
<1>1. net[p][n] # << >> /\ IsMail(net)
  BY DEF Receive, Repeat, Lose, Inv, TypeOK
<1>2. PICK m, post : m = Head(net[p][n]) /\ post = Taken(n, p)
  OBVIOUS
<1>3. /\ OnWay(m) /\ IsMail(post) /\ \A o : InMail(o, post) => OnWay(o)
  BY <1>1, <1>2, TakenIs DEF OnWay
<1>4. \A o \in late' : OnWay(o)
  BY <1>2, <1>3 DEF Receive, Repeat, Lose, OnWay
<1>5. CASE Receive(n, p) \/ Repeat(n, p)
  <2>1. Handle(m, post)
    BY <1>2, <1>5 DEF Receive, Repeat
  <2> QED
    BY <1>3, <1>4, <2>1, HandleStep
<1>6. CASE Lose(n, p)
  <2>1. net' = post /\ UNCHANGED <<clock, key, peers>>
    BY <1>2, <1>6 DEF Lose
  <2>2. ASSUME NEW o, OnWay(o)' PROVE OnWay(o)
    <3>1. InMail(o, post) \/ o \in late'
      BY <2>1, <2>2 DEF OnWay, InMail
    <3> QED
      BY <1>3, <1>4, <3>1
  <2>3. OnlyNewer
    BY <1>3, <2>1, <2>2 DEF OnlyNewer, Inv, TypeOK
  <2> QED
    BY <2>1, <2>3, TablesStay
<1> QED
  BY <1>5, <1>6

(* A late datagram comes in. *)
LEMMA ReceiveLateStep == ASSUME Inv, ReceiveLate PROVE Inv' /\ KeysNewer
<1>1. PICK m \in late : Handle(m, net) /\ late' = late \ {m}
  BY DEF ReceiveLate
<1>2. PICK post : post = net
  OBVIOUS
<1>3. /\ OnWay(m) /\ IsMail(post) /\ \A o : InMail(o, post) => OnWay(o)
      /\ \A o \in late' : OnWay(o)
  BY <1>1, <1>2 DEF OnWay, Inv, TypeOK
<1>4. Handle(m, post)
  BY <1>1, <1>2
<1> QED
  BY <1>3, <1>4, HandleStep

(* The walk asks for nodes. *)
LEMMA WalkKeeps == ASSUME Inv, NEW n \in Nodes, WalkStep(n) PROVE Inv' /\ KeysNewer
<1>1. UNCHANGED <<clock, key, peers, late>>
  BY DEF WalkStep, WalkOn, WalkDone, WalkAgain
<1>2. OnlyNewer
  <2>1. CASE UNCHANGED net
    BY <1>1, <2>1, Rests DEF Inv, TypeOK
  <2>2. ASSUME NEW p, NEW target, Post(n, To(p, <<Ask(n, p, target)>>)) PROVE OnlyNewer
    <3>1. PICK sent : sent = To(p, <<Ask(n, p, target)>>)
      OBVIOUS
    <3>2. Leaves(sent, n, key[n])
      BY <3>1, MessageLeaves DEF Ask
    <3>3. Post(n, sent)
      BY <2>2, <3>1
    <3> QED
      BY <1>1, <3>2, <3>3, SendsNow
  <2>3. \/ UNCHANGED net
        \/ \E p, target : Post(n, To(p, <<Ask(n, p, target)>>))
    <3>1. CASE WalkOn(n)
      BY <3>1 DEF WalkOn
    <3>2. CASE WalkDone(n)
      BY <3>2 DEF WalkDone, Refreshes
    <3>3. CASE WalkAgain(n)
      BY <3>3 DEF WalkAgain
    <3> QED
      BY <3>1, <3>2, <3>3 DEF WalkStep
  <2> QED
    BY <2>1, <2>2, <2>3
<1> QED
  BY <1>1, <1>2, TablesStay

(* Time passes. *)
LEMMA TickStep == ASSUME Inv, Tick PROVE Inv' /\ KeysNewer
<1>1. clock' \in Nat /\ clock <= clock'
  BY DEF Tick, Inv, TypeOK
<1>2. OnlyNewer
  BY <1>1, Rests DEF Tick
<1> QED
  BY <1>2, TablesStay DEF Tick

(* An entry is marked. *)
LEMMA Marked ==
    ASSUME Inv, NEW n \in Nodes, NEW p \in Known(n), NEW mark \in {"stale", "probed"},
           OnlyNewer, peers' = [peers EXCEPT ![n][p].seen = mark]
    PROVE  Inv' /\ KeysNewer
<1> DEFINE old == peers[n][p]
           e   == [key |-> old.key, time |-> old.time, seen |-> mark]
           t   == [q \in Known(n) \cup {p} |-> IF q = p THEN e ELSE peers[n][q]]
<1>1. /\ old \in Peer /\ EntryOK(old, p) /\ p \in Nodes
      /\ peers[n] = [q \in Known(n) |-> peers[n][q]]
  BY DEF Inv, TypeOK, IsTable, TablesInOrder, Known
<1>2. old.key \in Nat /\ old.time \in Nat /\ [old EXCEPT !.seen = mark] = e
  BY <1>1 DEF Peer
<1>3. peers' = [peers EXCEPT ![n] = t]
  <2>1. [peers[n] EXCEPT ![p].seen = mark] = t
    BY <1>1, <1>2
  <2> HIDE DEF t
  <2> QED
    BY <2>1
<1>4. e \in Peer /\ e.key = old.key /\ e.time = old.time
  BY <1>2 DEF Peer
<1> HIDE DEF e
<1>5. EntryOK(e, p) /\ old.key <= e.key
  BY <1>1, <1>2, <1>4 DEF EntryOK, NoneOlder
<1>6. DOMAIN t = Known(n) \cup {p}
  OBVIOUS
<1>7. TableOK(t, n)
  BY <1>1, <1>4, <1>5, <1>6, TableWith
<1> HIDE DEF t
<1>8. PICK new : new = t
  OBVIOUS
<1> QED
  BY <1>3, <1>7, <1>8, TableChanges

(* The peer manager, and a peer that falls silent. *)
LEMMA ManageKeeps ==
    ASSUME Inv, NEW n \in Nodes, Manage(n) \/ \E p \in Nodes : Lapse(n, p)
    PROVE  Inv' /\ KeysNewer
<1>1. CASE Bootstrap(n)
  <2>1. PICK sent : sent = HandshakesTo(n, Seeds[n] \cap running)
    OBVIOUS
  <2>2. Leaves(sent, n, key[n]) /\ Post(n, sent) /\ UNCHANGED <<clock, key, peers, late>>
    BY <1>1, <2>1, HandshakesLeave DEF Bootstrap, HandshakesTo
  <2>3. OnlyNewer
    BY <2>2, SendsNow
  <2> QED
    BY <2>2, <2>3, TablesStay
<1>2. ASSUME NEW p, KeepAlive(n, p) PROVE Inv' /\ KeysNewer
  <2>1. PICK sent : sent = To(p, <<Handshake(n, p, FALSE)>>)
    OBVIOUS
  <2>2. /\ p \in Known(n) /\ peers' = [peers EXCEPT ![n][p].seen = "probed"]
        /\ Post(n, sent) /\ UNCHANGED <<clock, key, late>>
    BY <1>2, <2>1 DEF KeepAlive
  <2>3. p \in Nodes => FromNow(Handshake(n, p, FALSE), n, key[n])
    BY HandshakeLeaves DEF Handshake
  <2>4. Leaves(sent, n, key[n])
    BY <2>1, <2>3, OneLeaves
  <2>5. OnlyNewer
    BY <2>2, <2>4, SendsNow
  <2> QED
    BY <2>2, <2>5, Marked
<1>3. ASSUME NEW p, Evict(n, p) PROVE Inv' /\ KeysNewer
  <2>1. PICK S : S = Known(n) \ {p}
    OBVIOUS
  <2>2. PICK t : t = [q \in S |-> peers[n][q]]
    OBVIOUS
  <2>3. TableOK(t, n)
    BY <2>1, <2>2, TableWithout
  <2>4. peers' = [peers EXCEPT ![n] = t] /\ UNCHANGED <<clock, key, net, late>>
    BY <1>3, <2>1, <2>2 DEF Evict, Inv, TypeOK
  <2>5. OnlyNewer
    BY <2>4, Rests DEF Inv, TypeOK
  <2> QED
    BY <2>3, <2>4, <2>5, TableChanges
<1>4. ASSUME NEW p \in Nodes, Lapse(n, p) PROVE Inv' /\ KeysNewer
  <2>1. /\ p \in Known(n) /\ peers' = [peers EXCEPT ![n][p].seen = "stale"]
        /\ UNCHANGED <<clock, key, net, late>>
    BY <1>4 DEF Lapse
  <2>2. OnlyNewer
    BY <2>1, Rests DEF Inv, TypeOK
  <2> QED
    BY <2>1, <2>2, Marked
<1> QED
  BY <1>1, <1>2, <1>3, <1>4 DEF Manage

(* A restart: a newer relay key and an empty table. *)
LEMMA RestartStep == ASSUME Inv, NEW n \in Nodes, Restart(n) PROVE Inv' /\ KeysNewer
<1>1. PICK k : k = IF n \in FixedKey THEN key[n] ELSE key[n] + 1
  OBVIOUS
<1>2. PICK sent, post : sent = HandshakesAt(n, Seeds[n] \cap running, k) /\ post = net
  OBVIOUS
<1>3. /\ key' = [key EXCEPT ![n] = k] /\ net' = Posted(post, n, sent)
      /\ peers' = [peers EXCEPT ![n] = << >>] /\ UNCHANGED <<clock, late>>
  BY <1>1, <1>2 DEF Restart, Post
<1>4. /\ key' \in [Nodes -> Nat] /\ \A p \in Nodes : key[p] <= key'[p]
      /\ k = key'[n]
  BY <1>1, <1>3 DEF Inv, TypeOK
<1>5. /\ Leaves(sent, n, k) /\ IsMail(post) /\ \A m : InMail(m, post) => OnWay(m)
      /\ \A m \in late' : OnWay(m)
  BY <1>2, <1>3, HandshakesLeave DEF Inv, TypeOK, OnWay
<1>6. OnlyNewer
  BY <1>3, <1>4, <1>5, Sends
<1>7. PICK t : t = << >>
  OBVIOUS
<1>8. DOMAIN t = {}
  BY <1>7
<1>9. TableOK(t, n)
  <2>1. t = [p \in {} |-> 0]
    BY <1>7
  <2> QED
    BY <1>8, <2>1 DEF TableOK, IsTable
<1> QED
  BY <1>3, <1>6, <1>7, <1>9, TableChanges

(* The handshakes to the seeds. *)
LEMMA InitInv == Init => Inv
<1> SUFFICES ASSUME Init PROVE Inv
  OBVIOUS
<1>1. /\ key = [n \in Nodes |-> 0] /\ late = {} /\ clock \in Nat
      /\ peers = [n \in Nodes |-> << >>]
      /\ net = [n \in Nodes |-> IF n \in running THEN HandshakesTo(n, Seeds[n] \cap running)
                                ELSE Silence]
  BY NetworkAssumption DEF Init, NetworkAssumption
<1>2. ASSUME NEW n \in Nodes PROVE Leaves(net[n], n, 0)
  <2>1. PICK S : S = Seeds[n] \cap running
    OBVIOUS
  <2>2. net[n] = IF n \in running THEN HandshakesAt(n, S, 0) ELSE Silence
    BY <1>1, <2>1 DEF HandshakesTo
  <2> QED
    BY <2>2, HandshakesLeave, SilenceLeaves
<1>3. IsMail(net)
  BY <1>1, <1>2 DEF IsMail, Leaves
<1>4. \A m : OnWay(m) => \E n \in Nodes : FromNow(m, n, 0)
  BY <1>1, <1>2 DEF OnWay, InMail, Leaves
<1>5. KeysInOrder
  BY <1>1, <1>4 DEF KeysInOrder, Dated, Before, FromNow
<1>6. \A n \in Nodes : Known(n) = {} /\ IsTable(peers[n])
  <2>1. PICK t : t = << >>
    OBVIOUS
  <2>2. DOMAIN t = {} /\ t = [p \in {} |-> 0]
    BY <2>1
  <2>3. IsTable(t)
    BY <2>2 DEF IsTable
  <2>4. \A n \in Nodes : peers[n] = t
    BY <1>1, <2>1
  <2> QED
    BY <2>2, <2>3, <2>4 DEF Known
<1> QED
  BY <1>1, <1>3, <1>5, <1>6 DEF Inv, TypeOK, TablesInOrder

(* Every step. *)
LEMMA NextInv == Inv /\ [Next]_vars => Inv' /\ (KeysNewer \/ UNCHANGED vars)
<1> SUFFICES ASSUME Inv, [Next]_vars PROVE Inv' /\ (KeysNewer \/ UNCHANGED vars)
  OBVIOUS
<1>1. CASE UNCHANGED vars
  <2>1. OnlyNewer
    BY <1>1, Rests DEF vars, Inv, TypeOK
  <2> QED
    BY <1>1, <2>1, TablesStay DEF vars
<1>2. CASE \E n, p \in Nodes : Receive(n, p) \/ Repeat(n, p) \/ Lose(n, p)
  BY <1>2, ReceiveStep
<1>3. CASE ReceiveLate
  BY <1>3, ReceiveLateStep
<1>4. CASE \E n \in Nodes : WalkStep(n)
  BY <1>4, WalkKeeps
<1>5. CASE \E n \in Nodes : Manage(n) \/ \E p \in Nodes : Lapse(n, p)
  BY <1>5, ManageKeeps
<1>6. CASE \E n \in Nodes : Restart(n)
  BY <1>6, RestartStep
<1>7. CASE Tick
  BY <1>7, TickStep
<1> QED
  BY <1>1, <1>2, <1>3, <1>4, <1>5, <1>6, <1>7 DEF Next

(* While a peer stays in the table its relay key never goes back to one of *)
(* an earlier start (handle_handshake, set_relay_key).                     *)
THEOREM KeysGetNewer == Spec => KeysOnlyNewer
<1>1. Inv /\ [Next]_vars => [\A n \in Nodes : \A p \in Known(n) \cap Known(n)' :
                                peers'[n][p].key >= peers[n][p].key]_vars
  BY NextInv DEF KeysNewer
<1>2. Inv /\ [Next]_vars => Inv'
  BY NextInv
<1> QED
  BY <1>1, <1>2, InitInv, PTL DEF Spec, KeysOnlyNewer

-----------------------------------------------------------------------------
(* What a case says.                                                       *)

GoodOf(k) == {p \in Peers : /\ k.holds[p] = Cells /\ p \notin k.broke
                            /\ \A c \in Cells : Cardinality(Inner[c]) < MaxPages}

NearOf(k) == k.nearest[Me]

(* The peer that is asked holds nothing and names others. *)
Redirects(k) == k.index[Me] = << >> /\ NearOf(k) # NoPeer /\ k.holds[NearOf(k)] = {}

ContactsOf(k) ==
    IF k.index[NearOf(k)] # << >> THEN k.index[NearOf(k)] ELSE <<k.nearest[NearOf(k)]>>

FirstAsked(k) == IF k.index[Me] # << >> THEN k.index[Me][1] ELSE NearOf(k)

(* A fetch may learn of a second provider. *)
Twice(k) == k.index[Me] # << >> \/ (Redirects(k) /\ Len(ContactsOf(k)) > 1)

IsCalm(k) ==
    /\ Polls < Ttl
    /\ k.index[Me] \in Seq(Peers) /\ NearOf(k) \in Peers \cup {NoPeer}
    /\ \A i \in 1 .. Len(k.index[Me]) : k.index[Me][i] \in GoodOf(k)
    /\ Redirects(k) =>
          /\ ContactsOf(k) \in Seq(Peers) /\ Len(ContactsOf(k)) > 0
          /\ \A i \in 1 .. Len(ContactsOf(k)) : ContactsOf(k)[i] \in GoodOf(k)
    /\ (FirstAsked(k) # NoPeer /\ ~Redirects(k)) => FirstAsked(k) \in GoodOf(k)
    /\ k.holds \in [Peers -> SUBSET Cells]

-----------------------------------------------------------------------------
(* What there is of a cell.                                                *)

Got == hot \cup ToSet(storing)

Askers(c)    == {f \in DOMAIN fetch : fetch[f].pc = "poll" /\ Top(f).cell = c}
Queuers(c)   == {f \in DOMAIN fetch : fetch[f].pc = "queue" /\ Top(f).cell = c}
Resenders(c) == {f \in DOMAIN fetch : fetch[f].pc \in {"resend", "queue again"} /\ Top(f).cell = c}

Hints(c) == {m \in wire : m.code = "provider" /\ m.cell = c}
Found(c) == {m \in wire : m.code = "found" /\ m.cell = c}

Cell(c) == [hot |-> c \in hot, got |-> c \in Got, cell |-> c,
            buffer |-> buffer[c], taken |-> taken[c], chunk |-> chunk[c],
            claim |-> pending[c],
            gets |-> Gets(c), hints |-> Hints(c), found |-> Found(c),
            askers |-> [f \in Askers(c) |-> Top(f)],
            queuers |-> Queuers(c), resenders |-> Resenders(c)]

Alive(v) == v.claim # NoRequest /\ v.claim.left > 0

HasNext(v) == Alive(v) /\ v.claim.next # NoPeer

Claimed(e) == e # NoEntry /\ e.claimed

Unstaged(r) == r.from = NoPeer /\ DOMAIN r.pages = {}

(* A reply of p to a GET of c is on its way, or staged in r. *)
IsReply(k, c, found, r, p) ==
    /\ p \in GoodOf(k)
    /\ \E s \in Seq(Cells) :
          /\ Len(s) \in 1 .. MaxPages /\ s[1] = c
          /\ \A m \in found : m.from = p /\ m.total = Len(s) /\ m.page \in 1 .. Len(s)
                                 /\ m.cells = {s[m.page]}
          /\ \A m, o \in found : m.page = o.page => m = o
          /\ {m.page : m \in found} = (1 .. Len(s)) \ DOMAIN r.pages
          /\ DOMAIN r.pages \subseteq 1 .. Len(s)
          /\ \A n \in DOMAIN r.pages : r.pages[n] = {s[n]}
          /\ Unstaged(r) \/ (r.from = p /\ r.total = Len(s))

Places == {"none", "buffer", "taken", "chunk", "get", "hint", "found", "fetch"}

(* The request under the claim of the cell is at one place. *)
IsAt(k, v, place) ==
    /\ Claimed(v.buffer) <=> place = "buffer"
    /\ Claimed(v.taken) <=> place = "taken"
    /\ v.chunk # NoEntry <=> place = "chunk"
    /\ IF place = "get" THEN \E m : v.gets = {m} ELSE v.gets = {}
    /\ IF place = "hint" THEN \E m : v.hints = {m} ELSE v.hints = {}
    /\ IF place = "fetch" THEN \E f : v.resenders = {f} ELSE v.resenders = {}
    /\ IF place = "found" THEN v.found # {} /\ \E p : IsReply(k, v.cell, v.found, v.claim, p)
       ELSE v.found = {} /\ (Alive(v) => Unstaged(v.claim))
    /\ place # "none" => Alive(v) /\ v.claim.left = Ttl

(* It may be redirected. *)
AtFirst(k, v) ==
    /\ Redirects(k)
    /\ \/ v.chunk # NoEntry /\ v.chunk.to = NearOf(k)
       \/ \E m \in v.gets : m.to = NearOf(k)
       \/ v.hints # {}

Fresh(v) == \A f \in DOMAIN v.askers : v.askers[f].left = Polls

Witness(v) ==
    \E f \in DOMAIN v.askers :
        ~v.askers[f].again /\ (Alive(v) => v.askers[f].left + Ttl <= v.claim.left + Polls)

Patience(k, v, place) ==
    /\ ~v.got =>
          /\ DOMAIN v.askers # {} => v.buffer # NoEntry \/ v.taken # NoEntry \/ Alive(v)
          /\ (v.buffer # NoEntry \/ v.taken # NoEntry) /\ ~Alive(v) => Witness(v)
          /\ AtFirst(k, v) => Witness(v)
          /\ Alive(v) /\ place = "none" => Witness(v) /\ HasNext(v)
          /\ ~Alive(v) \/ AtFirst(k, v) => Fresh(v)
    /\ ~v.hot =>
          /\ HasNext(v) /\ (place # "none" \/ v.buffer # NoEntry \/ v.queuers # {}) => Fresh(v)
          /\ ~Redirects(k) => Fresh(v)

(* Where requests go. *)
Addressed(k, v) ==
    /\ \A e \in {v.buffer, v.taken, v.chunk} :
          e # NoEntry => e.to \in IF e.claimed THEN GoodOf(k) ELSE {FirstAsked(k)}
    /\ \A m \in v.gets : m.to \in GoodOf(k) \/ (m.to = FirstAsked(k) /\ m.to # NoPeer)
    /\ \A m \in v.hints : Redirects(k) /\ m.contacts = ContactsOf(k)
    /\ HasNext(v) => /\ Redirects(k) /\ Len(ContactsOf(k)) > 1
                     /\ v.claim.next = ContactsOf(k)[2]
    /\ v.resenders # {} => v.buffer = NoEntry /\ v.queuers = {}

Typed(v) ==
    /\ v.hot \in BOOLEAN /\ v.got \in BOOLEAN /\ (v.hot => v.got)
    /\ {v.buffer, v.taken, v.chunk} \subseteq Entry \cup {NoEntry}
    /\ v.claim \in Request \cup {NoRequest}
    /\ v.cell \in Cells
    /\ \A f \in DOMAIN v.askers : v.askers[f].left \in Int /\ v.askers[f].again \in BOOLEAN

Sound(k, v) ==
    /\ Typed(v) /\ Addressed(k, v)
    /\ \E place \in Places : IsAt(k, v, place) /\ (Twice(k) => Patience(k, v, place))

-----------------------------------------------------------------------------
(* What may happen to a cell.                                              *)

SameHot(v, w) == w.hot = v.hot /\ w.got = v.got /\ w.cell = v.cell

SameQueues(v, w) == w.buffer = v.buffer /\ w.taken = v.taken /\ w.chunk = v.chunk

SameMail(v, w) == w.gets = v.gets /\ w.hints = v.hints /\ w.found = v.found

SameFetch(v, w) == w.askers = v.askers /\ w.queuers = v.queuers /\ w.resenders = v.resenders

(* A fetcher starts to ask, with the window open. *)
Joins(v, w, f, again) ==
    /\ DOMAIN w.askers = DOMAIN v.askers \cup {f}
    /\ \A g \in DOMAIN v.askers \ {f} : w.askers[g] = v.askers[g]
    /\ w.askers[f].left = Polls /\ w.askers[f].again = again /\ again \in BOOLEAN

Quits(v, w, f) ==
    /\ f \in DOMAIN v.askers
    /\ DOMAIN w.askers = DOMAIN v.askers \ {f}
    /\ \A g \in DOMAIN w.askers : w.askers[g] = v.askers[g]

(* Nothing. *)
LEMMA Unmoved ==
    ASSUME NEW k, NEW v, NEW w, Sound(k, v),
           SameHot(v, w), SameQueues(v, w), SameMail(v, w), SameFetch(v, w), w.claim = v.claim
    PROVE  Sound(k, w)
<1>1. PICK place \in Places : IsAt(k, v, place) /\ (Twice(k) => Patience(k, v, place))
  BY DEF Sound
<1>2. Typed(w) /\ Addressed(k, w)
  BY DEF Sound, Typed, Addressed, HasNext, Alive, SameHot, SameQueues, SameMail, SameFetch
<1>3. IsAt(k, w, place)
  BY <1>1 DEF IsAt, Alive, Unstaged, SameHot, SameQueues, SameMail, SameFetch
<1>4. Patience(k, v, place) => Patience(k, w, place)
  BY DEF Patience, Witness, Fresh, AtFirst, HasNext, Alive, SameHot, SameQueues, SameMail, SameFetch
<1> QED
  BY <1>1, <1>2, <1>3, <1>4 DEF Sound

(* What stays where it is. *)
LEMMA AtSame ==
    ASSUME NEW k, NEW v, NEW w, NEW place, IsAt(k, v, place),
           SameQueues(v, w), SameMail(v, w), w.resenders = v.resenders,
           w.claim = v.claim, w.cell = v.cell
    PROVE  IsAt(k, w, place) /\ (AtFirst(k, w) <=> AtFirst(k, v))
BY DEF IsAt, AtFirst, Alive, Unstaged, SameQueues, SameMail

(* It comes: from now on it does not matter who waits. *)
LEMMA Comes ==
    ASSUME NEW k, NEW v, NEW w, Sound(k, v), w.cell = v.cell,
           SameQueues(v, w), SameMail(v, w), SameFetch(v, w), w.claim = v.claim,
           w.hot \in BOOLEAN, w.got \in BOOLEAN, v.hot => w.hot, v.got => w.got, w.hot => w.got
    PROVE  Sound(k, w)
<1>1. PICK place \in Places : IsAt(k, v, place) /\ (Twice(k) => Patience(k, v, place))
  BY DEF Sound
<1>2. Typed(w) /\ Addressed(k, w)
  BY DEF Sound, Typed, Addressed, HasNext, Alive, SameQueues, SameMail, SameFetch
<1>3. IsAt(k, w, place) /\ (AtFirst(k, w) <=> AtFirst(k, v))
  BY <1>1, AtSame DEF SameFetch
<1>4. Patience(k, v, place) => Patience(k, w, place)
  BY <1>3 DEF Patience, Witness, Fresh, HasNext, Alive, SameQueues, SameFetch, Sound, Typed
<1> QED
  BY <1>1, <1>2, <1>3, <1>4 DEF Sound

(* Who asks for what has come does not matter. *)
LEMMA AskedWhenHot ==
    ASSUME NEW k, NEW v, NEW w, Sound(k, v), v.hot, SameHot(v, w),
           SameQueues(v, w), SameMail(v, w), w.claim = v.claim,
           w.queuers = v.queuers, w.resenders = v.resenders,
           \A f \in DOMAIN w.askers : w.askers[f].left \in Int /\ w.askers[f].again \in BOOLEAN
    PROVE  Sound(k, w)
<1>1. PICK place \in Places : IsAt(k, v, place) /\ (Twice(k) => Patience(k, v, place))
  BY DEF Sound
<1>2. Typed(w) /\ Addressed(k, w)
  BY DEF Sound, Typed, Addressed, HasNext, Alive, SameHot, SameQueues, SameMail
<1>3. IsAt(k, w, place)
  BY <1>1, AtSame DEF SameHot
<1>4. Patience(k, w, place)
  BY DEF Patience, Sound, Typed, SameHot
<1> QED
  BY <1>1, <1>2, <1>3, <1>4 DEF Sound

LEMMA JoinedFresh ==
    ASSUME NEW v, NEW w, NEW f, NEW again, Joins(v, w, f, again), Fresh(v)
    PROVE  Fresh(w)
BY DEF Joins, Fresh

LEMMA JoinedTyped ==
    ASSUME NEW v, NEW w, NEW f, NEW again, Joins(v, w, f, again), Typed(v)
    PROVE  \A g \in DOMAIN w.askers : w.askers[g].left \in Int /\ w.askers[g].again \in BOOLEAN
BY RequestsAssumption DEF Joins, Typed, RequestsAssumption

(* A witness stays a witness when others join. *)
LEMMA JoinedWitness ==
    ASSUME NEW v, NEW w, NEW f, NEW again, Joins(v, w, f, again), f \notin DOMAIN v.askers,
           w.claim = v.claim, Witness(v)
    PROVE  Witness(w)
BY DEF Joins, Witness, Alive

(* One more waits for a request that is under way. *)
LEMMA Joined ==
    ASSUME NEW k, NEW v, NEW w, Sound(k, v), NEW f, NEW again, Joins(v, w, f, again),
           f \notin DOMAIN v.askers, v.buffer # NoEntry \/ Alive(v),
           SameHot(v, w), SameQueues(v, w), SameMail(v, w), w.claim = v.claim,
           w.queuers = v.queuers, w.resenders = v.resenders
    PROVE  Sound(k, w)
<1>1. PICK place \in Places : IsAt(k, v, place) /\ (Twice(k) => Patience(k, v, place))
  BY DEF Sound
<1>2. Typed(w) /\ Addressed(k, w)
  <2>1. \A g \in DOMAIN w.askers : w.askers[g].left \in Int /\ w.askers[g].again \in BOOLEAN
    BY JoinedTyped DEF Sound
  <2> QED
    BY <2>1 DEF Sound, Typed, Addressed, HasNext, Alive, SameHot, SameQueues, SameMail
<1>3. IsAt(k, w, place) /\ (AtFirst(k, w) <=> AtFirst(k, v))
  BY <1>1, AtSame DEF SameHot
<1>4. (Alive(w) <=> Alive(v)) /\ (HasNext(w) <=> HasNext(v))
  BY DEF Alive, HasNext
<1>5. (Fresh(v) => Fresh(w)) /\ (Witness(v) => Witness(w))
  BY JoinedFresh, JoinedWitness
<1>6. Patience(k, v, place) => Patience(k, w, place)
  BY <1>3, <1>4, <1>5 DEF Patience, SameHot, SameQueues
<1> QED
  BY <1>1, <1>2, <1>3, <1>6 DEF Sound

(* A fetcher is about to put a GET into the buffer. *)
LEMMA Queues ==
    ASSUME NEW k, NEW v, NEW w, Sound(k, v), v.buffer = NoEntry, ~Alive(v),
           SameHot(v, w), SameQueues(v, w), SameMail(v, w), w.claim = v.claim,
           w.askers = v.askers, w.resenders = v.resenders
    PROVE  Sound(k, w)
<1>1. PICK place \in Places : IsAt(k, v, place) /\ (Twice(k) => Patience(k, v, place))
  BY DEF Sound
<1>2. place = "none" /\ v.resenders = {}
  BY <1>1 DEF IsAt
<1>3. Typed(w) /\ Addressed(k, w)
  BY <1>2 DEF Sound, Typed, Addressed, HasNext, Alive, SameHot, SameQueues, SameMail
<1>4. IsAt(k, w, place) /\ (AtFirst(k, w) <=> AtFirst(k, v))
  BY <1>1, AtSame DEF SameHot
<1>5. Patience(k, v, place) => Patience(k, w, place)
  BY <1>2, <1>4 DEF Patience, Witness, Fresh, HasNext, Alive, SameHot, SameQueues
<1> QED
  BY <1>1, <1>3, <1>4, <1>5 DEF Sound

(* It puts it there, unless there is one, and asks. *)
LEMMA Enqueued ==
    ASSUME NEW k, NEW v, NEW w, Sound(k, v), NEW f \in v.queuers, f \notin DOMAIN v.askers,
           NEW e \in Entry, ~e.claimed, e.to = FirstAsked(k),
           w.buffer = IF v.buffer = NoEntry THEN e ELSE v.buffer,
           w.taken = v.taken, w.chunk = v.chunk, Joins(v, w, f, FALSE),
           SameHot(v, w), SameMail(v, w), w.claim = v.claim,
           w.queuers = v.queuers \ {f}, w.resenders = v.resenders
    PROVE  Sound(k, w)
<1>1. PICK place \in Places : IsAt(k, v, place) /\ (Twice(k) => Patience(k, v, place))
  BY DEF Sound
<1>2. v.resenders = {} /\ e # NoEntry
  BY RequestsAssumption DEF Sound, Addressed, RequestsAssumption
<1>3. Typed(w) /\ Addressed(k, w)
  <2>1. \A g \in DOMAIN w.askers : w.askers[g].left \in Int /\ w.askers[g].again \in BOOLEAN
    BY JoinedTyped DEF Sound
  <2>2. Typed(w)
    BY <2>1 DEF Sound, Typed, SameHot
  <2> QED
    BY <1>2, <2>2 DEF Sound, Addressed, HasNext, Alive, SameMail
<1>4. IsAt(k, w, place)
  BY <1>1, <1>2 DEF IsAt, Alive, Claimed, SameHot, SameMail
<1>5. /\ (Alive(w) <=> Alive(v)) /\ (HasNext(w) <=> HasNext(v))
      /\ AtFirst(k, w) <=> AtFirst(k, v)
  BY DEF Alive, HasNext, AtFirst, SameMail
<1>6. (Fresh(v) => Fresh(w)) /\ (Witness(v) => Witness(w))
  BY JoinedFresh, JoinedWitness
<1>7. ~Alive(v) => Witness(w)
  BY <1>5 DEF Witness, Joins
<1>8. Patience(k, v, place) => Patience(k, w, place)
  BY <1>2, <1>5, <1>6, <1>7 DEF Patience, SameHot
<1> QED
  BY <1>1, <1>3, <1>4, <1>8 DEF Sound

(* The GET to the second provider goes into the buffer. *)
LEMMA EnqueuedAgain ==
    ASSUME NEW k, NEW v, NEW w, Sound(k, v), NEW f \in v.resenders, f \notin DOMAIN v.askers,
           NEW e \in Entry, e.claimed, e.to \in GoodOf(k),
           w.buffer = IF v.buffer = NoEntry THEN e ELSE v.buffer,
           w.taken = v.taken, w.chunk = v.chunk, Joins(v, w, f, TRUE),
           SameHot(v, w), SameMail(v, w), w.claim = v.claim,
           w.queuers = v.queuers, w.resenders = v.resenders \ {f}
    PROVE  Sound(k, w)
<1>1. PICK place \in Places : IsAt(k, v, place) /\ (Twice(k) => Patience(k, v, place))
  BY DEF Sound
<1>2. place = "fetch" /\ v.resenders = {f} /\ v.buffer = NoEntry /\ v.queuers = {}
  BY <1>1 DEF Sound, Addressed, IsAt
<1>3. w.resenders = {} /\ w.buffer = e /\ e # NoEntry
  BY <1>2, RequestsAssumption DEF RequestsAssumption
<1>4. Typed(w) /\ Addressed(k, w)
  <2>1. \A g \in DOMAIN w.askers : w.askers[g].left \in Int /\ w.askers[g].again \in BOOLEAN
    BY JoinedTyped DEF Sound
  <2>2. Typed(w)
    BY <1>3, <2>1 DEF Sound, Typed, SameHot
  <2> QED
    BY <1>3, <2>2 DEF Sound, Addressed, HasNext, Alive, SameMail
<1>5. IsAt(k, w, "buffer")
  BY <1>1, <1>2, <1>3 DEF IsAt, Alive, Claimed, SameHot, SameMail
<1>6. /\ (Alive(w) <=> Alive(v)) /\ (HasNext(w) <=> HasNext(v))
      /\ AtFirst(k, w) <=> AtFirst(k, v)
  BY DEF Alive, HasNext, AtFirst, SameMail
<1>7. (Fresh(v) => Fresh(w)) /\ (Witness(v) => Witness(w)) /\ Alive(v)
  BY <1>1, <1>2, JoinedFresh, JoinedWitness DEF IsAt
<1>8. Patience(k, v, "fetch") => Patience(k, w, "buffer")
  BY <1>2, <1>3, <1>6, <1>7 DEF Patience, SameHot
<1> QED
  BY <1>1, <1>2, <1>4, <1>5, <1>8 DEF Sound, Places

(* The window of a fetch is over, and it knows of no second provider or    *)
(* has asked it.                                                           *)
LEMMA GivenUp ==
    ASSUME NEW k, NEW v, NEW w, Sound(k, v), IsCalm(k), NEW f, Quits(v, w, f), ~v.hot,
           v.askers[f].left <= 0, v.askers[f].again \/ ~HasNext(v),
           SameHot(v, w), SameQueues(v, w), SameMail(v, w), w.claim = v.claim,
           w.queuers = v.queuers, w.resenders = v.resenders
    PROVE  Sound(k, w)
<1>1. PICK place \in Places : IsAt(k, v, place) /\ (Twice(k) => Patience(k, v, place))
  BY DEF Sound
<1>2. Typed(w) /\ Addressed(k, w)
  BY DEF Sound, Typed, Addressed, HasNext, Alive, SameHot, SameQueues, SameMail, Quits
<1>3. IsAt(k, w, place) /\ (AtFirst(k, w) <=> AtFirst(k, v))
  BY <1>1, AtSame DEF SameHot
<1>4. (Alive(w) <=> Alive(v)) /\ (HasNext(w) <=> HasNext(v)) /\ (Fresh(v) => Fresh(w))
  BY DEF Alive, HasNext, Fresh, Quits
<1>5. ~Fresh(v)
  BY RequestsAssumption DEF Fresh, Quits, RequestsAssumption
<1>6. Witness(v) /\ v.askers[f].again => Witness(w)
  BY DEF Witness, Alive, Quits
<1>7. Patience(k, v, place) => Patience(k, w, place)
  BY <1>3, <1>4, <1>5, <1>6 DEF Patience, SameHot, SameQueues, Quits
<1> QED
  BY <1>1, <1>2, <1>3, <1>7 DEF Sound

(* A claim with other times and providers. *)
IsRenewed(r, w, next, left) ==
    /\ w \in Request /\ w # NoRequest
    /\ w.next = next /\ w.left = left
    /\ w.from = r.from /\ w.pages = r.pages /\ w.total = r.total

(* The window is over and there is a second provider: nothing is under way *)
(* for the cell.                                                           *)
LEMMA Resent ==
    ASSUME NEW k, NEW v, NEW w, Sound(k, v), NEW f, Quits(v, w, f), ~v.hot,
           v.askers[f].left <= 0, ~v.askers[f].again, HasNext(v),
           SameHot(v, w), SameQueues(v, w), SameMail(v, w),
           IsRenewed(v.claim, w.claim, NoPeer, Ttl),
           w.queuers = v.queuers, w.resenders = v.resenders \cup {f}
    PROVE  Sound(k, w)
<1>1. PICK place \in Places : IsAt(k, v, place) /\ (Twice(k) => Patience(k, v, place))
  BY DEF Sound
<1>2. Twice(k) /\ Alive(v) /\ v.claim \in Request
  BY DEF Sound, Typed, Addressed, Twice, HasNext, Alive
<1>3. ~Fresh(v)
  BY RequestsAssumption DEF Fresh, Quits, RequestsAssumption
<1>4. place = "none" /\ v.buffer = NoEntry /\ v.queuers = {}
  BY <1>1, <1>2, <1>3 DEF Patience
<1>5. /\ w.claim \in Request /\ w.claim # NoRequest
      /\ w.claim.left = Ttl /\ w.claim.next = NoPeer /\ Ttl \in Nat \ {0}
      /\ w.claim.from = v.claim.from /\ w.claim.pages = v.claim.pages
  BY RequestsAssumption DEF IsRenewed, RequestsAssumption
<1>6. Alive(w) /\ ~HasNext(w)
  BY <1>5 DEF Alive, HasNext
<1>7. v.resenders = {} /\ w.resenders = {f}
  BY <1>1, <1>4 DEF IsAt
<1>8. Typed(w) /\ Addressed(k, w)
  <2>1. Typed(w)
    BY <1>5 DEF Sound, Typed, SameHot, SameQueues, Quits
  <2> QED
    BY <2>1, <1>4, <1>6 DEF Sound, Addressed, SameQueues, SameMail
<1>9. IsAt(k, w, "fetch") /\ ~AtFirst(k, w)
  BY <1>1, <1>2, <1>4, <1>5, <1>6, <1>7 DEF IsAt, AtFirst, Unstaged, SameQueues, SameMail
<1>10. Patience(k, w, "fetch")
  <2>1. ~Redirects(k) => Fresh(w)
    BY <1>1, <1>2, <1>3 DEF Patience
  <2> QED
    BY <2>1, <1>6, <1>9 DEF Patience
<1> QED
  BY <1>8, <1>9, <1>10 DEF Sound, Places

(* The buffer is taken. *)
LEMMA TakenAll ==
    ASSUME NEW k, NEW v, NEW w, Sound(k, v), v.taken = NoEntry, v.chunk = NoEntry,
           w.taken = v.buffer, w.buffer = NoEntry, w.chunk = NoEntry,
           SameHot(v, w), SameMail(v, w), SameFetch(v, w), w.claim = v.claim
    PROVE  Sound(k, w)
<1>1. PICK place \in Places : IsAt(k, v, place) /\ (Twice(k) => Patience(k, v, place))
  BY DEF Sound
<1> DEFINE new == IF place = "buffer" THEN "taken" ELSE place
<1>2. Typed(w) /\ Addressed(k, w)
  BY DEF Sound, Typed, Addressed, HasNext, Alive, SameHot, SameMail, SameFetch
<1>3. /\ (Alive(w) <=> Alive(v)) /\ (HasNext(w) <=> HasNext(v))
      /\ (Fresh(v) <=> Fresh(w)) /\ (Witness(v) <=> Witness(w))
      /\ AtFirst(k, w) <=> AtFirst(k, v)
  BY DEF Alive, HasNext, Fresh, Witness, AtFirst, SameMail, SameFetch
<1>4. IsAt(k, w, new)
  BY <1>1 DEF IsAt, Alive, Claimed, SameHot, SameMail, SameFetch
<1>5. new = "none" <=> place = "none"
  OBVIOUS
<1> HIDE DEF new
<1>6. Patience(k, v, place) => Patience(k, w, new)
  BY <1>3, <1>5 DEF Patience, SameHot, SameFetch
<1>7. new \in Places
  BY DEF new, Places
<1> QED
  BY <1>1, <1>2, <1>4, <1>6, <1>7 DEF Sound

(* A GET that waited in the buffer under the claim of the cell goes on. *)
LEMMA AdmittedAgain ==
    ASSUME NEW k, NEW v, NEW w, Sound(k, v), Claimed(v.taken),
           w.chunk = v.taken, w.taken = NoEntry, w.buffer = v.buffer,
           SameHot(v, w), SameMail(v, w), SameFetch(v, w), w.claim = v.claim
    PROVE  Sound(k, w)
<1>1. PICK place \in Places : IsAt(k, v, place) /\ (Twice(k) => Patience(k, v, place))
  BY DEF Sound
<1>2. place = "taken" /\ Alive(v) /\ w.chunk # NoEntry
  BY <1>1 DEF IsAt, Claimed
<1>3. Typed(w) /\ Addressed(k, w)
  BY <1>2 DEF Sound, Typed, Addressed, HasNext, Alive, SameHot, SameMail, SameFetch
<1>4. /\ (Alive(w) <=> Alive(v)) /\ (HasNext(w) <=> HasNext(v))
      /\ (Fresh(v) <=> Fresh(w)) /\ (Witness(v) <=> Witness(w))
  BY DEF Alive, HasNext, Fresh, Witness, SameFetch
<1>5. ~AtFirst(k, w)
  <2>1. Redirects(k) => NearOf(k) \notin GoodOf(k)
    BY DEF Sound, Typed, GoodOf, Redirects
  <2>2. w.chunk.to \in GoodOf(k)
    BY DEF Sound, Addressed, Claimed
  <2> QED
    BY <1>1, <1>2, <2>1, <2>2 DEF AtFirst, IsAt, SameMail
<1>6. IsAt(k, w, "chunk")
  BY <1>1, <1>2 DEF IsAt, Alive, Claimed, Unstaged, SameHot, SameMail, SameFetch
<1>7. Patience(k, v, "taken") => Patience(k, w, "chunk")
  BY <1>2, <1>4, <1>5 DEF Patience, SameHot, SameFetch
<1> QED
  BY <1>1, <1>2, <1>3, <1>6, <1>7 DEF Sound, Places

IsNewClaim(w) ==
    /\ w \in Request /\ w # NoRequest
    /\ w.next = NoPeer /\ w.left = Ttl /\ Unstaged(w)

(* One that makes its claim. *)
LEMMA AdmittedFirst ==
    ASSUME NEW k, NEW v, NEW w, Sound(k, v), v.taken # NoEntry, ~v.taken.claimed, ~Alive(v),
           w.chunk = v.taken, w.taken = NoEntry, w.buffer = v.buffer,
           SameHot(v, w), SameMail(v, w), SameFetch(v, w), IsNewClaim(w.claim)
    PROVE  Sound(k, w)
<1>1. PICK place \in Places : IsAt(k, v, place) /\ (Twice(k) => Patience(k, v, place))
  BY DEF Sound
<1>2. place = "none" /\ v.buffer = w.buffer
  BY <1>1 DEF IsAt
<1>3. /\ Alive(w) /\ ~HasNext(w) /\ w.claim.left = Ttl /\ Unstaged(w.claim)
      /\ Ttl \in Nat \ {0} /\ Polls \in Nat \ {0}
  BY RequestsAssumption DEF Alive, HasNext, IsNewClaim, RequestsAssumption
<1>4. Typed(w) /\ Addressed(k, w)
  <2>1. Typed(w)
    BY <1>2 DEF Sound, Typed, SameHot, SameFetch, IsNewClaim
  <2> QED
    BY <1>3, <2>1 DEF Sound, Addressed, SameMail, SameFetch
<1>5. IsAt(k, w, "chunk")
  BY <1>1, <1>2, <1>3 DEF IsAt, Claimed, SameHot, SameMail, SameFetch
<1>6. Fresh(v) <=> Fresh(w)
  BY DEF Fresh, SameFetch
<1>7. Witness(v) /\ Fresh(v) => Witness(w)
  BY <1>3 DEF Witness, Fresh, SameFetch
<1>8. Patience(k, v, "none") => Patience(k, w, "chunk")
  BY <1>3, <1>6, <1>7 DEF Patience, SameHot, SameFetch
<1> QED
  BY <1>1, <1>2, <1>4, <1>5, <1>8 DEF Sound, Places

(* One that finds a claim is dropped. *)
LEMMA Dropped ==
    ASSUME NEW k, NEW v, NEW w, Sound(k, v), v.taken # NoEntry, ~v.taken.claimed, Alive(v),
           w.chunk = v.chunk, w.taken = NoEntry, w.buffer = v.buffer,
           SameHot(v, w), SameMail(v, w), SameFetch(v, w), w.claim = v.claim
    PROVE  Sound(k, w)
<1>1. PICK place \in Places : IsAt(k, v, place) /\ (Twice(k) => Patience(k, v, place))
  BY DEF Sound
<1>2. Typed(w) /\ Addressed(k, w)
  BY DEF Sound, Typed, Addressed, HasNext, Alive, SameHot, SameMail, SameFetch
<1>3. /\ Alive(w) /\ (HasNext(w) <=> HasNext(v))
      /\ (Fresh(v) <=> Fresh(w)) /\ (Witness(v) <=> Witness(w))
      /\ AtFirst(k, w) <=> AtFirst(k, v)
  BY DEF Alive, HasNext, Fresh, Witness, AtFirst, SameMail, SameFetch
<1>4. IsAt(k, w, place)
  BY <1>1 DEF IsAt, Alive, Claimed, Unstaged, SameHot, SameMail, SameFetch
<1>5. Patience(k, v, place) => Patience(k, w, place)
  BY <1>3 DEF Patience, SameHot, SameFetch
<1> QED
  BY <1>1, <1>2, <1>4, <1>5 DEF Sound

(* It is sent. *)
LEMMA Sent ==
    ASSUME NEW k, NEW v, NEW w, Sound(k, v), v.chunk # NoEntry, w.chunk = NoEntry,
           w.buffer = v.buffer, w.taken = v.taken,
           NEW m, m.to = v.chunk.to, w.gets = {m}, w.hints = v.hints, w.found = v.found,
           SameHot(v, w), SameFetch(v, w), w.claim = v.claim
    PROVE  Sound(k, w)
<1>1. PICK place \in Places : IsAt(k, v, place) /\ (Twice(k) => Patience(k, v, place))
  BY DEF Sound
<1>2. place = "chunk" /\ Alive(v)
  BY <1>1 DEF IsAt
<1>3. m.to \in GoodOf(k) \/ (m.to = FirstAsked(k) /\ m.to # NoPeer)
  <2>1. v.chunk \in Entry
    BY DEF Sound, Typed
  <2>2. m.to \in Peers /\ m.to # NoPeer
    BY <2>1, RequestsAssumption DEF Entry, RequestsAssumption
  <2> QED
    BY <2>2 DEF Sound, Addressed
<1>4. Typed(w) /\ Addressed(k, w)
  BY <1>3 DEF Sound, Typed, Addressed, HasNext, Alive, SameHot, SameFetch
<1>5. /\ (Alive(w) <=> Alive(v)) /\ (HasNext(w) <=> HasNext(v))
      /\ (Fresh(v) <=> Fresh(w)) /\ (Witness(v) <=> Witness(w))
  BY DEF Alive, HasNext, Fresh, Witness, SameFetch
<1>6. AtFirst(k, w) => AtFirst(k, v)
  BY DEF AtFirst
<1>7. IsAt(k, w, "get")
  BY <1>1, <1>2 DEF IsAt, Alive, Claimed, Unstaged, SameHot, SameFetch
<1>8. Patience(k, v, "chunk") => Patience(k, w, "get")
  BY <1>2, <1>5, <1>6 DEF Patience, SameHot, SameFetch
<1> QED
  BY <1>1, <1>2, <1>4, <1>7, <1>8 DEF Sound, Places

(* A provider answers with the pages. *)
LEMMA Paged ==
    ASSUME NEW k, NEW v, NEW w, Sound(k, v), NEW m, m \in v.gets, NEW p,
           w.gets = {}, w.hints = v.hints, w.found # {},
           IsReply(k, v.cell, w.found, v.claim, p),
           SameHot(v, w), SameQueues(v, w), SameFetch(v, w), w.claim = v.claim
    PROVE  Sound(k, w)
<1>1. PICK place \in Places : IsAt(k, v, place) /\ (Twice(k) => Patience(k, v, place))
  BY DEF Sound
<1>2. place = "get" /\ Alive(v)
  BY <1>1 DEF IsAt
<1>3. Typed(w) /\ Addressed(k, w)
  BY DEF Sound, Typed, Addressed, HasNext, Alive, SameHot, SameFetch, SameQueues
<1>4. /\ (Alive(w) <=> Alive(v)) /\ (HasNext(w) <=> HasNext(v))
      /\ (Fresh(v) <=> Fresh(w)) /\ (Witness(v) <=> Witness(w))
  BY DEF Alive, HasNext, Fresh, Witness, SameFetch
<1>5. IsAt(k, w, "found") /\ ~AtFirst(k, w)
  BY <1>1, <1>2 DEF IsAt, AtFirst, Alive, Claimed, SameHot, SameFetch, SameQueues
<1>6. Patience(k, v, "get") => Patience(k, w, "found")
  BY <1>2, <1>4, <1>5 DEF Patience, SameHot, SameFetch, SameQueues
<1> QED
  BY <1>1, <1>2, <1>3, <1>5, <1>6 DEF Sound, Places

(* The peer that is asked first names others. *)
LEMMA Redirected ==
    ASSUME NEW k, NEW v, NEW w, Sound(k, v), NEW m, m \in v.gets, m.to = NearOf(k), Redirects(k),
           NEW h, h.contacts = ContactsOf(k),
           w.gets = {}, w.hints = {h}, w.found = v.found,
           SameHot(v, w), SameQueues(v, w), SameFetch(v, w), w.claim = v.claim
    PROVE  Sound(k, w)
<1>1. PICK place \in Places : IsAt(k, v, place) /\ (Twice(k) => Patience(k, v, place))
  BY DEF Sound
<1>2. place = "get" /\ Alive(v)
  BY <1>1 DEF IsAt
<1>3. Typed(w) /\ Addressed(k, w)
  BY DEF Sound, Typed, Addressed, HasNext, Alive, SameHot, SameFetch, SameQueues
<1>4. /\ (Alive(w) <=> Alive(v)) /\ (HasNext(w) <=> HasNext(v))
      /\ (Fresh(v) <=> Fresh(w)) /\ (Witness(v) <=> Witness(w))
      /\ AtFirst(k, v)
  BY DEF Alive, HasNext, Fresh, Witness, AtFirst, SameFetch
<1>5. IsAt(k, w, "hint")
  BY <1>1, <1>2 DEF IsAt, Alive, Claimed, Unstaged, SameHot, SameFetch, SameQueues
<1>6. Patience(k, v, "get") => Patience(k, w, "hint")
  BY <1>2, <1>4, <1>5 DEF Patience, SameHot, SameFetch, SameQueues
<1> QED
  BY <1>1, <1>2, <1>3, <1>5, <1>6 DEF Sound, Places

(* The claim r becomes q when the page m is staged. *)
IsStaged(r, q, m) ==
    /\ q \in Request /\ q # NoRequest
    /\ q.from = m.from /\ q.total = m.total /\ q.left = Ttl /\ q.next = r.next
    /\ DOMAIN q.pages = DOMAIN r.pages \cup {m.page}
    /\ \A n \in DOMAIN q.pages : q.pages[n] = IF n = m.page THEN m.cells ELSE r.pages[n]

(* Every page fits, and what is not staged is on its way. *)
LEMMA PageFits ==
    ASSUME NEW k, NEW c, NEW found, NEW r \in Request, NEW p, IsReply(k, c, found, r, p),
           NEW m \in found
    PROVE  /\ Fits(r, m) /\ m.from \in Peers /\ m.total \in 1 .. MaxPages
           /\ m.page \in 1 .. MaxPages /\ m.cells \subseteq Cells
<1>1. PICK s \in Seq(Cells) :
          /\ Len(s) \in 1 .. MaxPages /\ s[1] = c
          /\ \A n \in found : n.from = p /\ n.total = Len(s) /\ n.page \in 1 .. Len(s)
                                 /\ n.cells = {s[n.page]}
          /\ \A n, o \in found : n.page = o.page => n = o
          /\ {n.page : n \in found} = (1 .. Len(s)) \ DOMAIN r.pages
          /\ DOMAIN r.pages \subseteq 1 .. Len(s)
          /\ \A n \in DOMAIN r.pages : r.pages[n] = {s[n]}
          /\ Unstaged(r) \/ (r.from = p /\ r.total = Len(s))
  BY DEF IsReply
<1>2. m.from = p /\ m.total = Len(s) /\ m.page \in 1 .. Len(s) /\ m.cells = {s[m.page]}
  BY <1>1
<1>3. p \in Peers
  BY DEF IsReply, GoodOf
<1>4. m.page \notin DOMAIN r.pages
  BY <1>1
<1>5. MaxPages \in Nat /\ Len(s) \in Nat /\ NoPeer \notin Peers
  BY <1>1, RequestsAssumption DEF RequestsAssumption
<1>6. m.page \in 1 .. MaxPages /\ m.total \in 1 .. MaxPages
  BY <1>1, <1>2, <1>5
<1>7. m.cells \subseteq Cells
  BY <1>1, <1>2
<1>8. Fits(r, m)
  BY <1>1, <1>2, <1>3, <1>4, <1>5, <1>6 DEF Fits, Unstaged
<1> QED
  BY <1>2, <1>3, <1>6, <1>7, <1>8

(* The last page is staged when all are. *)
LEMMA PageStaged ==
    ASSUME NEW k, NEW c, NEW found, NEW r, NEW p, IsReply(k, c, found, r, p),
           NEW m \in found, NEW q, IsStaged(r, q, m)
    PROVE  /\ IsReply(k, c, found \ {m}, q, p)
           /\ IsComplete(q) => found \ {m} = {} /\ c \in Delivered(q)
           /\ ~IsComplete(q) => found \ {m} # {}
<1>1. PICK s \in Seq(Cells) :
          /\ Len(s) \in 1 .. MaxPages /\ s[1] = c
          /\ \A n \in found : n.from = p /\ n.total = Len(s) /\ n.page \in 1 .. Len(s)
                                 /\ n.cells = {s[n.page]}
          /\ \A n, o \in found : n.page = o.page => n = o
          /\ {n.page : n \in found} = (1 .. Len(s)) \ DOMAIN r.pages
          /\ DOMAIN r.pages \subseteq 1 .. Len(s)
          /\ \A n \in DOMAIN r.pages : r.pages[n] = {s[n]}
          /\ Unstaged(r) \/ (r.from = p /\ r.total = Len(s))
  BY DEF IsReply
<1> DEFINE rest == found \ {m}
           D == DOMAIN q.pages
<1>2. /\ \A n \in rest : n.from = p /\ n.total = Len(s) /\ n.page \in 1 .. Len(s)
                            /\ n.cells = {s[n.page]}
      /\ \A n, o \in rest : n.page = o.page => n = o
  BY <1>1
<1>3. /\ D = DOMAIN r.pages \cup {m.page} /\ D \subseteq 1 .. Len(s)
      /\ q.from = p /\ q.total = Len(s)
  BY <1>1 DEF IsStaged
<1>4. \A n \in D : q.pages[n] = {s[n]}
  BY <1>1, <1>3 DEF IsStaged
<1>5. {n.page : n \in rest} = (1 .. Len(s)) \ D
  <2>1. ASSUME NEW n \in rest PROVE n.page \in (1 .. Len(s)) \ D
    BY <1>1, <1>3
  <2>2. ASSUME NEW i \in (1 .. Len(s)) \ D PROVE \E n \in rest : n.page = i
    BY <1>1, <1>3
  <2> QED
    BY <2>1, <2>2
<1>6. IsReply(k, c, rest, q, p)
  BY <1>1, <1>2, <1>3, <1>4, <1>5 DEF IsReply
<1>7. IsComplete(q) <=> D = 1 .. Len(s)
  <2>1. Len(s) \in Nat /\ IsFiniteSet(1 .. Len(s)) /\ Cardinality(1 .. Len(s)) = Len(s)
    BY <1>1, FS_Interval
  <2>2. D = 1 .. Len(s) => Cardinality(D) = Len(s)
    BY <2>1
  <2>3. D # 1 .. Len(s) => Cardinality(D) # Len(s)
    <3>1. D \in SUBSET (1 .. Len(s))
      BY <1>3
    <3> HIDE DEF D
    <3> QED
      BY <2>1, <3>1, FS_Subset
  <2>4. IsFiniteSet(D) /\ Cardinality(D) \in Nat
    BY <2>1, <1>3, FS_Subset, FS_CardinalityType
  <2> QED
    BY <2>1, <2>2, <2>3, <2>4, <1>3 DEF IsComplete
<1>8. 1 \in 1 .. Len(s)
  BY <1>1
<1>9. D = 1 .. Len(s) => rest = {} /\ c \in Delivered(q)
  <2>1. D = 1 .. Len(s) => q.pages[1] = {c}
    BY <1>1, <1>4, <1>8
  <2> QED
    BY <1>5, <1>8, <2>1 DEF Delivered
<1>10. D # 1 .. Len(s) => rest # {}
  BY <1>3, <1>5
<1> QED
  BY <1>6, <1>7, <1>9, <1>10

(* A page comes that is not the last. *)
LEMMA Staging1 ==
    ASSUME NEW k, NEW v, NEW w, Sound(k, v), NEW m \in v.found,
           IsStaged(v.claim, w.claim, m), ~IsComplete(w.claim), w.found = v.found \ {m},
           w.gets = v.gets, w.hints = v.hints,
           SameHot(v, w), SameQueues(v, w), SameFetch(v, w)
    PROVE  Sound(k, w)
<1>1. PICK place \in Places : IsAt(k, v, place) /\ (Twice(k) => Patience(k, v, place))
  BY DEF Sound
<1>2. place = "found" /\ Alive(v) /\ v.claim.left = Ttl
  BY <1>1 DEF IsAt
<1>3. /\ w.claim.left = Ttl /\ w.claim # NoRequest /\ w.claim.next = v.claim.next
      /\ Ttl \in Nat \ {0}
  BY RequestsAssumption DEF IsStaged, RequestsAssumption
<1>4. /\ Alive(w) /\ (HasNext(w) <=> HasNext(v))
      /\ (Fresh(v) <=> Fresh(w)) /\ (Witness(v) <=> Witness(w))
  BY <1>2, <1>3 DEF Alive, HasNext, Fresh, Witness, SameFetch
<1>5. Typed(w) /\ Addressed(k, w)
  <2>1. Typed(w)
    BY DEF Sound, Typed, SameHot, SameFetch, SameQueues, IsStaged
  <2> QED
    BY <1>3, <1>4, <2>1 DEF Sound, Addressed, SameFetch, SameQueues
<1>6. w.found # {} /\ \E p : IsReply(k, w.cell, w.found, w.claim, p)
  <2>1. PICK p : IsReply(k, v.cell, v.found, v.claim, p)
    BY <1>1, <1>2 DEF IsAt
  <2> DEFINE c == v.cell
             found == v.found
             r == v.claim
             q == w.claim
  <2>2. IsReply(k, c, found, r, p) /\ m \in found /\ IsStaged(r, q, m) /\ ~IsComplete(q)
    BY <2>1
  <2> HIDE DEF c, found, r, q
  <2>3. IsReply(k, c, found \ {m}, q, p) /\ found \ {m} # {}
    BY <2>2, PageStaged
  <2> QED
    BY <2>3 DEF c, found, q, SameHot
<1>7. IsAt(k, w, "found") /\ ~AtFirst(k, w)
  BY <1>1, <1>2, <1>3, <1>4, <1>6 DEF IsAt, AtFirst, SameFetch, SameQueues
<1>8. Patience(k, v, "found") => Patience(k, w, "found")
  BY <1>2, <1>4, <1>7 DEF Patience, SameHot, SameFetch, SameQueues
<1> QED
  BY <1>1, <1>2, <1>5, <1>7, <1>8 DEF Sound, Places

(* The last page takes the claim away; the cell is on its way to the       *)
(* storage.                                                                *)
LEMMA Completed ==
    ASSUME NEW k, NEW v, NEW w, Sound(k, v), NEW m \in v.found,
           w.claim = NoRequest, w.found = {}, w.got, w.got \in BOOLEAN, w.hot = v.hot, w.cell = v.cell,
           w.gets = v.gets, w.hints = v.hints, SameQueues(v, w), SameFetch(v, w)
    PROVE  Sound(k, w)
<1>1. PICK place \in Places : IsAt(k, v, place) /\ (Twice(k) => Patience(k, v, place))
  BY DEF Sound
<1>2. place = "found"
  BY <1>1 DEF IsAt
<1>3. ~Alive(w) /\ ~HasNext(w) /\ (Fresh(v) <=> Fresh(w))
  BY DEF Alive, HasNext, Fresh, SameFetch
<1>4. Typed(w) /\ Addressed(k, w)
  BY <1>3 DEF Sound, Typed, Addressed, SameFetch, SameQueues
<1>5. IsAt(k, w, "none") /\ ~AtFirst(k, w)
  BY <1>1, <1>2, <1>3 DEF IsAt, AtFirst, SameFetch, SameQueues
<1>6. Patience(k, v, "found") => Patience(k, w, "none")
  BY <1>3, <1>5 DEF Patience
<1> QED
  BY <1>1, <1>2, <1>4, <1>5, <1>6 DEF Sound, Places

(* A redirection comes: the first of the others is asked under the claim,  *)
(* unless a GET is waiting; the second is kept with it.                    *)
LEMMA Hinted ==
    ASSUME NEW k, NEW v, NEW w, Sound(k, v), IsCalm(k), NEW m \in v.hints, v.got => v.hot,
           NEW e \in Entry, e.claimed, e.to = m.contacts[1],
           w.buffer = IF v.buffer = NoEntry THEN e ELSE v.buffer,
           w.taken = v.taken, w.chunk = v.chunk,
           IF Len(m.contacts) > 1 THEN IsRenewed(v.claim, w.claim, m.contacts[2], v.claim.left)
           ELSE w.claim = v.claim,
           w.hints = v.hints \ {m}, w.gets = v.gets, w.found = v.found,
           SameHot(v, w), SameFetch(v, w)
    PROVE  Sound(k, w)
<1>1. PICK place \in Places : IsAt(k, v, place) /\ (Twice(k) => Patience(k, v, place))
  BY DEF Sound
<1>2. /\ place = "hint" /\ Alive(v) /\ v.claim.left = Ttl /\ v.hints = {m} /\ w.hints = {}
      /\ v.found = {} /\ v.gets = {} /\ v.resenders = {} /\ v.chunk = NoEntry
      /\ ~Claimed(v.buffer) /\ ~Claimed(v.taken) /\ Unstaged(v.claim)
  BY <1>1 DEF IsAt
<1>3. /\ Redirects(k) /\ m.contacts = ContactsOf(k) /\ e # NoEntry
      /\ ContactsOf(k) \in Seq(Peers) /\ e.to \in GoodOf(k) /\ NoPeer \notin Peers
  BY RequestsAssumption DEF Sound, Addressed, IsCalm, RequestsAssumption
<1>4. /\ Alive(w) /\ w.claim \in Request /\ w.claim.left = Ttl /\ Unstaged(w.claim)
      /\ Len(ContactsOf(k)) > 1 => HasNext(w) /\ w.claim.next = ContactsOf(k)[2]
      /\ Len(ContactsOf(k)) <= 1 => (HasNext(w) <=> HasNext(v)) /\ w.claim = v.claim
  <2>1. CASE Len(m.contacts) > 1
    <3>1. ContactsOf(k)[2] \in Peers
      BY <1>3, <2>1
    <3>2. IsRenewed(v.claim, w.claim, m.contacts[2], v.claim.left)
      BY <2>1
    <3>3. /\ w.claim \in Request /\ w.claim # NoRequest /\ w.claim.left = v.claim.left
          /\ w.claim.next = m.contacts[2] /\ w.claim.next \in Peers
          /\ w.claim.from = v.claim.from /\ w.claim.pages = v.claim.pages
      BY <1>3, <3>1, <3>2 DEF IsRenewed
    <3> QED
      BY <1>2, <1>3, <2>1, <3>3, RequestsAssumption DEF Alive, HasNext, Unstaged, RequestsAssumption
  <2>2. CASE ~(Len(m.contacts) > 1)
    BY <1>2, <1>3, <2>2 DEF Alive, HasNext, Sound, Typed
  <2> QED
    BY <2>1, <2>2
<1>5. Typed(w) /\ Addressed(k, w)
  <2>1. Typed(w)
    BY <1>4 DEF Sound, Typed, SameHot, SameFetch
  <2>2. \A x \in {w.buffer, w.taken, w.chunk} :
            x # NoEntry => x.to \in IF x.claimed THEN GoodOf(k) ELSE {FirstAsked(k)}
    BY <1>3 DEF Sound, Addressed
  <2>3. HasNext(w) => /\ Redirects(k) /\ Len(ContactsOf(k)) > 1
                      /\ w.claim.next = ContactsOf(k)[2]
    <3>1. Len(ContactsOf(k)) \in Nat
      BY <1>3
    <3> QED
      BY <1>3, <1>4, <3>1 DEF Sound, Addressed
  <2> QED
    BY <1>2, <2>1, <2>2, <2>3 DEF Sound, Addressed, SameFetch
<1> DEFINE new == IF v.buffer = NoEntry THEN "buffer" ELSE "none"
<1>6. IsAt(k, w, new) /\ ~AtFirst(k, w)
  BY <1>1, <1>2, <1>3, <1>4 DEF IsAt, AtFirst, Claimed, SameFetch
<1>7. AtFirst(k, v)
  BY <1>2, <1>3 DEF AtFirst
<1>8. Twice(k) => Len(ContactsOf(k)) > 1
  BY <1>3 DEF Twice, Redirects
<1>9. /\ Fresh(v) <=> Fresh(w)
      /\ Witness(v) => Witness(w)
  BY <1>2, <1>4 DEF Fresh, Witness, SameFetch
<1>10. Twice(k) => Patience(k, w, new)
  <2>1. Twice(k) /\ ~v.got => Witness(v) /\ Fresh(v)
    BY <1>1, <1>7 DEF Patience
  <2> QED
    BY <1>3, <1>4, <1>6, <1>8, <1>9, <2>1 DEF Patience, SameHot, SameFetch
<1> QED
  BY <1>5, <1>6, <1>10 DEF Sound, Places

(* What ran out is removed. *)
LEMMA Pruned ==
    ASSUME NEW k, NEW v, NEW w, Sound(k, v), ~Alive(v), w.claim = NoRequest,
           SameHot(v, w), SameQueues(v, w), SameMail(v, w), SameFetch(v, w)
    PROVE  Sound(k, w)
<1>1. PICK place \in Places : IsAt(k, v, place) /\ (Twice(k) => Patience(k, v, place))
  BY DEF Sound
<1>2. place = "none"
  BY <1>1 DEF IsAt
<1>3. /\ ~Alive(w) /\ ~HasNext(w) /\ ~HasNext(v)
      /\ (Fresh(v) <=> Fresh(w)) /\ (Witness(v) <=> Witness(w))
      /\ AtFirst(k, w) <=> AtFirst(k, v)
  BY DEF Alive, HasNext, Fresh, Witness, AtFirst, SameFetch, SameQueues, SameMail
<1>4. Typed(w) /\ Addressed(k, w)
  BY <1>3 DEF Sound, Typed, Addressed, SameHot, SameFetch, SameQueues, SameMail
<1>5. IsAt(k, w, "none")
  BY <1>1, <1>2, <1>3 DEF IsAt, SameHot, SameFetch, SameQueues, SameMail
<1>6. Patience(k, v, "none") => Patience(k, w, "none")
  BY <1>3, <1>5 DEF Patience, SameHot, SameFetch, SameQueues
<1> QED
  BY <1>1, <1>2, <1>4, <1>5, <1>6 DEF Sound

(* A poll is over when nothing is under way. *)
LEMMA Ticked ==
    ASSUME NEW k, NEW v, NEW w, Sound(k, v), IsCalm(k), v.got => v.hot,
           v.buffer = NoEntry, v.taken = NoEntry, v.chunk = NoEntry, v.found = {},
           v.gets = {}, v.hints = {}, v.queuers = {}, v.resenders = {},
           SameHot(v, w), SameQueues(v, w), SameMail(v, w),
           w.queuers = v.queuers, w.resenders = v.resenders,
           DOMAIN w.askers = DOMAIN v.askers,
           \A f \in DOMAIN v.askers : /\ ~v.hot /\ v.askers[f].left > 0
                                      /\ w.askers[f].left = v.askers[f].left - 1
                                      /\ w.askers[f].again = v.askers[f].again,
           IF Alive(v) THEN IsRenewed(v.claim, w.claim, v.claim.next, v.claim.left - 1)
           ELSE w.claim = v.claim
    PROVE  Sound(k, w)
<1>1. PICK place \in Places : IsAt(k, v, place) /\ (Twice(k) => Patience(k, v, place))
  BY DEF Sound
<1>2. place = "none"
  BY <1>1 DEF IsAt, Claimed, Places
<1>3. /\ Ttl \in Nat /\ Polls \in Nat /\ Polls < Ttl
      /\ \A f \in DOMAIN v.askers : v.askers[f].left \in Int /\ v.askers[f].again \in BOOLEAN
      /\ Alive(v) => v.claim.left \in Nat /\ w.claim.left = v.claim.left - 1
                       /\ w.claim # NoRequest /\ w.claim.next = v.claim.next
                       /\ w.claim.from = v.claim.from /\ w.claim.pages = v.claim.pages
  BY RequestsAssumption DEF IsCalm, Sound, Typed, Alive, IsRenewed, Request, RequestsAssumption
<1>4. Alive(w) => Alive(v)
  BY DEF Alive
<1>5. Typed(w)
  BY <1>3 DEF Sound, Typed, SameHot, SameQueues, IsRenewed
<1>6. Addressed(k, w)
  BY <1>3, <1>4 DEF Sound, Addressed, HasNext, SameQueues, SameMail
<1>7. IsAt(k, w, "none") /\ ~AtFirst(k, w)
  <2>1. Alive(w) => Unstaged(w.claim)
    BY <1>1, <1>2, <1>3, <1>4 DEF IsAt, Unstaged
  <2> QED
    BY <1>1, <1>2, <2>1 DEF IsAt, AtFirst, Claimed, SameHot, SameQueues, SameMail
<1>8. ASSUME Twice(k), ~v.hot PROVE Patience(k, w, "none")
  <2>1. ~v.got
    BY <1>8
  <2>2. Patience(k, v, "none")
    BY <1>1, <1>2, <1>8
  <2>3. /\ DOMAIN v.askers # {} => Alive(v)
        /\ Alive(v) => Witness(v) /\ HasNext(v)
    BY <2>1, <2>2 DEF Patience
  <2>4. CASE Alive(v)
    <3>1. PICK f \in DOMAIN v.askers :
              ~v.askers[f].again /\ v.askers[f].left + Ttl <= v.claim.left + Polls
      BY <2>3, <2>4 DEF Witness
    <3>2. v.claim.left > 1
      BY <1>3, <2>4, <3>1
    <3>3. Alive(w) /\ HasNext(w)
      BY <1>3, <2>3, <2>4, <3>2 DEF Alive, HasNext
    <3>4. Witness(w)
      BY <1>3, <2>4, <3>1 DEF Witness
    <3>5. Redirects(k)
      BY <2>3, <2>4 DEF Sound, Addressed
    <3> QED
      BY <1>7, <3>3, <3>4, <3>5 DEF Patience, SameQueues
  <2>5. CASE ~Alive(v)
    BY <1>4, <1>7, <2>3, <2>5 DEF Patience, SameQueues, Fresh, HasNext
  <2> QED
    BY <2>4, <2>5
<1>9. ASSUME v.hot PROVE Patience(k, w, "none")
  BY <1>9 DEF Patience, Sound, Typed, SameHot
<1> QED
  BY <1>5, <1>6, <1>7, <1>8, <1>9 DEF Sound, Places

-----------------------------------------------------------------------------
(* The state.                                                              *)

Frames == [cell : Cells, res : Resolutions, left : Int, again : BOOLEAN]

Fetching == [pc : {"idle", "begin", "queue", "poll", "resend", "queue again", "done"},
             frames : Seq(Frames), to : Peers \cup {NoPeer}, claimed : BOOLEAN,
             result : {"all", "part", "none"}]

Shaped ==
    /\ storing \in Seq(Cells)
    /\ {buffer, taken, chunk} \subseteq [Cells -> Entry \cup {NoEntry}]
    /\ pending \in [Cells -> Request \cup {NoRequest}]
    /\ fetch \in [DOMAIN case.wants -> Fetching]
    /\ delayed = {} /\ mishaps = 0

(* A call that waits for another has the cell it asked for. *)
Resumable(x) == x.frames # << >> /\ \A i \in 2 .. Len(x.frames) : x.frames[i].cell \in hot

Directed(k, x) ==
    /\ x.pc = "queue" => x.to = FirstAsked(k) /\ x.to \in Peers /\ ~x.claimed
    /\ x.pc \in {"resend", "queue again"} => x.to \in GoodOf(k) /\ x.claimed

(* The GETs of a datagram are for one peer, each of another cell. *)
NetOK ==
    /\ \A c, d \in Queued(chunk) : chunk[c].to = chunk[d].to
    /\ \A m \in wire :
          \/ /\ m.code = "get" /\ m.entries \subseteq Cells \X Resolutions
             /\ \A d, e \in m.entries : d[1] = e[1] => d = e
          \/ m.code \in {"found", "provider"} /\ m.cell \in Cells

CalmInv ==
    /\ Shaped /\ NetOK
    /\ \A f \in DOMAIN fetch : Resumable(fetch[f]) /\ Directed(case, fetch[f])
    /\ \A c \in Cells : Sound(case, Cell(c))

LEMMA CalmCase ==
    ASSUME case \in Cases, Calm
    PROVE  IsCalm(case)
<1>1. /\ case.index \in [Peers \cup {Me} -> Seq(Peers)]
      /\ case.nearest \in [Peers \cup {Me} -> Peers \cup {NoPeer}]
      /\ case.holds \in [Peers -> SUBSET Cells]
  BY RequestsAssumption DEF RequestsAssumption
<1>2. Good = GoodOf(case)
  BY DEF Good, GoodOf
<1>3. Providers \subseteq GoodOf(case) /\ Polls < Ttl /\ GoodOf(case) \subseteq Peers
  BY <1>2 DEF Calm, GoodOf
<1>4. /\ case.index[Me] \in Seq(Peers) /\ NearOf(case) \in Peers \cup {NoPeer}
      /\ NearOf(case) \in Peers => case.index[NearOf(case)] \in Seq(Peers)
  BY <1>1 DEF NearOf
<1>5. \A s \in Seq(Peers) : /\ \A i \in 1 .. Len(s) : s[i] \in ToSet(s)
                            /\ s # << >> => Len(s) > 0
  BY DEF ToSet
<1>6. \A i \in 1 .. Len(case.index[Me]) : case.index[Me][i] \in GoodOf(case)
  <2>1. CASE case.index[Me] = << >>
    BY <2>1
  <2>2. CASE case.index[Me] # << >>
    BY <2>2, <1>3, <1>4, <1>5 DEF Providers
  <2> QED
    BY <2>1, <2>2
<1>7. ASSUME Redirects(case)
      PROVE  /\ ContactsOf(case) \in Seq(Peers) /\ Len(ContactsOf(case)) > 0
             /\ \A i \in 1 .. Len(ContactsOf(case)) : ContactsOf(case)[i] \in GoodOf(case)
  <2> DEFINE p == NearOf(case)
  <2>1. p \in Peers /\ case.index[p] \in Seq(Peers)
    BY <1>4, <1>7 DEF Redirects
  <2>2. Providers = IF case.index[p] # << >> THEN ToSet(case.index[p]) ELSE {case.nearest[p]}
    BY <1>7 DEF Redirects, Providers, NearOf
  <2> HIDE DEF p
  <2>3. CASE case.index[p] # << >>
    <3>1. ContactsOf(case) = case.index[p]
      BY <2>3 DEF ContactsOf, p
    <3> QED
      BY <2>1, <2>2, <2>3, <3>1, <1>3, <1>5
  <2>4. CASE case.index[p] = << >>
    <3>1. ContactsOf(case) = <<case.nearest[p]>>
      BY <2>4 DEF ContactsOf, p
    <3> QED
      BY <2>2, <2>4, <3>1, <1>3
  <2> QED
    BY <2>3, <2>4
<1>8. ASSUME FirstAsked(case) # NoPeer, ~Redirects(case)
      PROVE  FirstAsked(case) \in GoodOf(case)
  <2>1. CASE case.index[Me] # << >>
    BY <2>1, <1>4, <1>5, <1>6 DEF FirstAsked
  <2>2. CASE case.index[Me] = << >>
    BY <2>2, <1>3, <1>8 DEF FirstAsked, Redirects, Providers, NearOf
  <2> QED
    BY <2>1, <2>2
<1> QED
  BY <1>1, <1>3, <1>4, <1>6, <1>7, <1>8 DEF IsCalm

LEMMA Fields ==
    ASSUME NEW c, NEW v, v = Cell(c)
    PROVE  /\ v.cell = c /\ (v.hot <=> c \in hot) /\ (v.got <=> c \in Got)
           /\ v.hot \in BOOLEAN /\ v.got \in BOOLEAN
           /\ v.buffer = buffer[c] /\ v.taken = taken[c] /\ v.chunk = chunk[c]
           /\ v.claim = pending[c]
           /\ v.gets = Gets(c) /\ v.hints = Hints(c) /\ v.found = Found(c)
           /\ DOMAIN v.askers = Askers(c) /\ \A f \in Askers(c) : v.askers[f] = Top(f)
           /\ v.queuers = Queuers(c) /\ v.resenders = Resenders(c)
<1>1. /\ v.cell = c /\ v.hot = (c \in hot) /\ v.got = (c \in Got)
      /\ v.buffer = buffer[c] /\ v.taken = taken[c] /\ v.chunk = chunk[c]
      /\ v.claim = pending[c]
      /\ v.gets = Gets(c) /\ v.hints = Hints(c) /\ v.found = Found(c)
      /\ v.askers = [f \in Askers(c) |-> Top(f)]
      /\ v.queuers = Queuers(c) /\ v.resenders = Resenders(c)
  BY DEF Cell
<1>2. DOMAIN v.askers = Askers(c) /\ \A f \in Askers(c) : v.askers[f] = Top(f)
  BY <1>1
<1>3. (v.hot <=> c \in hot) /\ v.hot \in BOOLEAN
  <2>1. v.hot = (c \in hot)
    BY <1>1
  <2>2. v.hot \in BOOLEAN
    BY ONLY <2>1
  <2>3. v.hot <=> c \in hot
    BY ONLY <2>1
  <2> QED
    BY <2>2, <2>3
<1>4. (v.got <=> c \in Got) /\ v.got \in BOOLEAN
  <2>1. v.got = (c \in Got)
    BY <1>1
  <2>2. v.got \in BOOLEAN
    BY ONLY <2>1
  <2>3. v.got <=> c \in Got
    BY ONLY <2>1
  <2> QED
    BY <2>2, <2>3
<1> QED
  BY <1>1, <1>2, <1>3, <1>4

LEMMA FieldsNext ==
    ASSUME NEW c, NEW w, w = Cell(c)'
    PROVE  /\ w.cell = c /\ (w.hot <=> c \in hot') /\ (w.got <=> c \in Got')
           /\ w.hot \in BOOLEAN /\ w.got \in BOOLEAN
           /\ w.buffer = buffer'[c] /\ w.taken = taken'[c] /\ w.chunk = chunk'[c]
           /\ w.claim = pending'[c]
           /\ w.gets = Gets(c)' /\ w.hints = Hints(c)' /\ w.found = Found(c)'
           /\ DOMAIN w.askers = Askers(c)' /\ \A f \in Askers(c)' : w.askers[f] = Top(f)'
           /\ w.queuers = Queuers(c)' /\ w.resenders = Resenders(c)'
<1>1. /\ w.cell = c /\ w.hot = (c \in hot)' /\ w.got = (c \in Got)'
      /\ w.buffer = buffer'[c] /\ w.taken = taken'[c] /\ w.chunk = chunk'[c]
      /\ w.claim = pending'[c]
      /\ w.gets = Gets(c)' /\ w.hints = Hints(c)' /\ w.found = Found(c)'
      /\ w.askers = [f \in Askers(c)' |-> Top(f)']
      /\ w.queuers = Queuers(c)' /\ w.resenders = Resenders(c)'
  BY DEF Cell
<1>2. DOMAIN w.askers = Askers(c)' /\ \A f \in Askers(c)' : w.askers[f] = Top(f)'
  BY <1>1
<1>3. (w.hot <=> c \in hot') /\ w.hot \in BOOLEAN
  <2>1. w.hot = (c \in hot')
    BY <1>1
  <2>2. w.hot \in BOOLEAN
    BY ONLY <2>1
  <2>3. w.hot <=> c \in hot'
    BY ONLY <2>1
  <2> QED
    BY <2>2, <2>3
<1>4. (w.got <=> c \in Got') /\ w.got \in BOOLEAN
  <2>1. w.got = (c \in Got')
    BY <1>1
  <2>2. w.got \in BOOLEAN
    BY ONLY <2>1
  <2>3. w.got <=> c \in Got'
    BY ONLY <2>1
  <2> QED
    BY <2>2, <2>3
<1> QED
  BY <1>1, <1>2, <1>3, <1>4

(* The cell of the call a fetcher is in. *)
About(x, c) == Head(x.frames).cell = c

(* One fetcher moves. *)
Moves(f, x) ==
    /\ f \in DOMAIN fetch /\ x \in Fetching /\ x.frames # << >>
    /\ fetch' \in [DOMAIN fetch -> Fetching] /\ fetch'[f] = x
    /\ \A g \in DOMAIN fetch \ {f} : fetch'[g] = fetch[g]

LEMMA Stepped ==
    ASSUME NEW f, NEW x, Moves(f, x), NEW c
    PROVE  /\ \A g : g \in Askers(c)' <=> IF g = f THEN x.pc = "poll" /\ About(x, c)
                                         ELSE g \in Askers(c)
           /\ \A g : g \in Queuers(c)' <=> IF g = f THEN x.pc = "queue" /\ About(x, c)
                                          ELSE g \in Queuers(c)
           /\ \A g : g \in Resenders(c)' <=>
                 IF g = f THEN x.pc \in {"resend", "queue again"} /\ About(x, c)
                 ELSE g \in Resenders(c)
           /\ \A g \in DOMAIN fetch \ {f} : Top(g)' = Top(g)
           /\ Top(f)' = Head(x.frames)
<1>1. /\ \A g \in DOMAIN fetch \ {f} : Top(g)' = Top(g)
      /\ Top(f)' = Head(x.frames)
  BY DEF Moves, Top
<1>2. \A g : g \in Askers(c)' <=> IF g = f THEN x.pc = "poll" /\ About(x, c)
                                ELSE g \in Askers(c)
  BY <1>1 DEF Moves, About, Askers
<1>3. \A g : g \in Queuers(c)' <=> IF g = f THEN x.pc = "queue" /\ About(x, c)
                                 ELSE g \in Queuers(c)
  BY <1>1 DEF Moves, About, Queuers
<1>4. \A g : g \in Resenders(c)' <=>
                 IF g = f THEN x.pc \in {"resend", "queue again"} /\ About(x, c)
                 ELSE g \in Resenders(c)
  BY <1>1 DEF Moves, About, Resenders
<1> QED
  BY <1>1, <1>2, <1>3, <1>4

(* It neither was nor is about the cell. *)
LEMMA SteppedOver ==
    ASSUME NEW f, NEW x, Moves(f, x), NEW c
    PROVE  /\ f \notin Askers(c) /\ ~(x.pc = "poll" /\ About(x, c))
                 => Askers(c)' = Askers(c) /\ \A g \in Askers(c) : Top(g)' = Top(g)
           /\ f \notin Queuers(c) /\ ~(x.pc = "queue" /\ About(x, c))
                 => Queuers(c)' = Queuers(c)
           /\ f \notin Resenders(c)
                 /\ ~(x.pc \in {"resend", "queue again"} /\ About(x, c))
                 => Resenders(c)' = Resenders(c)
<1>1. ASSUME f \notin Askers(c), ~(x.pc = "poll" /\ About(x, c))
      PROVE  Askers(c)' = Askers(c) /\ \A g \in Askers(c) : Top(g)' = Top(g)
  <2>1. \A g : g \in Askers(c)' <=> g \in Askers(c)
    BY <1>1, Stepped
  <2>2. \A g \in Askers(c) : g \in DOMAIN fetch \ {f}
    BY <1>1 DEF Askers
  <2>3. \A g \in Askers(c) : Top(g)' = Top(g)
    BY <2>2, Stepped
  <2> QED
    BY <2>1, <2>3
<1>2. ASSUME f \notin Queuers(c), ~(x.pc = "queue" /\ About(x, c))
      PROVE  Queuers(c)' = Queuers(c)
  <2>1. \A g : g \in Queuers(c)' <=> g \in Queuers(c)
    BY <1>2, Stepped
  <2> QED
    BY <2>1
<1>3. ASSUME f \notin Resenders(c),
             ~(x.pc \in {"resend", "queue again"} /\ About(x, c))
      PROVE  Resenders(c)' = Resenders(c)
  <2>1. \A g : g \in Resenders(c)' <=> g \in Resenders(c)
    BY <1>3, Stepped
  <2> QED
    BY <2>1
<1> QED
  BY <1>1, <1>2, <1>3

LEMMA HeadFrame ==
    ASSUME NEW x \in Fetching, x.frames # << >>
    PROVE  /\ Head(x.frames) \in Frames /\ Head(x.frames) = x.frames[1]
           /\ Head(x.frames).cell \in Cells /\ Head(x.frames).left \in Int
           /\ Head(x.frames).again \in BOOLEAN /\ Head(x.frames).res \in Resolutions
           /\ Tail(x.frames) \in Seq(Frames)
<1>1. x.frames \in Seq(Frames)
  BY DEF Fetching
<1>2. Head(x.frames) \in Frames /\ Tail(x.frames) \in Seq(Frames) /\ Head(x.frames) = x.frames[1]
  BY <1>1
<1> QED
  BY <1>2 DEF Frames

LEMMA TopFrame ==
    ASSUME CalmInv, NEW f \in DOMAIN fetch
    PROVE  /\ fetch[f] \in Fetching /\ fetch[f].frames # << >>
           /\ Top(f) \in Frames /\ Top(f).cell \in Cells /\ Top(f).res \in Resolutions
           /\ Top(f).left \in Int /\ Top(f).again \in BOOLEAN
           /\ Tail(fetch[f].frames) \in Seq(Frames)
           /\ Resumable(fetch[f]) /\ Directed(case, fetch[f])
<1>1. fetch[f] \in Fetching /\ Resumable(fetch[f]) /\ Directed(case, fetch[f])
  BY DEF CalmInv, Shaped
<1>2. fetch[f].frames # << >>
  BY <1>1 DEF Resumable
<1> QED
  BY <1>1, <1>2, HeadFrame DEF Top

(* Nothing is sent, and nothing comes. *)
Still(c) ==
    /\ UNCHANGED <<case, hot, taken, chunk, storing, wire>>
    /\ buffer'[c] = buffer[c] /\ pending'[c] = pending[c]

LEMMA StillCell ==
    ASSUME NEW c, UNCHANGED <<hot, taken, chunk, storing, wire>>,
           NEW v, v = Cell(c), NEW w, w = Cell(c)'
    PROVE  SameHot(v, w) /\ SameMail(v, w) /\ w.taken = v.taken /\ w.chunk = v.chunk
<1>1. /\ Got' = Got /\ Gets(c)' = Gets(c) /\ Hints(c)' = Hints(c) /\ Found(c)' = Found(c)
  BY DEF Got, Gets, Hints, Found
<1>2. w.hot = v.hot /\ w.got = v.got
  BY <1>1, Fields, FieldsNext
<1>3. w.cell = v.cell /\ w.taken = v.taken /\ w.chunk = v.chunk
  BY Fields, FieldsNext
<1>4. w.gets = v.gets /\ w.hints = v.hints /\ w.found = v.found
  BY <1>1, Fields, FieldsNext
<1> QED
  BY <1>2, <1>3, <1>4 DEF SameHot, SameMail

(* The cells that a step of a fetcher is not about, and those that are in  *)
(* the storage.                                                            *)
LEMMA Elsewhere ==
    ASSUME CalmInv, NEW f, NEW x, Moves(f, x), NEW c \in Cells, Still(c),
           About(fetch[f], c) => fetch[f].pc \notin {"queue", "resend", "queue again"},
           About(x, c) => x.pc \notin {"queue", "resend", "queue again"},
           c \in hot \/ /\ ~(About(fetch[f], c) /\ fetch[f].pc = "poll")
                        /\ ~(About(x, c) /\ x.pc = "poll")
    PROVE  Sound(case, Cell(c))'
<1>1. PICK v : v = Cell(c)
  OBVIOUS
<1>2. PICK w : w = Cell(c)'
  OBVIOUS
<1>3. SameHot(v, w) /\ SameMail(v, w) /\ SameQueues(v, w) /\ w.claim = v.claim
  <2>1. SameHot(v, w) /\ SameMail(v, w) /\ w.taken = v.taken /\ w.chunk = v.chunk
    BY <1>1, <1>2, StillCell DEF Still
  <2>2. w.buffer = v.buffer /\ w.claim = v.claim
    BY <1>1, <1>2, Fields, FieldsNext DEF Still
  <2> QED
    BY <2>1, <2>2 DEF SameQueues
<1>4. f \notin Queuers(c) /\ f \notin Resenders(c)
  BY DEF Queuers, Resenders, About, Top
<1>5. w.queuers = v.queuers /\ w.resenders = v.resenders
  <2>1. Queuers(c)' = Queuers(c) /\ Resenders(c)' = Resenders(c)
    BY <1>4, SteppedOver
  <2> QED
    BY ONLY <1>1, <1>2, <2>1, Fields, FieldsNext
<1>6. Sound(case, v)
  BY <1>1 DEF CalmInv
<1>7. CASE c \in hot
  <2>1. v.hot
    BY <1>1, <1>7, Fields
  <2>2. ASSUME NEW g \in DOMAIN w.askers
        PROVE  w.askers[g].left \in Int /\ w.askers[g].again \in BOOLEAN
    <3>1. g \in Askers(c)' /\ w.askers[g] = Top(g)'
      BY ONLY <1>2, <2>2, FieldsNext
    <3>2. CASE g = f
      <4>1. Top(f)' = Head(x.frames) /\ x \in Fetching /\ x.frames # << >>
        BY Stepped DEF Moves
      <4> QED
        BY <3>1, <3>2, <4>1, HeadFrame
    <3>3. CASE g # f
      <4>1. g \in Askers(c)
        BY <3>1, <3>3, Stepped
      <4>2. g \in DOMAIN fetch /\ Top(g)' = Top(g)
        BY <3>3, <4>1, Stepped DEF Askers
      <4> QED
        BY <3>1, <4>2, TopFrame
    <3> QED
      BY <3>2, <3>3
  <2>3. Sound(case, w)
    BY <1>3, <1>5, <1>6, <2>1, <2>2, AskedWhenHot
  <2> QED
    BY <1>2, <2>3 DEF Still
<1>8. CASE c \notin hot
  <2>1. f \notin Askers(c)
    BY <1>8 DEF Askers, About, Top
  <2>2. Askers(c)' = Askers(c) /\ \A g \in Askers(c) : Top(g)' = Top(g)
    BY <1>8, <2>1, SteppedOver
  <2>3. w.askers = v.askers
    <3>1. v.askers = [g \in Askers(c) |-> Top(g)] /\ w.askers = [g \in Askers(c)' |-> Top(g)']
      BY <1>1, <1>2 DEF Cell
    <3> QED
      BY <2>2, <3>1
  <2>4. SameFetch(v, w)
    BY <1>5, <2>3 DEF SameFetch
  <2>5. Sound(case, w)
    BY <1>3, <1>6, <2>4, Unmoved
  <2> QED
    BY <1>2, <2>5 DEF Still
<1> QED
  BY <1>7, <1>8

LEMMA FetcherStep ==
    ASSUME CalmInv, NEW f, NEW x, Moves(f, x), Resumable(x), Directed(case, x),
           UNCHANGED <<case, hot, taken, chunk, storing, wire, delayed, mishaps>>,
           buffer' \in [Cells -> Entry \cup {NoEntry}],
           pending' \in [Cells -> Request \cup {NoRequest}],
           \A c \in Cells : Sound(case, Cell(c))'
    PROVE  CalmInv'
<1>1. Shaped'
  BY DEF CalmInv, Shaped, Moves
<1>2. NetOK'
  BY DEF CalmInv, NetOK, Queued
<1>3. \A g \in DOMAIN fetch' : fetch'[g] = IF g = f THEN x ELSE fetch[g]
  BY DEF Moves
<1>4. DOMAIN fetch' = DOMAIN fetch
  BY DEF Moves
<1>5. ASSUME NEW g \in DOMAIN fetch' PROVE (Resumable(fetch[g]) /\ Directed(case, fetch[g]))'
  <2>1. CASE g = f
    BY <1>3, <2>1 DEF Resumable, Directed
  <2>2. CASE g # f
    BY <1>3, <1>4, <2>2 DEF CalmInv, Resumable, Directed
  <2> QED
    BY <2>1, <2>2
<1> QED
  BY <1>1, <1>2, <1>5 DEF CalmInv

(* A step about no cell that is still to come. *)
LEMMA ElsewhereStep ==
    ASSUME CalmInv, NEW f, NEW x, Moves(f, x), Resumable(x), Directed(case, x),
           UNCHANGED <<case, hot, buffer, taken, chunk, pending, storing, wire, delayed, mishaps>>,
           fetch[f].pc \notin {"queue", "resend", "queue again"},
           x.pc \notin {"queue", "resend", "queue again"},
           fetch[f].pc = "poll" => Top(f).cell \in hot,
           x.pc = "poll" => Head(x.frames).cell \in hot
    PROVE  CalmInv'
<1>1. ASSUME NEW c \in Cells PROVE Sound(case, Cell(c))'
  <2>1. Still(c)
    BY DEF Still
  <2>2. c \in hot \/ /\ ~(About(fetch[f], c) /\ fetch[f].pc = "poll")
                     /\ ~(About(x, c) /\ x.pc = "poll")
    BY DEF About, Top
  <2> QED
    BY <2>1, <2>2, Elsewhere
<1>2. /\ buffer' \in [Cells -> Entry \cup {NoEntry}]
      /\ pending' \in [Cells -> Request \cup {NoRequest}]
  BY DEF CalmInv, Shaped
<1> QED
  BY <1>1, <1>2, FetcherStep

LEMMA Repc ==
    ASSUME CalmInv, NEW f \in DOMAIN fetch,
           NEW pc \in {"idle", "begin", "queue", "poll", "resend", "queue again", "done"},
           Goto(f, pc)
    PROVE  \E x : /\ Moves(f, x) /\ Resumable(x) /\ x.pc = pc /\ x.frames = fetch[f].frames
                  /\ x.to = fetch[f].to /\ x.claimed = fetch[f].claimed
<1> DEFINE x == [fetch[f] EXCEPT !.pc = pc]
<1>1. fetch \in [DOMAIN fetch -> Fetching] /\ fetch[f] \in Fetching
  BY DEF CalmInv, Shaped
<1>2. /\ x \in Fetching /\ x.pc = pc /\ x.frames = fetch[f].frames
      /\ x.to = fetch[f].to /\ x.claimed = fetch[f].claimed
  BY <1>1 DEF Fetching
<1>3. fetch' = [fetch EXCEPT ![f] = x]
  BY <1>1 DEF Goto, Fetching
<1> HIDE DEF x
<1>4. Resumable(x) /\ x.frames # << >>
  BY <1>2, TopFrame DEF Resumable
<1>5. Moves(f, x)
  BY <1>1, <1>2, <1>3, <1>4 DEF Moves
<1> QED
  BY <1>2, <1>4, <1>5

LEMMA StartStep ==
    ASSUME CalmInv, NEW f \in DOMAIN fetch, Start(f)
    PROVE  CalmInv'
<1>1. PICK x : /\ Moves(f, x) /\ Resumable(x) /\ x.pc = "begin" /\ x.frames = fetch[f].frames
               /\ x.to = fetch[f].to /\ x.claimed = fetch[f].claimed
  BY Repc DEF Start
<1>2. fetch[f].pc = "idle" /\ Directed(case, x)
  BY <1>1 DEF Start, At, Directed
<1> QED
  BY <1>1, <1>2, ElsewhereStep DEF Start, sender

(* The frame under the top one, which is replaced. *)
LEMMA UnderTop ==
    ASSUME NEW s \in Seq(Frames), Tail(s) # << >>
    PROVE  /\ Len(s) > 1 /\ s[2] \in Frames /\ Head(Tail(s)) = s[2]
           /\ Tail(s) \in Seq(Frames) /\ Tail(Tail(s)) \in Seq(Frames)
           /\ Len(Tail(Tail(s))) = Len(s) - 2
           /\ \A i \in 1 .. Len(s) - 2 : Tail(Tail(s))[i] = s[i + 2]
<1>1. Len(s) \in Nat /\ Len(s) > 1
  BY EmptySeq
<1>2. Tail(s) \in Seq(Frames) /\ Len(Tail(s)) = Len(s) - 1
      /\ \A i \in 1 .. Len(s) - 1 : Tail(s)[i] = s[i + 1]
  BY <1>1
<1> DEFINE t == Tail(s)
<1> HIDE DEF t
<1>3. t \in Seq(Frames) /\ Len(t) = Len(s) - 1 /\ \A i \in 1 .. Len(s) - 1 : t[i] = s[i + 1]
  BY <1>2 DEF t
<1>4. Head(t) = t[1] /\ Tail(t) \in Seq(Frames) /\ Len(Tail(t)) = Len(t) - 1
      /\ \A i \in 1 .. Len(t) - 1 : Tail(t)[i] = t[i + 1]
  BY <1>1, <1>3
<1>5. Head(t) = s[2] /\ s[2] \in Frames
  BY <1>1, <1>3, <1>4
<1>6. ASSUME NEW i \in 1 .. Len(s) - 2 PROVE Tail(t)[i] = s[i + 2]
  <2>1. i \in 1 .. Len(t) - 1 /\ i + 1 \in 1 .. Len(s) - 1 /\ (i + 1) + 1 = i + 2
    BY <1>1, <1>3
  <2> QED
    BY <1>3, <1>4, <2>1
<1> QED
  BY <1>1, <1>3, <1>4, <1>5, <1>6 DEF t

(* A call returns to one that has its cell, or the fetch is over. *)
LEMMA Returned ==
    ASSUME CalmInv, NEW f \in DOMAIN fetch, Return(f)
    PROVE  \E x : /\ Moves(f, x) /\ Resumable(x) /\ Directed(case, x)
                  /\ x.pc \in {"poll", "done"}
                  /\ x.pc = "poll" => Head(x.frames).cell \in hot
<1> DEFINE y == fetch[f]
           rest == Tail(y.frames)
<1>1. /\ fetch \in [DOMAIN fetch -> Fetching] /\ y \in Fetching /\ y.frames # << >>
      /\ rest \in Seq(Frames) /\ Resumable(y) /\ y.frames \in Seq(Frames)
  BY TopFrame DEF CalmInv, Shaped, Fetching
<1>2. CASE rest = << >>
  <2> DEFINE r == IF Arrived(Top(f).cell, Top(f).res) THEN "all"
                  ELSE IF Top(f).cell \in hot THEN "part" ELSE "none"
             x == [y EXCEPT !.pc = "done", !.result = r]
  <2>1. fetch' = [fetch EXCEPT ![f].pc = "done", ![f].result = r]
    BY <1>2 DEF Return
  <2>2. r \in {"all", "part", "none"}
    OBVIOUS
  <2> HIDE DEF r
  <2>3. x \in Fetching /\ x.pc = "done" /\ x.frames = y.frames
    BY <1>1, <2>2 DEF Fetching
  <2>4. fetch' = [fetch EXCEPT ![f] = x]
    BY <1>1, <2>1 DEF Fetching
  <2> HIDE DEF x
  <2>5. Moves(f, x)
    BY <1>1, <2>3, <2>4 DEF Moves
  <2>6. Resumable(x) /\ Directed(case, x)
    BY <1>1, <2>3 DEF Resumable, Directed
  <2> QED
    BY <2>3, <2>5, <2>6
<1>3. CASE rest # << >>
  <2> DEFINE top == [Head(rest) EXCEPT !.left = @ - 1]
             frames == <<top>> \o Tail(rest)
             x == [y EXCEPT !.pc = "poll", !.frames = frames]
  <2>1. fetch' = [fetch EXCEPT ![f].pc = "poll", ![f].frames = frames]
    BY <1>3 DEF Return, OnePollLess
  <2>2. /\ Head(rest) \in Frames /\ Tail(rest) \in Seq(Frames) /\ Head(rest) = y.frames[2]
        /\ Len(y.frames) \in Nat /\ Len(y.frames) > 1 /\ Len(Tail(rest)) = Len(y.frames) - 2
        /\ \A i \in 1 .. Len(y.frames) - 2 : Tail(rest)[i] = y.frames[i + 2]
    <3> DEFINE s == y.frames
    <3>1. s \in Seq(Frames) /\ Tail(s) # << >> /\ rest = Tail(s)
      BY <1>1, <1>3
    <3> HIDE DEF s, rest
    <3>2. /\ Head(rest) \in Frames /\ Tail(rest) \in Seq(Frames) /\ Head(rest) = s[2]
          /\ Len(s) \in Nat /\ Len(s) > 1 /\ Len(Tail(rest)) = Len(s) - 2
          /\ \A i \in 1 .. Len(s) - 2 : Tail(rest)[i] = s[i + 2]
      BY <3>1, UnderTop
    <3> QED
      BY <3>2 DEF s
  <2> DEFINE under == Head(rest)
  <2>3. top \in Frames /\ top.cell = Head(rest).cell
    <3>1. under \in Frames
      BY <2>2
    <3> HIDE DEF under, rest
    <3>2. [under EXCEPT !.left = @ - 1] \in Frames
          /\ [under EXCEPT !.left = @ - 1].cell = under.cell
      BY <3>1 DEF Frames
    <3> QED
      BY <3>2 DEF under
  <2> HIDE DEF top
  <2>4. /\ frames \in Seq(Frames) /\ frames # << >> /\ Head(frames) = top
        /\ Len(frames) = Len(y.frames) - 1
        /\ \A i \in 2 .. Len(frames) : frames[i] = y.frames[i + 1]
    <3> DEFINE s == Tail(rest)
    <3> HIDE DEF s
    <3>1. s \in Seq(Frames) /\ top \in Frames /\ frames = <<top>> \o s
      BY <2>2, <2>3 DEF s
    <3> HIDE DEF frames
    <3>2. /\ frames \in Seq(Frames) /\ frames # << >> /\ Head(frames) = top
          /\ Len(frames) = Len(s) + 1 /\ \A i \in 2 .. Len(frames) : frames[i] = s[i - 1]
      BY <3>1
    <3>3. Len(s) = Len(y.frames) - 2 /\ \A i \in 1 .. Len(y.frames) - 2 : s[i] = y.frames[i + 2]
      BY <2>2 DEF s
    <3>4. Len(y.frames) \in Nat /\ Len(s) \in Nat
      BY <2>2, <3>1
    <3>5. ASSUME NEW i \in 2 .. Len(frames) PROVE frames[i] = y.frames[i + 1]
      <4>1. i - 1 \in 1 .. Len(s) /\ (i - 1) + 2 = i + 1
        BY <3>2, <3>4
      <4> QED
        BY <3>2, <3>3, <4>1
    <3> QED
      BY <3>2, <3>3, <3>4, <3>5
  <2> HIDE DEF frames
  <2>5. x \in Fetching /\ x.pc = "poll" /\ x.frames = frames
    BY <1>1, <2>4 DEF Fetching
  <2>6. fetch' = [fetch EXCEPT ![f] = x]
    BY <1>1, <2>1 DEF Fetching
  <2> HIDE DEF x
  <2>7. Moves(f, x)
    BY <1>1, <2>4, <2>5, <2>6 DEF Moves
  <2>8. Resumable(x) /\ Directed(case, x)
    <3>1. Len(y.frames) \in Nat
      BY <1>1
    <3>2. ASSUME NEW i \in 2 .. Len(frames) PROVE frames[i].cell \in hot
      <4>1. i + 1 \in 2 .. Len(y.frames) /\ frames[i] = y.frames[i + 1]
        BY <2>4, <3>1
      <4>2. \A j \in 2 .. Len(y.frames) : y.frames[j].cell \in hot
        BY <1>1 DEF Resumable
      <4> HIDE DEF y
      <4> QED
        BY <4>1, <4>2
    <3> QED
      BY <2>4, <2>5, <3>2 DEF Resumable, Directed
  <2>9. Head(x.frames).cell \in hot
    <3>1. 2 \in 2 .. Len(y.frames)
      BY <2>2
    <3>2. y.frames[2].cell \in hot
      BY <1>1, <3>1 DEF Resumable
    <3>3. Head(x.frames) = top
      BY <2>4, <2>5
    <3> HIDE DEF y, rest
    <3> QED
      BY <2>2, <2>3, <3>2, <3>3
  <2> QED
    BY <2>5, <2>7, <2>8, <2>9
<1> QED
  BY <1>2, <1>3

LEMMA OnTop ==
    ASSUME NEW s \in Seq(Frames), NEW top \in Frames
    PROVE  /\ <<top>> \o s \in Seq(Frames) /\ <<top>> \o s # << >> /\ Head(<<top>> \o s) = top
           /\ Len(s) \in Nat /\ Len(<<top>> \o s) = Len(s) + 1
           /\ \A i \in 2 .. Len(s) + 1 : (<<top>> \o s)[i] = s[i - 1]
<1> DEFINE t == <<top>> \o s
<1>1. t \in Seq(Frames) /\ t # << >> /\ Len(s) \in Nat /\ Len(t) = Len(s) + 1 /\ t[1] = top
      /\ \A i \in 2 .. Len(s) + 1 : t[i] = s[i - 1]
  OBVIOUS
<1> HIDE DEF t
<1>2. Head(t) = top
  BY <1>1
<1> QED
  BY <1>1, <1>2 DEF t

(* It opens its window. *)
LEMMA Polled ==
    ASSUME CalmInv, NEW f \in DOMAIN fetch, NEW again \in BOOLEAN, Poll(f, again)
    PROVE  \E x : /\ Moves(f, x) /\ Resumable(x) /\ Directed(case, x) /\ x.pc = "poll"
                  /\ Head(x.frames).cell = Top(f).cell
                  /\ Head(x.frames).left = Polls /\ Head(x.frames).again = again
<1> DEFINE y == fetch[f]
           old == Top(f)
           rest == Tail(y.frames)
           top == [old EXCEPT !.left = Polls, !.again = again]
           frames == <<top>> \o rest
           x == [y EXCEPT !.pc = "poll", !.frames = frames]
<1>1. /\ fetch \in [DOMAIN fetch -> Fetching] /\ y \in Fetching /\ y.frames # << >>
      /\ rest \in Seq(Frames) /\ Resumable(y) /\ y.frames \in Seq(Frames) /\ old \in Frames
  BY TopFrame DEF CalmInv, Shaped, Fetching
<1>2. fetch' = [fetch EXCEPT ![f].pc = "poll", ![f].frames = frames]
  BY DEF Poll
<1> HIDE DEF old
<1>3. top \in Frames /\ top.cell = old.cell /\ top.left = Polls /\ top.again = again
  <2>1. Polls \in Int
    BY RequestsAssumption DEF RequestsAssumption
  <2> QED
    BY <1>1, <2>1 DEF Frames
<1>4. /\ Len(y.frames) \in Nat /\ Len(rest) = Len(y.frames) - 1
      /\ \A i \in 1 .. Len(y.frames) - 1 : rest[i] = y.frames[i + 1]
  <2> DEFINE s == y.frames
  <2>1. s \in Seq(Frames) /\ s # << >>
    BY <1>1
  <2> HIDE DEF s
  <2>2. /\ Len(s) \in Nat /\ Len(Tail(s)) = Len(s) - 1
        /\ \A i \in 1 .. Len(s) - 1 : Tail(s)[i] = s[i + 1]
    BY <2>1
  <2> QED
    BY <2>2 DEF s
<1> HIDE DEF top, rest
<1>5. /\ frames \in Seq(Frames) /\ frames # << >> /\ Head(frames) = top
      /\ Len(frames) = Len(rest) + 1 /\ \A i \in 2 .. Len(rest) + 1 : frames[i] = rest[i - 1]
  BY <1>1, <1>3, OnTop
<1> HIDE DEF frames
<1>6. x \in Fetching /\ x.pc = "poll" /\ x.frames = frames
  BY <1>1, <1>5 DEF Fetching
<1>7. fetch' = [fetch EXCEPT ![f] = x]
  BY <1>1, <1>2 DEF Fetching
<1> HIDE DEF x
<1>8. Moves(f, x)
  BY <1>1, <1>5, <1>6, <1>7 DEF Moves
<1>9. Resumable(x) /\ Directed(case, x)
  <2>1. \A j \in 2 .. Len(y.frames) : y.frames[j].cell \in hot
    BY <1>1 DEF Resumable
  <2> HIDE DEF y
  <2>2. ASSUME NEW i \in 2 .. Len(frames) PROVE frames[i].cell \in hot
    <3>1. i \in 2 .. Len(y.frames) /\ i - 1 \in 1 .. Len(y.frames) - 1 /\ (i - 1) + 1 = i
      BY <1>4, <1>5
    <3>2. frames[i] = y.frames[i]
      BY <1>4, <1>5, <3>1
    <3> QED
      BY <2>1, <3>1, <3>2
  <2> QED
    BY <1>5, <1>6, <2>2 DEF Resumable, Directed
<1> QED
  BY <1>3, <1>5, <1>6, <1>8, <1>9 DEF old

(* It calls itself for an inner cell. *)
LEMMA Called ==
    ASSUME CalmInv, NEW f \in DOMAIN fetch, Top(f).cell \in hot, NEW c \in Cells,
           fetch' = [fetch EXCEPT ![f].pc = "begin",
                                  ![f].frames = <<Frame(c, "single")>> \o @]
    PROVE  \E x : Moves(f, x) /\ Resumable(x) /\ Directed(case, x) /\ x.pc = "begin"
<1> DEFINE y == fetch[f]
           top == Frame(c, "single")
           s == y.frames
           frames == <<top>> \o s
           x == [y EXCEPT !.pc = "begin", !.frames = frames]
<1>1. /\ fetch \in [DOMAIN fetch -> Fetching] /\ y \in Fetching /\ s # << >>
      /\ Resumable(y) /\ s \in Seq(Frames) /\ s[1].cell \in hot
  <2>1. /\ fetch \in [DOMAIN fetch -> Fetching] /\ y \in Fetching /\ s # << >>
        /\ Resumable(y) /\ s \in Seq(Frames)
    BY TopFrame DEF CalmInv, Shaped, Fetching
  <2>2. Top(f) = s[1]
    BY <2>1, HeadFrame DEF Top
  <2> QED
    BY <2>1, <2>2
<1>2. fetch' = [fetch EXCEPT ![f].pc = "begin", ![f].frames = frames]
  OBVIOUS
<1>3. top \in Frames
  BY RequestsAssumption DEF Frame, Frames, Resolutions, RequestsAssumption
<1>4. \A j \in 1 .. Len(s) : s[j].cell \in hot
  <2>1. \A j \in 2 .. Len(s) : s[j].cell \in hot
    BY <1>1 DEF Resumable
  <2>2. Len(s) \in Nat
    BY <1>1
  <2> HIDE DEF s
  <2> QED
    BY <1>1, <2>1, <2>2
<1> HIDE DEF top, s
<1>5. /\ frames \in Seq(Frames) /\ frames # << >> /\ Len(s) \in Nat
      /\ Len(frames) = Len(s) + 1 /\ \A i \in 2 .. Len(s) + 1 : frames[i] = s[i - 1]
  BY <1>1, <1>3, OnTop
<1> HIDE DEF frames
<1>6. x \in Fetching /\ x.pc = "begin" /\ x.frames = frames
  BY <1>1, <1>5 DEF Fetching
<1>7. fetch' = [fetch EXCEPT ![f] = x]
  BY <1>1, <1>2 DEF Fetching
<1> HIDE DEF x
<1>8. Moves(f, x)
  BY <1>1, <1>5, <1>6, <1>7 DEF Moves
<1>9. Resumable(x) /\ Directed(case, x)
  <2>1. ASSUME NEW i \in 2 .. Len(frames) PROVE frames[i].cell \in hot
    <3>1. i - 1 \in 1 .. Len(s)
      BY <1>5
    <3> QED
      BY <1>4, <1>5, <3>1
  <2> QED
    BY <1>5, <1>6, <2>1 DEF Resumable, Directed
<1> QED
  BY <1>6, <1>8, <1>9

-----------------------------------------------------------------------------
(* The fetching threads.                                                   *)

LEMMA Joining ==
    ASSUME NEW f, NEW x, Moves(f, x), NEW c, f \notin Askers(c), NEW again \in BOOLEAN,
           x.pc = "poll", About(x, c),
           Head(x.frames).left = Polls, Head(x.frames).again = again,
           NEW v, v = Cell(c), NEW w, w = Cell(c)'
    PROVE  /\ Joins(v, w, f, again) /\ f \notin DOMAIN v.askers
           /\ w.queuers = v.queuers \ {f} /\ w.resenders = v.resenders \ {f}
<1>1. /\ DOMAIN v.askers = Askers(c) /\ \A g \in Askers(c) : v.askers[g] = Top(g)
      /\ v.queuers = Queuers(c) /\ v.resenders = Resenders(c)
  BY Fields
<1>2. /\ DOMAIN w.askers = Askers(c)' /\ \A g \in Askers(c)' : w.askers[g] = Top(g)'
      /\ w.queuers = Queuers(c)' /\ w.resenders = Resenders(c)'
  BY FieldsNext
<1>3. \A g : g \in Askers(c)' <=> g = f \/ g \in Askers(c)
  BY Stepped
<1>4. \A g : g \in Queuers(c)' <=> g # f /\ g \in Queuers(c)
  BY Stepped
<1>5. \A g : g \in Resenders(c)' <=> g # f /\ g \in Resenders(c)
  BY Stepped
<1>6. /\ \A g \in Askers(c) : g \in DOMAIN fetch \ {f}
      /\ \A g \in DOMAIN fetch \ {f} : Top(g)' = Top(g)
      /\ Top(f)' = Head(x.frames)
  BY Stepped DEF Askers
<1>7. Queuers(c)' = Queuers(c) \ {f} /\ Resenders(c)' = Resenders(c) \ {f}
      /\ Askers(c)' = Askers(c) \cup {f}
  BY <1>3, <1>4, <1>5
<1>8. \A g \in Askers(c) : w.askers[g] = v.askers[g]
  BY <1>1, <1>2, <1>3, <1>6
<1>9. w.askers[f].left = Polls /\ w.askers[f].again = again
  BY <1>2, <1>3, <1>6
<1> QED
  BY <1>1, <1>2, <1>7, <1>8, <1>9 DEF Joins

LEMMA Leaving ==
    ASSUME NEW f, NEW x, Moves(f, x), NEW c, f \in Askers(c),
           x.pc = "poll" => ~About(x, c),
           NEW v, v = Cell(c), NEW w, w = Cell(c)'
    PROVE  Quits(v, w, f) /\ v.askers[f] = Top(f)
<1>1. DOMAIN v.askers = Askers(c) /\ \A g \in Askers(c) : v.askers[g] = Top(g)
  BY Fields
<1>2. DOMAIN w.askers = Askers(c)' /\ \A g \in Askers(c)' : w.askers[g] = Top(g)'
  BY FieldsNext
<1>3. \A g : g \in Askers(c)' <=> g # f /\ g \in Askers(c)
  BY Stepped
<1>4. /\ \A g \in Askers(c) \ {f} : g \in DOMAIN fetch \ {f}
      /\ \A g \in DOMAIN fetch \ {f} : Top(g)' = Top(g)
  BY Stepped DEF Askers
<1>5. \A g \in Askers(c)' : w.askers[g] = v.askers[g]
  BY <1>1, <1>2, <1>3, <1>4
<1>6. Askers(c)' = Askers(c) \ {f}
  BY <1>3
<1> QED
  BY <1>1, <1>2, <1>5, <1>6 DEF Quits

LEMMA ReturnStep ==
    ASSUME CalmInv, NEW f \in DOMAIN fetch, Return(f),
           fetch[f].pc \notin {"queue", "resend", "queue again"},
           fetch[f].pc = "poll" => Top(f).cell \in hot,
           UNCHANGED <<case, hot, buffer, taken, chunk, pending, storing, wire, delayed, mishaps>>
    PROVE  CalmInv'
<1>1. PICK x : /\ Moves(f, x) /\ Resumable(x) /\ Directed(case, x)
               /\ x.pc \in {"poll", "done"}
               /\ x.pc = "poll" => Head(x.frames).cell \in hot
  BY Returned
<1> QED
  BY <1>1, ElsewhereStep

(* The cell that a fetcher asks for. *)
LEMMA CellOf ==
    ASSUME CalmInv, NEW f \in DOMAIN fetch
    PROVE  /\ \E c \in Cells : About(fetch[f], c)
           /\ \A c : About(fetch[f], c) <=> Top(f).cell = c
           /\ \A c : About(fetch[f], c) => Sound(case, Cell(c))
BY TopFrame DEF About, Top, CalmInv

(* A fetcher is about to ask. *)
Decides(f, pc, to, claimed) ==
    fetch' = [fetch EXCEPT ![f].pc = pc, ![f].to = to, ![f].claimed = claimed]

LEMMA Told ==
    ASSUME CalmInv, NEW f \in DOMAIN fetch, NEW pc \in {"queue", "resend"}, NEW to \in Peers,
           NEW claimed \in BOOLEAN, Decides(f, pc, to, claimed)
    PROVE  \E x : /\ Moves(f, x) /\ Resumable(x) /\ x.pc = pc /\ x.to = to /\ x.claimed = claimed
                  /\ \A c : About(x, c) <=> About(fetch[f], c)
<1> DEFINE y == fetch[f]
           x == [y EXCEPT !.pc = pc, !.to = to, !.claimed = claimed]
<1>1. fetch \in [DOMAIN fetch -> Fetching] /\ y \in Fetching /\ Resumable(y) /\ y.frames # << >>
  BY TopFrame DEF CalmInv, Shaped
<1>2. x \in Fetching /\ x.pc = pc /\ x.to = to /\ x.claimed = claimed /\ x.frames = y.frames
  BY <1>1 DEF Fetching
<1>3. fetch' = [fetch EXCEPT ![f] = x]
  BY <1>1 DEF Fetching, Decides
<1> HIDE DEF x
<1>4. Moves(f, x) /\ Resumable(x)
  BY <1>1, <1>2, <1>3 DEF Moves, Resumable
<1>5. \A c : About(x, c) <=> About(y, c)
  BY <1>2 DEF About
<1> QED
  BY <1>2, <1>4, <1>5

LEMMA BeginJoins ==
    ASSUME CalmInv, NEW f \in DOMAIN fetch, At(f, "begin"),
           NEW c \in Cells, About(fetch[f], c), IsUnderWay(c), Poll(f, FALSE),
           UNCHANGED <<case, hot, buffer, taken, chunk, pending, storing, wire, delayed, mishaps>>
    PROVE  CalmInv'
<1>1. PICK again \in BOOLEAN : again = FALSE
  OBVIOUS
<1>2. PICK x : /\ Moves(f, x) /\ Resumable(x) /\ Directed(case, x) /\ x.pc = "poll"
               /\ Head(x.frames).cell = Top(f).cell
               /\ Head(x.frames).left = Polls /\ Head(x.frames).again = again
  BY <1>1, Polled
<1>3. /\ fetch[f].pc = "begin" /\ About(x, c) /\ \A d : About(x, d) => d = c
      /\ \A d : About(fetch[f], d) => d = c
  BY <1>2, CellOf DEF At, About
<1>4. Sound(case, Cell(c))'
  <2>1. PICK v : v = Cell(c)
    OBVIOUS
  <2>2. PICK w : w = Cell(c)'
    OBVIOUS
  <2>3. f \notin Askers(c) /\ f \notin Queuers(c) /\ f \notin Resenders(c)
    BY <1>3 DEF Askers, Queuers, Resenders
  <2>4. /\ Joins(v, w, f, again) /\ f \notin DOMAIN v.askers
        /\ w.queuers = v.queuers \ {f} /\ w.resenders = v.resenders \ {f}
    BY <1>2, <1>3, <2>1, <2>2, <2>3, Joining
  <2>5. w.queuers = v.queuers /\ w.resenders = v.resenders
    BY <2>1, <2>3, <2>4, Fields
  <2>6. SameHot(v, w) /\ SameMail(v, w) /\ w.taken = v.taken /\ w.chunk = v.chunk
    BY <2>1, <2>2, StillCell
  <2>7. w.buffer = v.buffer /\ w.claim = v.claim
        /\ v.buffer = buffer[c] /\ v.claim = pending[c]
    BY <2>1, <2>2, Fields, FieldsNext
  <2>8. v.buffer # NoEntry \/ Alive(v)
    BY <2>7 DEF IsUnderWay, Live, Alive
  <2>9. Sound(case, v)
    BY <2>1 DEF CalmInv
  <2>10. Sound(case, w)
    BY <2>4, <2>5, <2>6, <2>7, <2>8, <2>9, Joined DEF SameQueues
  <2> QED
    BY <2>2, <2>10
<1>5. ASSUME NEW d \in Cells, d # c PROVE Sound(case, Cell(d))'
  <2>1. Still(d)
    BY DEF Still
  <2> QED
    BY <1>2, <1>3, <1>5, <2>1, Elsewhere
<1>6. /\ buffer' \in [Cells -> Entry \cup {NoEntry}]
      /\ pending' \in [Cells -> Request \cup {NoRequest}]
  BY DEF CalmInv, Shaped
<1>7. \A d \in Cells : Sound(case, Cell(d))'
  BY <1>4, <1>5
<1> QED
  BY <1>2, <1>6, <1>7, FetcherStep

LEMMA BeginQueues ==
    ASSUME CalmInv, NEW f \in DOMAIN fetch, At(f, "begin"),
           NEW c \in Cells, About(fetch[f], c), ~IsUnderWay(c), NEW to \in Peers, to = FirstAsked(case),
           Decides(f, "queue", to, FALSE),
           UNCHANGED <<case, hot, buffer, taken, chunk, pending, storing, wire, delayed, mishaps>>
    PROVE  CalmInv'
<1>1. PICK no \in BOOLEAN : no = FALSE
  OBVIOUS
<1>2. PICK pc \in {"queue", "resend"} : pc = "queue"
  OBVIOUS
<1>3. Decides(f, pc, to, no)
  BY <1>1, <1>2
<1>4. PICK x : /\ Moves(f, x) /\ Resumable(x) /\ x.pc = pc /\ x.to = to /\ x.claimed = no
               /\ \A d : About(x, d) <=> About(fetch[f], d)
  BY <1>3, Told
<1>5. /\ fetch[f].pc = "begin" /\ x.pc = "queue" /\ About(x, c) /\ Directed(case, x)
      /\ \A d : About(x, d) \/ About(fetch[f], d) => d = c
  BY <1>1, <1>2, <1>4, CellOf DEF At, Directed
<1>6. Sound(case, Cell(c))'
  <2>1. PICK v : v = Cell(c)
    OBVIOUS
  <2>2. PICK w : w = Cell(c)'
    OBVIOUS
  <2>3. f \notin Askers(c) /\ f \notin Resenders(c)
    BY <1>5 DEF Askers, Resenders
  <2>4. Askers(c)' = Askers(c) /\ (\A g \in Askers(c) : Top(g)' = Top(g))
        /\ Resenders(c)' = Resenders(c)
    BY <1>4, <1>5, <2>3, SteppedOver
  <2>5. w.askers = v.askers
    <3>1. v.askers = [g \in Askers(c) |-> Top(g)] /\ w.askers = [g \in Askers(c)' |-> Top(g)']
      BY <2>1, <2>2 DEF Cell
    <3> QED
      BY <2>4, <3>1
  <2>6. w.resenders = v.resenders
    BY <2>1, <2>2, <2>4, Fields, FieldsNext
  <2>7. SameHot(v, w) /\ SameMail(v, w) /\ w.taken = v.taken /\ w.chunk = v.chunk
    BY <2>1, <2>2, StillCell
  <2>8. w.buffer = v.buffer /\ w.claim = v.claim
        /\ v.buffer = buffer[c] /\ v.claim = pending[c]
    BY <2>1, <2>2, Fields, FieldsNext
  <2>9. v.buffer = NoEntry /\ ~Alive(v)
    BY <2>8 DEF IsUnderWay, Live, Alive
  <2>10. Sound(case, v)
    BY <2>1 DEF CalmInv
  <2>11. Sound(case, w)
    BY <2>5, <2>6, <2>7, <2>8, <2>9, <2>10, Queues DEF SameQueues
  <2> QED
    BY <2>2, <2>11
<1>7. ASSUME NEW d \in Cells, d # c PROVE Sound(case, Cell(d))'
  <2>1. Still(d)
    BY DEF Still
  <2> QED
    BY <1>4, <1>5, <1>7, <2>1, Elsewhere
<1>8. /\ buffer' \in [Cells -> Entry \cup {NoEntry}]
      /\ pending' \in [Cells -> Request \cup {NoRequest}]
  BY DEF CalmInv, Shaped
<1>9. \A d \in Cells : Sound(case, Cell(d))'
  BY <1>6, <1>7
<1> QED
  BY <1>4, <1>5, <1>8, <1>9, FetcherStep

LEMMA BeginStep ==
    ASSUME case \in Cases, CalmInv, NEW f \in DOMAIN fetch, Begin(f)
    PROVE  CalmInv'
<1>1. PICK c \in Cells : About(fetch[f], c)
  BY CellOf
<1>2. IsUnderWay(Top(f).cell) <=> IsUnderWay(c)
  BY <1>1, CellOf
<1>3. /\ At(f, "begin") /\ fetch[f].pc = "begin"
      /\ UNCHANGED <<case, hot, buffer, taken, chunk, pending, storing, wire, delayed, mishaps>>
  BY DEF Begin, At, sender
<1>4. CASE Return(f)
  BY <1>3, <1>4, ReturnStep
<1>5. CASE IsUnderWay(c) /\ Poll(f, FALSE)
  BY <1>1, <1>3, <1>5, BeginJoins
<1>6. CASE /\ ~IsUnderWay(c) /\ Destination # NoPeer
           /\ fetch' = [fetch EXCEPT ![f].pc = "queue", ![f].to = Destination, ![f].claimed = FALSE]
  <2>1. PICK to \in Peers : to = Destination /\ to = FirstAsked(case)
    <3>1. /\ case.index \in [Peers \cup {Me} -> Seq(Peers)]
          /\ case.nearest \in [Peers \cup {Me} -> Peers \cup {NoPeer}]
      BY RequestsAssumption DEF RequestsAssumption
    <3>2. case.index[Me] \in Seq(Peers) /\ case.nearest[Me] \in Peers \cup {NoPeer}
      BY <3>1
    <3>3. case.index[Me] # << >> => case.index[Me][1] \in Peers
      BY <3>2
    <3> QED
      BY <1>6, <3>2, <3>3 DEF Destination, FirstAsked, NearOf
  <2>2. Decides(f, "queue", to, FALSE)
    BY <1>6, <2>1 DEF Decides
  <2> QED
    BY <1>1, <1>3, <1>6, <2>1, <2>2, BeginQueues
<1> QED
  BY <1>2, <1>4, <1>5, <1>6 DEF Begin

(* What the GET that a fetcher puts into the buffer is. *)
LEMMA EntryOf ==
    ASSUME CalmInv, NEW f \in DOMAIN fetch, fetch[f].pc \in {"queue", "queue again"}
    PROVE  \E e \in Entry : /\ e = [to |-> fetch[f].to, res |-> Top(f).res, claimed |-> fetch[f].claimed]
                            /\ e.to = fetch[f].to /\ e.claimed = fetch[f].claimed
<1>1. fetch[f].to \in Peers /\ fetch[f].claimed \in BOOLEAN /\ Top(f).res \in Resolutions
  BY TopFrame DEF Directed, GoodOf, Fetching
<1> DEFINE e == [to |-> fetch[f].to, res |-> Top(f).res, claimed |-> fetch[f].claimed]
<1>2. e \in Entry /\ e.to = fetch[f].to /\ e.claimed = fetch[f].claimed
  BY <1>1 DEF Entry
<1> QED
  BY <1>2

(* A GET is buffered, for the cell alone. *)
Puts(c, e) == buffer' = IF buffer[c] # NoEntry THEN buffer ELSE [buffer EXCEPT ![c] = e]

LEMMA PutInto ==
    ASSUME CalmInv, NEW c \in Cells, NEW e \in Entry, Puts(c, e)
    PROVE  /\ buffer' \in [Cells -> Entry \cup {NoEntry}]
           /\ buffer'[c] = IF buffer[c] = NoEntry THEN e ELSE buffer[c]
           /\ \A d \in Cells \ {c} : buffer'[d] = buffer[d]
BY DEF CalmInv, Shaped, Puts

LEMMA EnqueueStep ==
    ASSUME CalmInv, NEW f \in DOMAIN fetch, Enqueue(f)
    PROVE  CalmInv'
<1>1. PICK c \in Cells : About(fetch[f], c)
  BY CellOf
<1>2. /\ fetch[f].pc \in {"queue", "queue again"}
      /\ UNCHANGED <<case, hot, taken, chunk, pending, storing, wire, delayed, mishaps>>
  BY DEF Enqueue, At, sender
<1>3. PICK e \in Entry : /\ e = [to |-> fetch[f].to, res |-> Top(f).res, claimed |-> fetch[f].claimed]
                         /\ e.to = fetch[f].to /\ e.claimed = fetch[f].claimed
  BY <1>2, EntryOf
<1>4. Puts(c, e)
  <2>1. buffer' = Buffered(c, fetch[f].to, Top(f).res, fetch[f].claimed)
    BY <1>1, CellOf DEF Enqueue
  <2> QED
    BY <1>3, <2>1 DEF Puts, Buffered
<1>5. PICK again \in BOOLEAN : again <=> fetch[f].pc = "queue again"
  OBVIOUS
<1>6. PICK x : /\ Moves(f, x) /\ Resumable(x) /\ Directed(case, x) /\ x.pc = "poll"
               /\ Head(x.frames).cell = Top(f).cell
               /\ Head(x.frames).left = Polls /\ Head(x.frames).again = again
  <2>1. PICK b \in BOOLEAN : b = At(f, "queue again")
    BY DEF At
  <2>2. Poll(f, b)
    BY <2>1 DEF Enqueue
  <2>3. b = again
    BY <1>5, <2>1 DEF At
  <2> QED
    BY <2>2, <2>3, Polled
<1>7. /\ About(x, c) /\ \A d : About(x, d) \/ About(fetch[f], d) => d = c
  BY <1>1, <1>6, CellOf DEF About
<1>8. Sound(case, Cell(c))'
  <2>1. PICK v : v = Cell(c)
    OBVIOUS
  <2>2. PICK w : w = Cell(c)'
    OBVIOUS
  <2>3. f \notin Askers(c)
    BY <1>2 DEF Askers
  <2>4. /\ Joins(v, w, f, again) /\ f \notin DOMAIN v.askers
        /\ w.queuers = v.queuers \ {f} /\ w.resenders = v.resenders \ {f}
    BY <1>6, <1>7, <2>1, <2>2, <2>3, Joining
  <2>5. SameHot(v, w) /\ SameMail(v, w) /\ w.taken = v.taken /\ w.chunk = v.chunk
    BY <1>2, <2>1, <2>2, StillCell
  <2>6. w.claim = v.claim /\ v.buffer = buffer[c] /\ w.buffer = buffer'[c]
        /\ v.queuers = Queuers(c) /\ v.resenders = Resenders(c)
    <3>1. v.claim = pending[c] /\ v.buffer = buffer[c]
          /\ v.queuers = Queuers(c) /\ v.resenders = Resenders(c)
      BY <2>1, Fields
    <3>2. w.claim = pending'[c] /\ w.buffer = buffer'[c]
      BY <2>2, FieldsNext
    <3> QED
      BY <1>2, <3>1, <3>2
  <2>7. w.buffer = IF v.buffer = NoEntry THEN e ELSE v.buffer
    BY <1>4, <2>6, PutInto
  <2>8. Sound(case, v) /\ Directed(case, fetch[f])
    BY <2>1 DEF CalmInv
  <2>9. CASE fetch[f].pc = "queue"
    <3>1. f \in v.queuers /\ f \notin v.resenders
      BY <1>1, <2>6, <2>9, CellOf DEF Queuers, Resenders
    <3>2. Joins(v, w, f, FALSE)
      BY <1>5, <2>4, <2>9
    <3>3. e.to = FirstAsked(case) /\ ~e.claimed
      BY <1>3, <2>8, <2>9 DEF Directed
    <3>4. w.resenders = v.resenders /\ w.queuers = v.queuers \ {f}
      BY <2>4, <3>1
    <3>5. Sound(case, w)
      BY <2>4, <2>5, <2>6, <2>7, <2>8, <3>1, <3>2, <3>3, <3>4, Enqueued
    <3> QED
      BY <1>2, <2>2, <3>5
  <2>10. CASE fetch[f].pc = "queue again"
    <3>1. f \in v.resenders /\ f \notin v.queuers
      BY <1>1, <2>6, <2>10, CellOf DEF Queuers, Resenders
    <3>2. Joins(v, w, f, TRUE)
      BY <1>5, <2>4, <2>10
    <3>3. e.to \in GoodOf(case) /\ e.claimed
      BY <1>3, <2>8, <2>10 DEF Directed
    <3>4. w.queuers = v.queuers /\ w.resenders = v.resenders \ {f}
      BY <2>4, <3>1
    <3>5. Sound(case, w)
      BY <2>4, <2>5, <2>6, <2>7, <2>8, <3>1, <3>2, <3>3, <3>4, EnqueuedAgain
    <3> QED
      BY <1>2, <2>2, <3>5
  <2> QED
    BY <1>2, <2>9, <2>10
<1>9. ASSUME NEW d \in Cells, d # c PROVE Sound(case, Cell(d))'
  <2>1. Still(d)
    BY <1>2, <1>4, <1>9, PutInto DEF Still
  <2> QED
    BY <1>6, <1>7, <1>9, <2>1, Elsewhere
<1>10. /\ buffer' \in [Cells -> Entry \cup {NoEntry}]
       /\ pending' \in [Cells -> Request \cup {NoRequest}]
  BY <1>2, <1>4, PutInto DEF CalmInv, Shaped
<1>11. \A d \in Cells : Sound(case, Cell(d))'
  BY <1>8, <1>9
<1> QED
  BY <1>2, <1>6, <1>10, <1>11, FetcherStep

LEMMA LookStep ==
    ASSUME CalmInv, NEW f \in DOMAIN fetch, Look(f)
    PROVE  CalmInv'
<1>1. /\ fetch[f].pc = "poll" /\ Top(f).cell \in hot
      /\ UNCHANGED <<case, hot, buffer, taken, chunk, pending, storing, wire, delayed, mishaps>>
  BY DEF Look, At, sender
<1>2. CASE Return(f)
  BY <1>1, <1>2, ReturnStep
<1>3. CASE \E c \in Missing(Top(f).cell, Top(f).res) :
                fetch' = [fetch EXCEPT ![f].pc = "begin",
                                       ![f].frames = <<Frame(c, "single")>> \o @]
  <2>1. PICK c \in Missing(Top(f).cell, Top(f).res) :
                fetch' = [fetch EXCEPT ![f].pc = "begin",
                                       ![f].frames = <<Frame(c, "single")>> \o @]
    BY <1>3
  <2>2. c \in Cells
    BY TopFrame, RequestsAssumption DEF Missing, RequestsAssumption
  <2>3. PICK x : Moves(f, x) /\ Resumable(x) /\ Directed(case, x) /\ x.pc = "begin"
    BY <1>1, <2>1, <2>2, Called
  <2> QED
    BY <1>1, <2>3, ElsewhereStep
<1> QED
  BY <1>2, <1>3 DEF Look

LEMMA ResendStep ==
    ASSUME CalmInv, NEW f \in DOMAIN fetch, Resend(f)
    PROVE  CalmInv'
<1>1. PICK c \in Cells : About(fetch[f], c)
  BY CellOf
<1>2. /\ fetch[f].pc = "resend"
      /\ UNCHANGED <<case, hot, buffer, taken, chunk, pending, storing, wire, delayed, mishaps>>
  BY DEF Resend, At, sender
<1>3. PICK v : v = Cell(c)
  OBVIOUS
<1>4. PICK w : w = Cell(c)'
  OBVIOUS
<1>5. Sound(case, v) /\ v.buffer = buffer[c] /\ v.resenders = Resenders(c)
  BY <1>3, Fields DEF CalmInv
<1>6. f \in Resenders(c) /\ f \notin Askers(c) /\ f \notin Queuers(c)
  BY <1>1, <1>2, CellOf DEF Resenders, Queuers, Askers
<1>7. buffer[c] = NoEntry /\ fetch[f].claimed /\ Directed(case, fetch[f])
  BY <1>2, <1>5, <1>6 DEF Sound, Addressed, CalmInv, Directed
<1>8. Goto(f, "queue again")
  BY <1>1, <1>7, CellOf DEF Resend
<1>9. PICK x : /\ Moves(f, x) /\ Resumable(x) /\ x.pc = "queue again" /\ x.frames = fetch[f].frames
               /\ x.to = fetch[f].to /\ x.claimed = fetch[f].claimed
  BY <1>8, Repc
<1>10. /\ About(x, c) /\ Directed(case, x) /\ \A d : About(x, d) \/ About(fetch[f], d) => d = c
  BY <1>1, <1>2, <1>7, <1>9, CellOf DEF About, Directed
<1>11. Sound(case, Cell(c))'
  <2>1. /\ Askers(c)' = Askers(c) /\ (\A g \in Askers(c) : Top(g)' = Top(g))
        /\ Queuers(c)' = Queuers(c)
    BY <1>6, <1>9, <1>10, SteppedOver
  <2>2. Resenders(c)' = Resenders(c)
    <3>1. \A g : g \in Resenders(c)' <=> g \in Resenders(c)
      BY <1>6, <1>9, <1>10, Stepped
    <3> QED
      BY <3>1
  <2>3. w.askers = v.askers
    <3>1. v.askers = [g \in Askers(c) |-> Top(g)] /\ w.askers = [g \in Askers(c)' |-> Top(g)']
      BY <1>3, <1>4 DEF Cell
    <3> QED
      BY <2>1, <3>1
  <2>4. w.queuers = v.queuers /\ w.resenders = v.resenders
    BY <1>3, <1>4, <2>1, <2>2, Fields, FieldsNext
  <2>5. SameHot(v, w) /\ SameMail(v, w) /\ w.taken = v.taken /\ w.chunk = v.chunk
    BY <1>2, <1>3, <1>4, StillCell
  <2>6. w.claim = v.claim /\ w.buffer = v.buffer
    BY <1>2, <1>3, <1>4, Fields, FieldsNext
  <2>7. Sound(case, w)
    BY <1>5, <2>3, <2>4, <2>5, <2>6, Unmoved DEF SameQueues, SameFetch
  <2> QED
    BY <1>2, <1>4, <2>7
<1>12. ASSUME NEW d \in Cells, d # c PROVE Sound(case, Cell(d))'
  <2>1. Still(d)
    BY <1>2 DEF Still
  <2> QED
    BY <1>9, <1>10, <1>12, <2>1, Elsewhere
<1>13. /\ buffer' \in [Cells -> Entry \cup {NoEntry}]
       /\ pending' \in [Cells -> Request \cup {NoRequest}]
  BY <1>2 DEF CalmInv, Shaped
<1>14. \A d \in Cells : Sound(case, Cell(d))'
  BY <1>11, <1>12
<1> QED
  BY <1>2, <1>9, <1>10, <1>13, <1>14, FetcherStep

(* A claim that is renewed with other times and providers is one. *)
LEMMA Renewed ==
    ASSUME NEW r \in Request, NEW next \in Peers \cup {NoPeer}, NEW left \in 0 .. Ttl,
           NEW w, w = [r EXCEPT !.next = next, !.left = left]
    PROVE  IsRenewed(r, w, next, left)
<1>1. w \in Request
  BY DEF Request
<1>2. NoRequest \notin Request
  BY RequestsAssumption DEF RequestsAssumption
<1>3. /\ w.next = next /\ w.left = left
      /\ w.from = r.from /\ w.pages = r.pages /\ w.total = r.total
  BY DEF Request
<1> QED
  BY <1>1, <1>2, <1>3 DEF IsRenewed

LEMMA RearmedIs ==
    ASSUME CalmInv, NEW c \in Cells, Live(c), pending' = Rearmed(c)
    PROVE  /\ pending' \in [Cells -> Request \cup {NoRequest}]
           /\ IsRenewed(pending[c], pending'[c], NoPeer, Ttl)
           /\ \A d \in Cells \ {c} : pending'[d] = pending[d]
<1>1. pending \in [Cells -> Request \cup {NoRequest}] /\ pending[c] \in Request
  BY DEF CalmInv, Shaped, Live
<1>2. PICK r \in Request : r = pending[c]
  BY <1>1
<1>3. PICK q : q = [r EXCEPT !.next = NoPeer, !.left = Ttl]
  OBVIOUS
<1>4. Ttl \in 0 .. Ttl
  BY RequestsAssumption DEF RequestsAssumption
<1>5. IsRenewed(r, q, NoPeer, Ttl)
  <2>1. PICK next \in Peers \cup {NoPeer} : next = NoPeer
    OBVIOUS
  <2>2. q = [r EXCEPT !.next = next, !.left = Ttl]
    BY <1>3, <2>1
  <2>3. IsRenewed(r, q, next, Ttl)
    BY <1>2, <1>4, <2>2, Renewed
  <2> QED
    BY <2>1, <2>3
<1>6. pending' = [pending EXCEPT ![c] = q]
  <2>1. pending' = [pending EXCEPT ![c].next = NoPeer, ![c].left = Ttl]
    BY DEF Rearmed
  <2> QED
    BY <1>1, <1>2, <1>3, <2>1 DEF Request
<1>7. q \in Request
  BY <1>5 DEF IsRenewed
<1> QED
  BY <1>1, <1>2, <1>5, <1>6, <1>7

LEMMA GiveUpResends ==
    ASSUME case \in Cases, Calm, CalmInv, NEW f \in DOMAIN fetch,
           NEW c \in Cells, About(fetch[f], c), At(f, "poll"), c \notin hot, Top(f).left <= 0,
           MayResend(f), NextContact(c) # NoPeer, pending' = Rearmed(c),
           Decides(f, "resend", NextContact(c), Live(c)),
           UNCHANGED <<case, hot, buffer, taken, chunk, storing, wire, delayed, mishaps>>
    PROVE  CalmInv'
<1>1. PICK v : v = Cell(c)
  OBVIOUS
<1>2. PICK w : w = Cell(c)'
  OBVIOUS
<1>3. /\ Sound(case, v) /\ IsCalm(case) /\ Typed(v)
      /\ fetch[f].pc = "poll" /\ f \in Askers(c)
  BY <1>1, CellOf, CalmCase DEF CalmInv, At, Askers, Sound
<1>4. /\ v.claim = pending[c] /\ ~v.hot /\ f \in DOMAIN v.askers /\ v.askers[f] = Top(f)
  BY <1>1, <1>3, Fields
<1>5. v.askers[f].left <= 0 /\ ~v.askers[f].again /\ (HasNext(v) <=> Live(c) /\ pending[c].next # NoPeer)
  BY <1>4 DEF MayResend, HasNext, Alive, Live
<1>6. HasNext(v)
  <2>1. SUFFICES ASSUME ~HasNext(v) PROVE FALSE
    OBVIOUS
  <2>2. case.index[Me] # << >>
    <3>1. SecondIndexed # NoPeer
      BY <1>5, <2>1 DEF NextContact
    <3> QED
      BY <3>1 DEF SecondIndexed
  <2>3. Fresh(v)
    BY <1>3, <1>4, <2>2 DEF Sound, Patience, Twice, Redirects
  <2> QED
    BY <1>4, <1>5, <2>3, RequestsAssumption DEF Fresh, RequestsAssumption
<1>7. PICK to \in Peers : to = NextContact(c) /\ to \in GoodOf(case)
  <2>1. /\ Redirects(case) /\ Len(ContactsOf(case)) > 1 /\ v.claim.next = ContactsOf(case)[2]
    BY <1>3, <1>6 DEF Sound, Addressed
  <2>2. Len(ContactsOf(case)) \in Nat
    BY <1>3, <2>1 DEF IsCalm
  <2>3. v.claim.next \in GoodOf(case)
    BY <1>3, <2>1, <2>2 DEF IsCalm
  <2> QED
    BY <1>4, <1>5, <1>6, <2>3 DEF NextContact, GoodOf
<1>8. Live(c)
  BY <1>5, <1>6
<1>9. PICK x : /\ Moves(f, x) /\ Resumable(x) /\ x.pc = "resend" /\ x.to = to /\ x.claimed
               /\ \A d : About(x, d) <=> About(fetch[f], d)
  <2>1. PICK pc \in {"queue", "resend"} : pc = "resend"
    OBVIOUS
  <2>2. PICK yes \in BOOLEAN : yes <=> TRUE
    OBVIOUS
  <2>3. Live(c) = yes
    BY <1>8, <2>2 DEF Live
  <2>4. Decides(f, pc, to, yes)
    BY <1>7, <2>1, <2>3
  <2>5. PICK x : /\ Moves(f, x) /\ Resumable(x) /\ x.pc = pc /\ x.to = to /\ x.claimed = yes
                 /\ \A d : About(x, d) <=> About(fetch[f], d)
    BY <2>4, Told
  <2> QED
    BY <2>1, <2>2, <2>5
<1>10. /\ About(x, c) /\ Directed(case, x) /\ \A d : About(x, d) \/ About(fetch[f], d) => d = c
  BY <1>7, <1>9, CellOf DEF Directed
<1>11. Sound(case, Cell(c))'
  <2>1. Quits(v, w, f)
    BY <1>1, <1>2, <1>3, <1>9, Leaving
  <2>2. f \notin Queuers(c) /\ f \notin Resenders(c)
    BY <1>3 DEF Queuers, Resenders
  <2>3. Queuers(c)' = Queuers(c)
    BY <1>9, <2>2, SteppedOver
  <2>4. Resenders(c)' = Resenders(c) \cup {f}
    <3>1. \A g : g \in Resenders(c)' <=> g \in Resenders(c) \/ g = f
      BY <1>9, <1>10, <2>2, Stepped
    <3> QED
      BY <3>1
  <2>5. w.queuers = v.queuers /\ w.resenders = v.resenders \cup {f}
    BY <1>1, <1>2, <2>3, <2>4, Fields, FieldsNext
  <2>6. SameHot(v, w) /\ SameMail(v, w) /\ w.taken = v.taken /\ w.chunk = v.chunk
    BY <1>1, <1>2, StillCell
  <2>7. w.buffer = v.buffer /\ w.claim = pending'[c]
    BY <1>1, <1>2, Fields, FieldsNext
  <2>8. IsRenewed(v.claim, w.claim, NoPeer, Ttl)
    BY <1>4, <1>8, <2>7, RearmedIs
  <2>9. Sound(case, w)
    BY <1>3, <1>4, <1>5, <1>6, <2>1, <2>5, <2>6, <2>7, <2>8, Resent DEF SameQueues
  <2> QED
    BY <1>2, <2>9
<1>12. ASSUME NEW d \in Cells, d # c PROVE Sound(case, Cell(d))'
  <2>1. Still(d)
    BY <1>8, <1>12, RearmedIs DEF Still
  <2> QED
    BY <1>9, <1>10, <1>12, <2>1, Elsewhere
<1>13. /\ buffer' \in [Cells -> Entry \cup {NoEntry}]
       /\ pending' \in [Cells -> Request \cup {NoRequest}]
  BY <1>8, RearmedIs DEF CalmInv, Shaped
<1>14. \A d \in Cells : Sound(case, Cell(d))'
  BY <1>11, <1>12
<1> QED
  BY <1>9, <1>10, <1>13, <1>14, FetcherStep

LEMMA GiveUpReturns ==
    ASSUME case \in Cases, Calm, CalmInv, NEW f \in DOMAIN fetch,
           NEW c \in Cells, About(fetch[f], c), At(f, "poll"), c \notin hot, Top(f).left <= 0,
           ~MayResend(f) \/ NextContact(c) = NoPeer, Return(f),
           UNCHANGED <<case, hot, buffer, taken, chunk, pending, storing, wire, delayed, mishaps>>
    PROVE  CalmInv'
<1>1. PICK v : v = Cell(c)
  OBVIOUS
<1>2. PICK w : w = Cell(c)'
  OBVIOUS
<1>3. /\ Sound(case, v) /\ IsCalm(case)
      /\ fetch[f].pc = "poll" /\ f \in Askers(c)
  BY <1>1, CellOf, CalmCase DEF CalmInv, At, Askers
<1>4. /\ v.claim = pending[c] /\ ~v.hot /\ f \in DOMAIN v.askers /\ v.askers[f] = Top(f)
  BY <1>1, <1>3, Fields
<1>5. v.askers[f].left <= 0 /\ (v.askers[f].again \/ ~HasNext(v))
  BY <1>4 DEF MayResend, HasNext, Alive, Live, NextContact
<1>6. PICK x : /\ Moves(f, x) /\ Resumable(x) /\ Directed(case, x)
               /\ x.pc \in {"poll", "done"}
               /\ x.pc = "poll" => Head(x.frames).cell \in hot
  BY Returned
<1>7. \A d : /\ About(fetch[f], d) => d = c
             /\ x.pc = "poll" /\ About(x, d) => d \in hot
  BY <1>6, CellOf DEF About
<1>8. Sound(case, Cell(c))'
  <2>1. Quits(v, w, f)
    BY <1>1, <1>2, <1>3, <1>6, <1>7, Leaving
  <2>2. f \notin Queuers(c) /\ f \notin Resenders(c)
    BY <1>3 DEF Queuers, Resenders
  <2>3. Queuers(c)' = Queuers(c) /\ Resenders(c)' = Resenders(c)
    BY <1>6, <2>2, SteppedOver
  <2>4. w.queuers = v.queuers /\ w.resenders = v.resenders
    BY <1>1, <1>2, <2>3, Fields, FieldsNext
  <2>5. SameHot(v, w) /\ SameMail(v, w) /\ w.taken = v.taken /\ w.chunk = v.chunk
    BY <1>1, <1>2, StillCell
  <2>6. w.buffer = v.buffer /\ w.claim = v.claim
    BY <1>1, <1>2, Fields, FieldsNext
  <2>7. Sound(case, w)
    BY <1>3, <1>4, <1>5, <2>1, <2>4, <2>5, <2>6, GivenUp DEF SameQueues
  <2> QED
    BY <1>2, <2>7
<1>9. ASSUME NEW d \in Cells, d # c PROVE Sound(case, Cell(d))'
  <2>1. Still(d)
    BY DEF Still
  <2>2. ~About(fetch[f], d)
    BY <1>7, <1>9
  <2>3. About(x, d) /\ x.pc = "poll" => d \in hot
    BY <1>7
  <2> QED
    BY <1>6, <2>1, <2>2, <2>3, Elsewhere
<1>10. /\ buffer' \in [Cells -> Entry \cup {NoEntry}]
       /\ pending' \in [Cells -> Request \cup {NoRequest}]
  BY DEF CalmInv, Shaped
<1>11. \A d \in Cells : Sound(case, Cell(d))'
  BY <1>8, <1>9
<1> QED
  BY <1>6, <1>10, <1>11, FetcherStep

LEMMA GiveUpStep ==
    ASSUME case \in Cases, Calm, CalmInv, NEW f \in DOMAIN fetch, GiveUp(f)
    PROVE  CalmInv'
<1>1. PICK c \in Cells : About(fetch[f], c)
  BY CellOf
<1>2. Top(f).cell = c
  BY <1>1, CellOf
<1>3. /\ At(f, "poll") /\ c \notin hot /\ Top(f).left <= 0
      /\ UNCHANGED <<case, hot, buffer, taken, chunk, storing, wire, delayed, mishaps>>
  BY <1>2 DEF GiveUp, sender
<1>4. CASE MayResend(f) /\ NextContact(c) # NoPeer
  <2>1. pending' = Rearmed(c) /\ Decides(f, "resend", NextContact(c), Live(c))
    BY <1>2, <1>4 DEF GiveUp, Decides
  <2> QED
    BY <1>1, <1>3, <1>4, <2>1, GiveUpResends
<1>5. CASE ~(MayResend(f) /\ NextContact(c) # NoPeer)
  <2>1. Return(f) /\ pending' = pending
    BY <1>2, <1>5 DEF GiveUp
  <2> QED
    BY <1>1, <1>3, <1>5, <2>1, GiveUpReturns
<1> QED
  BY <1>4, <1>5

-----------------------------------------------------------------------------
(* The buffer and its sender.                                              *)

LEMMA Seated ==
    ASSUME fetch' = fetch, NEW c, NEW v, v = Cell(c), NEW w, w = Cell(c)'
    PROVE  SameFetch(v, w)
<1>1. /\ Askers(c)' = Askers(c) /\ Queuers(c)' = Queuers(c) /\ Resenders(c)' = Resenders(c)
      /\ \A f \in Askers(c) : Top(f)' = Top(f)
  BY DEF Askers, Queuers, Resenders, Top
<1>2. v.askers = [f \in Askers(c) |-> Top(f)] /\ w.askers = [f \in Askers(c)' |-> Top(f)']
  BY DEF Cell
<1>3. w.askers = v.askers
  BY <1>1, <1>2
<1>4. w.queuers = v.queuers /\ w.resenders = v.resenders
  BY <1>1, Fields, FieldsNext
<1> QED
  BY <1>3, <1>4 DEF SameFetch

(* The fetchers stand still. *)
LEMMA OtherStep ==
    ASSUME CalmInv, UNCHANGED <<case, fetch, delayed, mishaps>>, hot \subseteq hot',
           storing' \in Seq(Cells),
           {buffer', taken', chunk'} \subseteq [Cells -> Entry \cup {NoEntry}],
           pending' \in [Cells -> Request \cup {NoRequest}],
           NetOK', \A c \in Cells : Sound(case, Cell(c))'
    PROVE  CalmInv'
<1>1. Shaped'
  BY DEF CalmInv, Shaped
<1>2. \A f \in DOMAIN fetch : Resumable(fetch[f])' /\ Directed(case, fetch[f])'
  BY DEF CalmInv, Resumable, Directed
<1> QED
  BY <1>1, <1>2 DEF CalmInv

LEMMA TakeStep ==
    ASSUME CalmInv, Take
    PROVE  CalmInv'
<1>1. /\ Queued(taken) = {} /\ Queued(chunk) = {}
      /\ taken' = buffer /\ buffer' = Nothing
      /\ UNCHANGED <<case, hot, chunk, pending, storing, fetch, wire, delayed, mishaps>>
  BY DEF Take
<1>2. ASSUME NEW c \in Cells PROVE Sound(case, Cell(c))'
  <2>1. PICK v : v = Cell(c)
    OBVIOUS
  <2>2. PICK w : w = Cell(c)'
    OBVIOUS
  <2>3. taken[c] = NoEntry /\ chunk[c] = NoEntry /\ buffer'[c] = NoEntry
    BY <1>1 DEF Queued, Nothing
  <2>4. v.taken = NoEntry /\ v.chunk = NoEntry /\ v.buffer = buffer[c] /\ v.claim = pending[c]
    BY <2>1, <2>3, Fields
  <2>5. w.taken = buffer[c] /\ w.buffer = NoEntry /\ w.chunk = NoEntry /\ w.claim = pending[c]
    BY <1>1, <2>2, <2>3, FieldsNext
  <2>6. SameFetch(v, w)
    BY <1>1, <2>1, <2>2, Seated
  <2>7. SameHot(v, w) /\ SameMail(v, w)
    <3>1. Got' = Got /\ Gets(c)' = Gets(c) /\ Hints(c)' = Hints(c) /\ Found(c)' = Found(c)
      BY <1>1 DEF Got, Gets, Hints, Found
    <3> QED
      BY <1>1, <2>1, <2>2, <3>1, Fields, FieldsNext DEF SameHot, SameMail
  <2>8. Sound(case, v)
    BY <2>1 DEF CalmInv
  <2>9. Sound(case, w)
    BY <2>4, <2>5, <2>6, <2>7, <2>8, TakenAll
  <2> QED
    BY <1>1, <2>2, <2>9
<1>3. /\ {buffer', taken', chunk'} \subseteq [Cells -> Entry \cup {NoEntry}]
      /\ pending' \in [Cells -> Request \cup {NoRequest}] /\ storing' \in Seq(Cells)
  BY <1>1 DEF CalmInv, Shaped, Nothing
<1>4. NetOK'
  BY <1>1 DEF CalmInv, NetOK, Queued
<1> QED
  BY <1>1, <1>2, <1>3, <1>4, OtherStep

(* A cell that the step is not about. *)
LEMMA Apart ==
    ASSUME CalmInv, NEW c \in Cells, case' = case, fetch' = fetch,
           buffer'[c] = buffer[c], taken'[c] = taken[c], chunk'[c] = chunk[c],
           pending'[c] = pending[c], c \in hot => c \in hot', c \in Got => c \in Got',
           c \in hot' => c \in Got',
           Gets(c)' = Gets(c), Hints(c)' = Hints(c), Found(c)' = Found(c)
    PROVE  Sound(case, Cell(c))'
<1>1. PICK v : v = Cell(c)
  OBVIOUS
<1>2. PICK w : w = Cell(c)'
  OBVIOUS
<1>3. SameQueues(v, w) /\ w.claim = v.claim /\ w.cell = v.cell
  BY <1>1, <1>2, Fields, FieldsNext DEF SameQueues
<1>4. SameMail(v, w)
  BY <1>1, <1>2, Fields, FieldsNext DEF SameMail
<1>5. SameFetch(v, w)
  BY <1>1, <1>2, Seated
<1>6. /\ w.hot \in BOOLEAN /\ w.got \in BOOLEAN /\ (v.hot => w.hot) /\ (v.got => w.got)
      /\ (w.hot => w.got)
  <2>1. (v.hot <=> c \in hot) /\ (v.got <=> c \in Got)
    BY <1>1, Fields
  <2>2. (w.hot <=> c \in hot') /\ (w.got <=> c \in Got') /\ w.hot \in BOOLEAN /\ w.got \in BOOLEAN
    BY <1>2, FieldsNext
  <2> QED
    BY <2>1, <2>2
<1>7. Sound(case, v)
  BY <1>1 DEF CalmInv
<1>8. Sound(case, w)
  BY <1>3, <1>4, <1>5, <1>6, <1>7, Comes
<1> QED
  BY <1>2, <1>8

LEMMA NewClaimIs ==
    ASSUME NEW res \in Resolutions
    PROVE  IsNewClaim(NewClaim(res))
<1> DEFINE q == NewClaim(res)
<1>1. Ttl \in 0 .. Ttl /\ NoRequest \notin Request
  BY RequestsAssumption DEF RequestsAssumption
<1>2. NoPages \in [{} -> SUBSET Cells] /\ DOMAIN NoPages = {}
  BY DEF NoPages
<1>3. NoPages \in Staging
  BY <1>2 DEF Staging
<1>4. q = [res |-> res, left |-> Ttl, from |-> NoPeer, total |-> 0,
           pages |-> NoPages, next |-> NoPeer]
  BY DEF NewClaim
<1> HIDE DEF q
<1>5. q \in Request
  BY <1>1, <1>3, <1>4 DEF Request
<1>6. q.next = NoPeer /\ q.left = Ttl /\ q.from = NoPeer /\ q.pages = NoPages
  BY <1>4
<1> QED
  BY <1>1, <1>2, <1>5, <1>6 DEF IsNewClaim, Unstaged, q

LEMMA AdmitStep ==
    ASSUME CalmInv, NEW c \in Cells, Admit(c)
    PROVE  CalmInv'
<1>1. /\ taken[c] # NoEntry /\ \A d \in Queued(chunk) : chunk[d].to = taken[c].to
      /\ taken' = [taken EXCEPT ![c] = NoEntry]
      /\ UNCHANGED <<case, hot, buffer, storing, fetch, wire, delayed, mishaps>>
  BY DEF Admit
<1>2. /\ {buffer, taken, chunk} \subseteq [Cells -> Entry \cup {NoEntry}]
      /\ pending \in [Cells -> Request \cup {NoRequest}] /\ storing \in Seq(Cells)
      /\ taken[c] \in Entry /\ taken[c].res \in Resolutions /\ taken[c].claimed \in BOOLEAN
  <2>1. /\ {buffer, taken, chunk} \subseteq [Cells -> Entry \cup {NoEntry}]
        /\ pending \in [Cells -> Request \cup {NoRequest}] /\ storing \in Seq(Cells)
        /\ taken[c] \in Entry
    BY <1>1 DEF CalmInv, Shaped
  <2> QED
    BY <2>1 DEF Entry
<1>3. PICK v : v = Cell(c)
  OBVIOUS
<1>4. PICK w : w = Cell(c)'
  OBVIOUS
<1>5. Sound(case, v)
  BY <1>3 DEF CalmInv
<1>6. v.taken = taken[c] /\ v.claim = pending[c] /\ v.buffer = buffer[c] /\ v.chunk = chunk[c]
      /\ (Alive(v) <=> Live(c))
  BY <1>3, Fields DEF Alive, Live
<1>7. SameFetch(v, w)
  BY <1>1, <1>3, <1>4, Seated
<1>8. SameHot(v, w) /\ SameMail(v, w)
  <2>1. Got' = Got /\ (\A d \in Cells : Gets(d)' = Gets(d) /\ Hints(d)' = Hints(d) /\ Found(d)' = Found(d))
    BY <1>1 DEF Got, Gets, Hints, Found
  <2> QED
    BY <1>1, <1>3, <1>4, <2>1, Fields, FieldsNext DEF SameHot, SameMail
<1>9. w.taken = NoEntry /\ w.buffer = v.buffer /\ w.chunk = chunk'[c] /\ w.claim = pending'[c]
  <2>1. taken'[c] = NoEntry /\ buffer'[c] = buffer[c]
    BY <1>1, <1>2
  <2> QED
    BY <1>4, <1>6, <2>1, FieldsNext
<1>10. ASSUME chunk' \in [Cells -> Entry \cup {NoEntry}],
              pending' \in [Cells -> Request \cup {NoRequest}],
              \A d \in Cells \ {c} : chunk'[d] = chunk[d] /\ pending'[d] = pending[d],
              chunk'[c] \in {chunk[c], taken[c]}, Sound(case, w)
       PROVE  CalmInv'
  <2>1. ASSUME NEW d \in Cells, d # c PROVE Sound(case, Cell(d))'
    <3>1. taken'[d] = taken[d] /\ chunk'[d] = chunk[d] /\ pending'[d] = pending[d]
      BY <1>1, <1>2, <1>10, <2>1
    <3>2. Got' = Got /\ Gets(d)' = Gets(d) /\ Hints(d)' = Hints(d) /\ Found(d)' = Found(d)
      BY <1>1 DEF Got, Gets, Hints, Found
    <3>3. d \in hot => d \in Got
      BY DEF Got
    <3> QED
      BY <1>1, <3>1, <3>2, <3>3, Apart
  <2>2. Sound(case, Cell(c))'
    BY <1>1, <1>4, <1>10
  <2>3. \A d \in Cells : Sound(case, Cell(d))'
    BY <2>1, <2>2
  <2>4. NetOK'
    <3>1. \A d \in Queued(chunk)' : chunk'[d].to = taken[c].to
      BY <1>1, <1>10 DEF Queued, CalmInv, NetOK
    <3>2. \A m \in wire' : m \in wire
      BY <1>1
    <3> QED
      BY <3>1, <3>2 DEF CalmInv, NetOK
  <2>5. taken' \in [Cells -> Entry \cup {NoEntry}]
    BY <1>1, <1>2
  <2> QED
    BY <1>1, <1>2, <1>10, <2>3, <2>4, <2>5, OtherStep
<1>11. CASE ~Admitted(c)
  <2>1. chunk' = chunk /\ pending' = pending
    BY <1>11 DEF Admit
  <2>2. ~v.taken.claimed /\ Alive(v)
    <3>1. ~(v.taken.claimed /\ ~Alive(v))
      BY <1>1, <1>5, <1>6 DEF Sound, IsAt, Claimed
    <3> QED
      BY <1>2, <1>6, <1>11, <3>1 DEF Admitted
  <2>3. Sound(case, w)
    BY <1>1, <1>5, <1>6, <1>7, <1>8, <1>9, <2>1, <2>2, Dropped
  <2> QED
    BY <1>2, <1>10, <2>1, <2>3
<1>12. CASE Admitted(c) /\ taken[c].claimed
  <2>1. chunk' = [chunk EXCEPT ![c] = taken[c]] /\ pending' = pending
    BY <1>12 DEF Admit
  <2>2. w.chunk = v.taken /\ w.claim = v.claim /\ Claimed(v.taken)
    BY <1>1, <1>2, <1>6, <1>9, <1>12, <2>1 DEF Claimed
  <2>3. Sound(case, w)
    BY <1>5, <1>7, <1>8, <1>9, <2>2, AdmittedAgain
  <2>4. /\ chunk' \in [Cells -> Entry \cup {NoEntry}]
        /\ chunk'[c] = taken[c] /\ \A d \in Cells \ {c} : chunk'[d] = chunk[d]
    BY <1>2, <2>1
  <2> QED
    BY <1>2, <1>10, <2>1, <2>3, <2>4
<1>13. CASE Admitted(c) /\ ~taken[c].claimed
  <2>1. PICK q : q = NewClaim(taken[c].res)
    OBVIOUS
  <2>2. chunk' = [chunk EXCEPT ![c] = taken[c]] /\ pending' = [pending EXCEPT ![c] = q]
    BY <1>13, <2>1 DEF Admit
  <2>3. IsNewClaim(q) /\ q \in Request
    <3>1. PICK res \in Resolutions : res = taken[c].res
      BY <1>2
    <3>2. IsNewClaim(q)
      BY <2>1, <3>1, NewClaimIs
    <3> QED
      BY <3>2 DEF IsNewClaim
  <2>4. w.chunk = v.taken /\ w.claim = q /\ v.taken # NoEntry /\ ~v.taken.claimed /\ ~Alive(v)
    BY <1>1, <1>2, <1>6, <1>9, <1>13, <2>2 DEF Admitted
  <2>5. Sound(case, w)
    BY <1>5, <1>7, <1>8, <1>9, <2>3, <2>4, AdmittedFirst
  <2>6. /\ chunk' \in [Cells -> Entry \cup {NoEntry}]
        /\ chunk'[c] = taken[c] /\ \A d \in Cells \ {c} : chunk'[d] = chunk[d]
        /\ pending' \in [Cells -> Request \cup {NoRequest}]
        /\ \A d \in Cells \ {c} : pending'[d] = pending[d]
    BY <1>2, <2>2, <2>3
  <2> QED
    BY <1>10, <2>5, <2>6
<1> QED
  BY <1>11, <1>12, <1>13

LEMMA SendStep ==
    ASSUME CalmInv, Send
    PROVE  CalmInv'
<1> DEFINE S == Queued(chunk)
<1>1. PICK m : /\ m.code = "get" /\ m.to = chunk[CHOOSE c \in S : TRUE].to
               /\ m.entries = {<<c, chunk[c].res>> : c \in S}
               /\ wire' = wire \cup {m} /\ pending' = pending
  <2>1. ~Mishap("unsent")
    BY DEF Mishap, CalmInv, Shaped
  <2>2. wire' = wire \cup {[code |-> "get", to |-> (chunk[CHOOSE c \in S : TRUE]).to,
                          entries |-> {<<c, chunk[c].res>> : c \in S}]}
        /\ pending' = pending
    BY <2>1 DEF Send, StorageGet
  <2>3. PICK m : m = [code |-> "get", to |-> (chunk[CHOOSE c \in S : TRUE]).to,
                      entries |-> {<<c, chunk[c].res>> : c \in S}]
    OBVIOUS
  <2> QED
    BY <2>2, <2>3
<1>2. /\ S # {} /\ chunk' = Nothing
      /\ UNCHANGED <<case, hot, buffer, taken, storing, fetch, delayed, mishaps>>
  BY <1>1 DEF Send, CalmInv, Shaped, Mishap
<1>3. /\ {buffer, taken, chunk} \subseteq [Cells -> Entry \cup {NoEntry}]
      /\ pending \in [Cells -> Request \cup {NoRequest}] /\ storing \in Seq(Cells)
  BY DEF CalmInv, Shaped
<1>4. \A c \in S : c \in Cells /\ chunk[c] \in Entry /\ chunk[c].to = m.to
                     /\ chunk[c].res \in Resolutions
  <2>1. PICK d \in S : d = CHOOSE c \in S : TRUE
    BY <1>2
  <2>2. m.to = chunk[d].to
    BY <1>1, <2>1
  <2>3. \A c \in S : c \in Cells /\ chunk[c] \in Entry
    BY <1>3 DEF Queued
  <2>4. \A c \in S : chunk[c].to = chunk[d].to
    BY DEF CalmInv, NetOK
  <2> QED
    BY <2>2, <2>3, <2>4 DEF Entry
<1> HIDE DEF S
<1>5. \A c \in Cells : /\ Gets(c)' = IF c \in S THEN Gets(c) \cup {m} ELSE Gets(c)
                       /\ Hints(c)' = Hints(c) /\ Found(c)' = Found(c)
  <2>1. \A c : (\E e \in m.entries : e[1] = c) <=> c \in S
    <3>1. \A e \in m.entries : e[1] \in S
      BY <1>1
    <3>2. \A c \in S : <<c, chunk[c].res>> \in m.entries /\ <<c, chunk[c].res>>[1] = c
      BY <1>1
    <3> QED
      BY <3>1, <3>2
  <2> QED
    BY <1>1, <2>1 DEF Gets, Hints, Found
<1>6. Got' = Got /\ \A c \in Cells : chunk'[c] = NoEntry /\ (c \in S <=> chunk[c] # NoEntry)
  BY <1>2 DEF Got, Nothing, Queued, S
<1>7. ASSUME NEW c \in Cells, c \in S PROVE Sound(case, Cell(c))'
  <2>1. PICK v : v = Cell(c)
    OBVIOUS
  <2>2. PICK w : w = Cell(c)'
    OBVIOUS
  <2>3. Sound(case, v)
    BY <2>1 DEF CalmInv
  <2>4. /\ v.chunk = chunk[c] /\ v.chunk # NoEntry /\ v.gets = Gets(c) /\ m.to = v.chunk.to
    BY <1>4, <1>6, <1>7, <2>1, Fields
  <2>5. v.gets = {}
    BY <2>3, <2>4 DEF Sound, IsAt
  <2>6. /\ Gets(c)' = {m} /\ Hints(c)' = Hints(c) /\ Found(c)' = Found(c)
    BY <1>5, <1>7, <2>4, <2>5
  <2>7. w.gets = {m} /\ w.hints = v.hints /\ w.found = v.found
    BY <2>1, <2>2, <2>6, Fields, FieldsNext
  <2>8. SameHot(v, w)
    BY <1>2, <1>6, <2>1, <2>2, Fields, FieldsNext DEF SameHot
  <2>9. /\ w.chunk = NoEntry /\ w.buffer = v.buffer /\ w.taken = v.taken /\ w.claim = v.claim
    BY <1>1, <1>2, <1>6, <2>1, <2>2, Fields, FieldsNext
  <2>10. SameFetch(v, w)
    BY <1>2, <2>1, <2>2, Seated
  <2>11. Sound(case, w)
    BY <2>3, <2>4, <2>7, <2>8, <2>9, <2>10, Sent
  <2> QED
    BY <1>2, <2>2, <2>11
<1>8. ASSUME NEW c \in Cells, c \notin S PROVE Sound(case, Cell(c))'
  <2>1. /\ Gets(c)' = Gets(c) /\ Hints(c)' = Hints(c) /\ Found(c)' = Found(c)
        /\ chunk'[c] = chunk[c]
    BY <1>5, <1>6, <1>8
  <2>2. c \in hot => c \in Got
    BY DEF Got
  <2> QED
    BY <1>1, <1>2, <1>6, <2>1, <2>2, Apart
<1>9. NetOK'
  <2>1. Queued(chunk)' = {}
    BY <1>6 DEF Queued
  <2>2. /\ m.entries \subseteq Cells \X Resolutions
        /\ \A d, e \in m.entries : d[1] = e[1] => d = e
    BY <1>1, <1>4
  <2> QED
    BY <1>1, <2>1, <2>2 DEF CalmInv, NetOK
<1>10. {buffer', taken', chunk'} \subseteq [Cells -> Entry \cup {NoEntry}]
  BY <1>2, <1>3 DEF Nothing
<1> QED
  BY <1>1, <1>2, <1>3, <1>7, <1>8, <1>9, <1>10, OtherStep

-----------------------------------------------------------------------------
(* The peers.                                                              *)

LEMMA Listed ==
    ASSUME NEW S, IsFiniteSet(S)
    PROVE  /\ SetToSeq(S) \in Seq(S) /\ Len(SetToSeq(S)) = Cardinality(S)
           /\ Cardinality(S) \in Nat
<1> DEFINE n == Cardinality(S)
           s == SetToSeq(S)
<1>1. n \in Nat /\ \E f \in [1 .. n -> S] : IsInjective(f)
  BY FS_CardinalityType DEF ExistsBijection, Bijection, Injection
<1>2. s \in [1 .. n -> S]
  BY <1>1 DEF SetToSeq
<1> HIDE DEF n, s
<1>3. s \in Seq(S) /\ Len(s) = n
  BY <1>1, <1>2
<1> QED
  BY <1>1, <1>3 DEF n, s

LEMMA CollectedIs ==
    ASSUME case \in Cases, NEW p \in GoodOf(case), NEW c \in Cells, NEW res
    PROVE  /\ Collected(p, c, res) \in Seq(Cells) /\ Collected(p, c, res)[1] = c
           /\ Len(Collected(p, c, res)) \in 1 .. MaxPages
<1> DEFINE T == Inner[c] \cap case.holds[p]
           t == SetToSeq(T)
<1>1. /\ IsFiniteSet(T) /\ T \subseteq Cells /\ Cardinality(T) < MaxPages /\ MaxPages \in Nat
  <2>1. IsFiniteSet(Inner[c]) /\ Inner[c] \subseteq Cells /\ MaxPages \in Nat
    BY RequestsAssumption, FS_Subset DEF RequestsAssumption
  <2>2. Cardinality(Inner[c]) < MaxPages /\ Cardinality(Inner[c]) \in Nat
    BY <2>1, FS_CardinalityType DEF GoodOf
  <2>3. T \in SUBSET Inner[c]
    OBVIOUS
  <2> HIDE DEF T
  <2>4. IsFiniteSet(T) /\ Cardinality(T) <= Cardinality(Inner[c])
    BY <2>1, <2>3, FS_Subset
  <2>5. Cardinality(T) \in Nat
    BY <2>4, FS_CardinalityType
  <2> QED
    BY <2>1, <2>2, <2>3, <2>4, <2>5
<1> HIDE DEF T
<1>2. t \in Seq(Cells) /\ Len(t) = Cardinality(T) /\ Len(t) \in Nat
  BY <1>1, Listed
<1> HIDE DEF t
<1>3. /\ <<c>> \o t \in Seq(Cells) /\ (<<c>> \o t)[1] = c /\ Len(<<c>> \o t) = Len(t) + 1
  BY <1>2
<1>4. /\ <<c>> \in Seq(Cells) /\ <<c>>[1] = c /\ Len(<<c>>) = 1
  OBVIOUS
<1>5. Collected(p, c, res) = <<c>> \o t \/ Collected(p, c, res) = <<c>>
  BY DEF Collected, t, T
<1>6. Len(<<c>> \o t) \in 1 .. MaxPages /\ Len(<<c>>) \in 1 .. MaxPages
  <2>1. Cardinality(T) \in Nat /\ MaxPages \in Nat /\ Cardinality(T) < MaxPages
    BY <1>1, <1>2
  <2> QED
    BY <1>2, <1>3, <1>4, <2>1
<1>7. CASE Collected(p, c, res) = <<c>> \o t
  BY <1>3, <1>6, <1>7
<1>8. CASE Collected(p, c, res) = <<c>>
  BY <1>4, <1>6, <1>8
<1> QED
  BY <1>5, <1>7, <1>8

(* A provider answers with the whole reply. *)
LEMMA PagesAre ==
    ASSUME case \in Cases, IsCalm(case), NEW p \in GoodOf(case), NEW c \in Cells, NEW res,
           NEW r, Unstaged(r)
    PROVE  /\ Answer(p, c, res) # {} /\ IsReply(case, c, Answer(p, c, res), r, p)
           /\ \A o \in Answer(p, c, res) : o.code = "found" /\ o.cell = c
<1>1. PICK s : s = Collected(p, c, res)
  OBVIOUS
<1>2. s \in Seq(Cells) /\ s[1] = c /\ Len(s) \in 1 .. MaxPages /\ Len(s) \in Nat
  BY <1>1, CollectedIs
<1>3. PICK P : P = {[code |-> "found", from |-> p, cell |-> c, page |-> n, total |-> Len(s),
                     cells |-> {s[n]}] : n \in 1 .. Len(s)}
  OBVIOUS
<1>4. Answer(p, c, res) = P
  <2>1. c \in case.holds[p] /\ ~NeedsPayment(p)
    BY DEF GoodOf, NeedsPayment
  <2>2. Len(Collected(p, c, res)) <= MaxPages
    BY <1>1, <1>2
  <2>3. Pages(p, c, res) = P
    BY <1>1, <1>3 DEF Pages
  <2> QED
    BY <2>1, <2>2, <2>3 DEF Answer
<1>5. /\ \A o \in P : /\ o.code = "found" /\ o.cell = c /\ o.from = p /\ o.total = Len(s)
                      /\ o.page \in 1 .. Len(s) /\ o.cells = {s[o.page]}
  BY <1>3
<1>6. ASSUME NEW o \in P, NEW q \in P, o.page = q.page PROVE o = q
  <2>1. PICK n \in 1 .. Len(s) : o = [code |-> "found", from |-> p, cell |-> c, page |-> n,
                                     total |-> Len(s), cells |-> {s[n]}]
    BY <1>3
  <2>2. PICK i \in 1 .. Len(s) : q = [code |-> "found", from |-> p, cell |-> c, page |-> i,
                                     total |-> Len(s), cells |-> {s[i]}]
    BY <1>3
  <2>3. n = i
    BY <1>6, <2>1, <2>2
  <2> QED
    BY <2>1, <2>2, <2>3
<1>7. {o.page : o \in P} = 1 .. Len(s) /\ P # {}
  <2>1. ASSUME NEW n \in 1 .. Len(s) PROVE \E o \in P : o.page = n
    <3>1. [code |-> "found", from |-> p, cell |-> c, page |-> n, total |-> Len(s),
           cells |-> {s[n]}] \in P
      BY <1>3
    <3> QED
      BY <3>1
  <2>2. 1 \in 1 .. Len(s)
    BY <1>2
  <2> QED
    BY <1>5, <2>1, <2>2
<1>8. IsReply(case, c, P, r, p)
  BY <1>2, <1>5, <1>6, <1>7 DEF IsReply, Unstaged
<1> QED
  BY <1>4, <1>5, <1>7, <1>8

(* Who is asked first and does not hold the cell names those it knows. *)
LEMMA HintIs ==
    ASSUME case \in Cases, IsCalm(case), NEW p \in Peers, p = FirstAsked(case), p \notin GoodOf(case),
           NEW c \in Cells, NEW res
    PROVE  /\ Redirects(case) /\ p = NearOf(case)
           /\ \E h : /\ Answer(p, c, res) = {h} /\ h.code = "provider" /\ h.cell = c
                     /\ h.contacts = ContactsOf(case)
<1>1. Redirects(case) /\ p = NearOf(case)
  BY RequestsAssumption DEF IsCalm, FirstAsked, Redirects, RequestsAssumption
<1>2. c \notin case.holds[p]
  BY <1>1 DEF Redirects
<1>3. PICK h : h = [code |-> "provider", from |-> p, cell |-> c, contacts |-> ContactsOf(case)]
  OBVIOUS
<1>4. Answer(p, c, res) = {h}
  <2>1. CASE case.index[p] # << >>
    BY <1>1, <1>2, <1>3, <2>1 DEF Answer, Redirection, ContactsOf
  <2>2. CASE case.index[p] = << >>
    <3>1. ContactsOf(case) = <<case.nearest[p]>>
      BY <1>1, <2>2 DEF ContactsOf
    <3>2. case.nearest[p] # NoPeer
      <4>1. ContactsOf(case)[1] \in GoodOf(case)
        BY <1>1, <3>1 DEF IsCalm
      <4> QED
        BY <3>1, <4>1, RequestsAssumption DEF GoodOf, RequestsAssumption
    <3> QED
      BY <1>2, <1>3, <2>2, <3>1, <3>2 DEF Answer, Redirection
  <2> QED
    BY <2>1, <2>2
<1> QED
  BY <1>1, <1>3, <1>4

LEMMA AnswerOf ==
    ASSUME case \in Cases, IsCalm(case), NEW p,
           p \in GoodOf(case) \/ (p = FirstAsked(case) /\ p # NoPeer),
           NEW c \in Cells, NEW res
    PROVE  \A o \in Answer(p, c, res) : o.code \in {"found", "provider"} /\ o.cell = c
<1>1. CASE p \in GoodOf(case)
  <2>1. PICK r : r = NewClaim(res)
    OBVIOUS
  <2>2. Unstaged(r)
    BY <2>1 DEF Unstaged, NewClaim, NoPages
  <2> QED
    BY <1>1, <2>2, PagesAre
<1>2. CASE p \notin GoodOf(case)
  <2>1. p \in Peers /\ p = FirstAsked(case)
    BY <1>2, RequestsAssumption DEF IsCalm, FirstAsked, Redirects, RequestsAssumption
  <2>2. PICK h : Answer(p, c, res) = {h} /\ h.code = "provider" /\ h.cell = c
    BY <1>2, <2>1, HintIs
  <2> QED
    BY <2>2
<1> QED
  BY <1>1, <1>2

LEMMA ServeStep ==
    ASSUME CalmInv, case \in Cases, IsCalm(case), NEW m \in wire, Serve(m)
    PROVE  CalmInv'
<1> DEFINE N == UNION {Answer(m.to, e[1], e[2]) : e \in m.entries}
<1>1. /\ m.code = "get" /\ wire' = (wire \ {m}) \cup N
      /\ UNCHANGED <<case, hot, buffer, taken, chunk, pending, storing, fetch, delayed, mishaps>>
  BY DEF Serve, sender
<1>2. /\ m.entries \subseteq Cells \X Resolutions
      /\ \A d, e \in m.entries : d[1] = e[1] => d = e
  BY <1>1 DEF CalmInv, NetOK
<1>3. ASSUME NEW c \in Cells, m \in Gets(c)
      PROVE  m.to \in GoodOf(case) \/ (m.to = FirstAsked(case) /\ m.to # NoPeer)
  <2>1. PICK v : v = Cell(c)
    OBVIOUS
  <2>2. Sound(case, v) /\ m \in v.gets
    BY <1>3, <2>1, Fields DEF CalmInv
  <2> QED
    BY <2>2 DEF Sound, Addressed
<1>4. ASSUME NEW e \in m.entries
      PROVE  /\ e[1] \in Cells /\ m \in Gets(e[1])
             /\ \A o \in Answer(m.to, e[1], e[2]) : o.code \in {"found", "provider"} /\ o.cell = e[1]
  <2>1. PICK c \in Cells, res \in Resolutions : e = <<c, res>>
    BY <1>2
  <2>2. e[1] = c /\ e[2] = res
    BY <2>1
  <2>3. m \in Gets(c)
    BY <1>1, <2>2 DEF Gets
  <2>4. PICK p : p = m.to
    OBVIOUS
  <2>5. \A o \in Answer(p, c, res) : o.code \in {"found", "provider"} /\ o.cell = c
    BY <1>3, <2>3, <2>4, AnswerOf
  <2> QED
    BY <2>2, <2>3, <2>4, <2>5
<1>5. \A o \in N : \E e \in m.entries : /\ o \in Answer(m.to, e[1], e[2]) /\ o.cell = e[1]
                                        /\ o.code \in {"found", "provider"} /\ e[1] \in Cells
  BY <1>4
<1>6. \A e \in m.entries : Answer(m.to, e[1], e[2]) \subseteq N
  OBVIOUS
<1> HIDE DEF N
<1>7. \A c : /\ Gets(c)' = Gets(c) \ {m}
             /\ Hints(c)' = Hints(c) \cup {o \in N : o.code = "provider" /\ o.cell = c}
             /\ Found(c)' = Found(c) \cup {o \in N : o.code = "found" /\ o.cell = c}
  <2>1. \A o \in N : o.code # "get"
    BY <1>5
  <2> QED
    BY <1>1, <2>1 DEF Gets, Hints, Found
<1>8. ASSUME NEW c \in Cells, m \notin Gets(c) PROVE Sound(case, Cell(c))'
  <2>1. \A e \in m.entries : e[1] # c
    BY <1>1, <1>8 DEF Gets
  <2>2. \A o \in N : o.cell # c
    BY <1>5, <2>1
  <2>3. Gets(c)' = Gets(c) /\ Hints(c)' = Hints(c) /\ Found(c)' = Found(c)
    BY <1>7, <1>8, <2>2
  <2>4. Got' = Got /\ (c \in hot => c \in Got)
    BY <1>1 DEF Got
  <2> QED
    BY <1>1, <2>3, <2>4, Apart
<1>9. ASSUME NEW c \in Cells, m \in Gets(c) PROVE Sound(case, Cell(c))'
  <2>1. PICK v : v = Cell(c)
    OBVIOUS
  <2>2. PICK w : w = Cell(c)'
    OBVIOUS
  <2>3. Sound(case, v) /\ m \in v.gets
    BY <1>9, <2>1, Fields DEF CalmInv
  <2>4. v.gets = {m} /\ v.hints = {} /\ v.found = {} /\ Unstaged(v.claim)
    BY <2>3 DEF Sound, IsAt
  <2>5. PICK e \in m.entries : e[1] = c
    BY <1>9 DEF Gets
  <2>6. PICK res : res = e[2]
    OBVIOUS
  <2>7. PICK p : p = m.to
    OBVIOUS
  <2>8. PICK A : A = Answer(p, c, res)
    OBVIOUS
  <2>9. {o \in N : o.cell = c} = A /\ A \subseteq N
    <3>1. ASSUME NEW o \in N, o.cell = c PROVE o \in A
      BY <1>2, <1>5, <2>5, <2>6, <2>7, <2>8, <3>1
    <3>2. ASSUME NEW o \in A PROVE o \in N /\ o.cell = c
      BY <1>4, <1>6, <2>5, <2>6, <2>7, <2>8
    <3> QED
      BY <3>1, <3>2
  <2>10. /\ w.gets = {} /\ w.hints = {o \in A : o.code = "provider"}
         /\ w.found = {o \in A : o.code = "found"}
    <3>1. Gets(c) = {m} /\ Hints(c) = {} /\ Found(c) = {}
      BY <2>1, <2>4, Fields
    <3>2. /\ Gets(c)' = {} /\ Hints(c)' = {o \in A : o.code = "provider"}
          /\ Found(c)' = {o \in A : o.code = "found"}
      BY <1>7, <2>9, <3>1
    <3> QED
      BY <2>2, <3>2, FieldsNext
  <2>11. SameFetch(v, w)
    BY <1>1, <2>1, <2>2, Seated
  <2>12. SameQueues(v, w) /\ w.claim = v.claim
    BY <1>1, <2>1, <2>2, Fields, FieldsNext DEF SameQueues
  <2>13. SameHot(v, w)
    <3>1. Got' = Got
      BY <1>1 DEF Got
    <3> QED
      BY <1>1, <2>1, <2>2, <3>1, Fields, FieldsNext DEF SameHot
  <2>14. v.cell = c
    BY <2>1, Fields
  <2>15. CASE p \in GoodOf(case)
    <3>1. PICK r : r = v.claim
      OBVIOUS
    <3>2. /\ A # {} /\ IsReply(case, c, A, r, p)
          /\ \A o \in A : o.code = "found" /\ o.cell = c
      BY <2>4, <2>8, <2>15, <3>1, PagesAre
    <3>3. w.found = A /\ w.hints = {}
      BY <2>10, <3>2
    <3>4. Sound(case, w)
      BY <2>3, <2>4, <2>10, <2>11, <2>12, <2>13, <2>14, <3>1, <3>2, <3>3, Paged
    <3> QED
      BY <1>1, <2>2, <3>4
  <2>16. CASE p \notin GoodOf(case)
    <3>1. p = FirstAsked(case) /\ p # NoPeer
      BY <1>3, <1>9, <2>7, <2>16
    <3>2. p \in Peers
      BY <2>16, <3>1, RequestsAssumption DEF IsCalm, FirstAsked, Redirects, RequestsAssumption
    <3>3. /\ Redirects(case) /\ p = NearOf(case)
          /\ \E h : /\ A = {h} /\ h.code = "provider" /\ h.cell = c
                    /\ h.contacts = ContactsOf(case)
      BY <2>8, <2>16, <3>1, <3>2, HintIs
    <3>4. PICK h : A = {h} /\ h.code = "provider" /\ h.contacts = ContactsOf(case)
      BY <3>3
    <3>5. w.hints = {h} /\ w.found = {}
      BY <2>10, <3>4
    <3>6. Sound(case, w)
      BY <2>3, <2>4, <2>7, <2>10, <2>11, <2>12, <2>13, <3>3, <3>4, <3>5, Redirected
    <3> QED
      BY <1>1, <2>2, <3>6
  <2> QED
    BY <2>15, <2>16
<1>10. NetOK'
  <2>1. \A o \in N : o.code \in {"found", "provider"} /\ o.cell \in Cells
    BY <1>5
  <2> QED
    BY <1>1, <2>1 DEF CalmInv, NetOK, Queued
<1>11. /\ {buffer', taken', chunk'} \subseteq [Cells -> Entry \cup {NoEntry}]
       /\ pending' \in [Cells -> Request \cup {NoRequest}] /\ storing' \in Seq(Cells)
  BY <1>1 DEF CalmInv, Shaped
<1> QED
  BY <1>1, <1>8, <1>9, <1>10, <1>11, OtherStep

-----------------------------------------------------------------------------
(* The thread that receives.                                               *)

LEMMA ReceivedOne ==
    ASSUME CalmInv, NEW m \in wire, m.code \in {"found", "provider"}, NEW c \in Cells, m.cell = c,
           wire' = wire \ {m}, UNCHANGED <<case, hot, taken, chunk, fetch, delayed, mishaps>>,
           storing = << >>, storing' \in Seq(Cells),
           buffer' \in [Cells -> Entry \cup {NoEntry}],
           pending' \in [Cells -> Request \cup {NoRequest}],
           \A d \in Cells \ {c} : buffer'[d] = buffer[d] /\ pending'[d] = pending[d],
           Sound(case, Cell(c))'
    PROVE  CalmInv'
<1>1. ASSUME NEW d \in Cells, d # c PROVE Sound(case, Cell(d))'
  <2>1. Gets(d)' = Gets(d) /\ Hints(d)' = Hints(d) /\ Found(d)' = Found(d)
    BY <1>1 DEF Gets, Hints, Found
  <2>2. Got = hot
    BY DEF Got, ToSet
  <2>3. hot' \subseteq Got'
    BY DEF Got
  <2> QED
    BY <1>1, <2>1, <2>2, <2>3, Apart
<1>2. \A d \in Cells : Sound(case, Cell(d))'
  BY <1>1
<1>3. NetOK'
  BY DEF CalmInv, NetOK, Queued
<1>4. {buffer', taken', chunk'} \subseteq [Cells -> Entry \cup {NoEntry}]
  BY DEF CalmInv, Shaped
<1> QED
  BY <1>2, <1>3, <1>4, OtherStep

LEMMA StagedIs ==
    ASSUME NEW r \in Request, NEW m, m.from \in Peers, m.total \in 1 .. MaxPages,
           m.page \in 1 .. MaxPages, m.cells \subseteq Cells, NEW q, q = Staged(r, m)
    PROVE  IsStaged(r, q, m)
<1>1. PICK pages : pages = [n \in DOMAIN r.pages \cup {m.page} |->
                              IF n = m.page THEN m.cells ELSE r.pages[n]]
  OBVIOUS
<1>2. pages \in Staging
  <2>1. PICK D \in SUBSET (1 .. MaxPages) : r.pages \in [D -> SUBSET Cells]
    BY DEF Request, Staging
  <2>2. PICK E : E = D \cup {m.page}
    OBVIOUS
  <2>3. E \in SUBSET (1 .. MaxPages) /\ pages \in [E -> SUBSET Cells]
    BY <1>1, <2>1, <2>2
  <2> QED
    BY <2>3 DEF Staging
<1>3. q = [r EXCEPT !.from = m.from, !.total = m.total, !.left = Ttl, !.pages = pages]
  BY <1>1 DEF Staged
<1>4. /\ Ttl \in 0 .. Ttl /\ m.total \in Nat /\ NoRequest \notin Request
  BY RequestsAssumption DEF RequestsAssumption
<1>5. q \in Request
  BY <1>2, <1>3, <1>4 DEF Request
<1>6. q.from = m.from /\ q.total = m.total /\ q.left = Ttl /\ q.next = r.next /\ q.pages = pages
  BY <1>3 DEF Request
<1> QED
  BY <1>1, <1>4, <1>5, <1>6 DEF IsStaged

(* What is kept of a reply, and stored before the cell. *)
LEMMA KeptIs ==
    ASSUME NEW c \in Cells, NEW q, NEW s, s = SetToSeq(Kept(c, q)) \o <<c>>
    PROVE  s \in Seq(Cells) /\ c \in ToSet(s)
<1>1. PICK K : K = Kept(c, q)
  OBVIOUS
<1>2. IsFiniteSet(K) /\ K \subseteq Cells
  <2>1. IsFiniteSet(Inner[c]) /\ Inner[c] \subseteq Cells
    BY RequestsAssumption, FS_Subset DEF RequestsAssumption
  <2>2. K \in SUBSET Inner[c]
    BY <1>1 DEF Kept
  <2> QED
    BY <2>1, <2>2, FS_Subset
<1>3. PICK t : t = SetToSeq(K)
  OBVIOUS
<1>4. t \in Seq(Cells)
  BY <1>2, <1>3, Listed
<1>5. s = t \o <<c>>
  BY <1>1, <1>3
<1>6. s \in Seq(Cells) /\ Len(s) = Len(t) + 1 /\ Len(t) \in Nat /\ s[Len(t) + 1] = c
  <2>1. PICK u : u = <<c>>
    OBVIOUS
  <2>2. u \in Seq(Cells) /\ Len(u) = 1 /\ u[1] = c
    BY <2>1
  <2>3. /\ s \in Seq(Cells) /\ Len(s) = Len(t) + Len(u) /\ Len(t) \in Nat
        /\ \A i \in 1 .. Len(t) + Len(u) : s[i] = IF i <= Len(t) THEN t[i] ELSE u[i - Len(t)]
    <3>1. s = t \o u
      BY <1>5, <2>1
    <3> QED
      BY ONLY <1>4, <2>2, <3>1, ConcatProperties, LenProperties
  <2>4. Len(t) + 1 \in 1 .. Len(t) + Len(u) /\ ~(Len(t) + 1 <= Len(t))
    BY <2>2, <2>3
  <2>5. (Len(t) + 1) - Len(t) = 1
    BY <2>3
  <2> QED
    BY <2>2, <2>3, <2>4, <2>5
<1>8. Len(t) + 1 \in 1 .. Len(s)
  BY <1>6
<1> QED
  BY <1>6, <1>8 DEF ToSet

(* A page comes. *)
LEMMA ReceiveFound ==
    ASSUME CalmInv, NEW m \in wire, m.code = "found", ReceiveResponse(m)
    PROVE  CalmInv'
<1>1. PICK c \in Cells : m.cell = c
  BY DEF CalmInv, NetOK
<1>2. PICK v : v = Cell(c)
  OBVIOUS
<1>3. PICK w : w = Cell(c)'
  OBVIOUS
<1>4. Sound(case, v) /\ m \in v.found
  <2>1. m \in Found(c)
    BY <1>1 DEF Found
  <2> QED
    BY <1>2, <2>1, Fields DEF CalmInv
<1>5. Alive(v) /\ \E p : IsReply(case, v.cell, v.found, v.claim, p)
  BY <1>4 DEF Sound, IsAt
<1>6. PICK r : r = pending[c]
  OBVIOUS
<1>7. v.claim = r /\ v.cell = c /\ v.found = Found(c) /\ v.got = v.got
  BY <1>2, <1>6, Fields
<1>8. Live(c) /\ r \in Request
  BY <1>5, <1>6, <1>7 DEF Live, Alive, CalmInv, Shaped
<1>9. PICK p : IsReply(case, c, v.found, r, p)
  BY <1>5, <1>7
<1>10. PICK q : q = Staged(r, m)
  OBVIOUS
<1>11. Fits(r, m) /\ IsStaged(r, q, m)
  <2>1. PICK found : found = v.found
    OBVIOUS
  <2>2. /\ Fits(r, m) /\ m.from \in Peers /\ m.total \in 1 .. MaxPages
        /\ m.page \in 1 .. MaxPages /\ m.cells \subseteq Cells
    BY <1>4, <1>8, <1>9, <2>1, PageFits
  <2> QED
    BY <1>8, <1>10, <2>2, StagedIs
<1>12. /\ IsComplete(q) => v.found \ {m} = {} /\ c \in Delivered(q)
       /\ q \in Request
  <2>1. PICK found : found = v.found
    OBVIOUS
  <2>2. IsReply(case, c, found, r, p) /\ m \in found /\ IsStaged(r, q, m)
    BY <1>4, <1>9, <1>11, <2>1
  <2>3. PICK k : k = case
    OBVIOUS
  <2>4. IsReply(k, c, found, r, p)
    BY <2>2, <2>3
  <2>5. IsComplete(q) => found \ {m} = {} /\ c \in Delivered(q)
    BY ONLY <2>2, <2>4, PageStaged
  <2> QED
    BY <1>11, <2>1, <2>5 DEF IsStaged
<1>13. /\ storing = << >> /\ wire' = wire \ {m}
       /\ ReceivePage(m) /\ UNCHANGED buffer
       /\ UNCHANGED <<case, hot, taken, chunk, fetch, delayed, mishaps>>
  BY <1>1, <1>8 DEF ReceiveResponse, sender
<1>14. IF ~IsComplete(q)
       THEN pending' = [pending EXCEPT ![c] = q] /\ storing' = storing
       ELSE pending' = Popped(pending, {c}) /\ storing' = SetToSeq(Kept(c, q)) \o <<c>>
  BY <1>1, <1>6, <1>10, <1>11, <1>12, <1>13 DEF ReceivePage
<1>15. pending \in [Cells -> Request \cup {NoRequest}] /\ buffer \in [Cells -> Entry \cup {NoEntry}]
  BY DEF CalmInv, Shaped
<1>16. /\ w.found = v.found \ {m} /\ w.gets = v.gets /\ w.hints = v.hints
       /\ w.hot = v.hot /\ w.cell = v.cell
  <2>1. Found(c)' = Found(c) \ {m} /\ Gets(c)' = Gets(c) /\ Hints(c)' = Hints(c)
    BY <1>1, <1>13 DEF Found, Gets, Hints
  <2>2. w.found = v.found \ {m} /\ w.gets = v.gets /\ w.hints = v.hints
    BY <1>2, <1>3, <2>1, Fields, FieldsNext
  <2>3. w.hot = v.hot /\ w.cell = v.cell
    BY <1>2, <1>3, <1>13, Fields, FieldsNext
  <2> QED
    BY <2>2, <2>3
<1>17. SameQueues(v, w)
  BY <1>2, <1>3, <1>13, Fields, FieldsNext DEF SameQueues
<1>18. SameFetch(v, w)
  BY <1>2, <1>3, <1>13, Seated
<1>19. CASE ~IsComplete(q)
  <2>1. pending' = [pending EXCEPT ![c] = q] /\ storing' = storing
    BY <1>14, <1>19
  <2>2. w.claim = q
    BY <1>3, <1>15, <2>1, FieldsNext
  <2>3. SameHot(v, w)
    <3>1. Got' = Got
      BY <1>13, <2>1 DEF Got
    <3> QED
      BY <1>2, <1>3, <1>16, <3>1, Fields, FieldsNext DEF SameHot
  <2>4. Sound(case, w)
    BY <1>4, <1>7, <1>11, <1>16, <1>17, <1>18, <1>19, <2>2, <2>3, Staging1
  <2>5. Sound(case, Cell(c))'
    BY <1>3, <1>13, <2>4
  <2>6. /\ pending' \in [Cells -> Request \cup {NoRequest}] /\ storing' \in Seq(Cells)
        /\ buffer' \in [Cells -> Entry \cup {NoEntry}]
        /\ \A d \in Cells \ {c} : buffer'[d] = buffer[d] /\ pending'[d] = pending[d]
    BY <1>12, <1>13, <1>15, <2>1 DEF CalmInv, Shaped
  <2> QED
    BY <1>1, <1>13, <2>5, <2>6, ReceivedOne
<1>20. CASE IsComplete(q)
  <2>1. pending' = Popped(pending, {c}) /\ storing' = SetToSeq(Kept(c, q)) \o <<c>>
    BY <1>14, <1>20
  <2>2. pending'[c] = NoRequest /\ \A d \in Cells \ {c} : pending'[d] = pending[d]
    BY <2>1 DEF Popped
  <2>3. storing' \in Seq(Cells) /\ c \in ToSet(storing')
    BY <2>1, KeptIs
  <2>4. w.claim = NoRequest
    BY <1>3, <2>2, FieldsNext
  <2>5. w.got /\ w.got \in BOOLEAN
    <3>1. c \in Got'
      BY <2>3 DEF Got
    <3> QED
      BY <1>3, <3>1, FieldsNext
  <2>6. w.found = {}
    BY <1>12, <1>16, <1>20
  <2>7. Sound(case, w)
    BY <1>4, <1>16, <1>17, <1>18, <2>4, <2>5, <2>6, Completed
  <2>8. Sound(case, Cell(c))'
    BY <1>3, <1>13, <2>7
  <2>9. /\ pending' \in [Cells -> Request \cup {NoRequest}]
        /\ buffer' \in [Cells -> Entry \cup {NoEntry}]
        /\ \A d \in Cells \ {c} : buffer'[d] = buffer[d] /\ pending'[d] = pending[d]
    BY <1>13, <1>15, <2>1, <2>2 DEF Popped
  <2> QED
    BY <1>1, <1>13, <2>3, <2>8, <2>9, ReceivedOne
<1> QED
  BY <1>19, <1>20

(* The claim keeps the second provider. *)
LEMMA NextIs ==
    ASSUME NEW r \in Request, NEW next \in Peers, NEW w, w = [r EXCEPT !.next = next]
    PROVE  IsRenewed(r, w, next, r.left)
<1>1. w \in Request
  BY DEF Request
<1>2. NoRequest \notin Request
  BY RequestsAssumption DEF RequestsAssumption
<1>3. /\ w.next = next /\ w.left = r.left
      /\ w.from = r.from /\ w.pages = r.pages /\ w.total = r.total
  BY DEF Request
<1> QED
  BY <1>1, <1>2, <1>3 DEF IsRenewed

(* A redirection comes. *)
LEMMA ReceiveHint ==
    ASSUME CalmInv, IsCalm(case), NEW m \in wire, m.code = "provider", ReceiveResponse(m)
    PROVE  CalmInv'
<1>1. PICK c \in Cells : m.cell = c
  BY DEF CalmInv, NetOK
<1>2. PICK v : v = Cell(c)
  OBVIOUS
<1>3. PICK w : w = Cell(c)'
  OBVIOUS
<1>4. Sound(case, v) /\ m \in v.hints
  <2>1. m \in Hints(c)
    BY <1>1 DEF Hints
  <2> QED
    BY <1>2, <2>1, Fields DEF CalmInv
<1>5. Alive(v) /\ v.hints = {m} /\ Redirects(case) /\ m.contacts = ContactsOf(case)
  BY <1>4 DEF Sound, IsAt, Addressed
<1>6. PICK r : r = pending[c]
  OBVIOUS
<1>7. v.claim = r /\ v.buffer = buffer[c]
  BY <1>2, <1>6, Fields
<1>8. Live(c) /\ r \in Request /\ r.res \in Resolutions
  <2>1. Live(c) /\ r \in Request
    BY <1>5, <1>6, <1>7 DEF Live, Alive, CalmInv, Shaped
  <2> QED
    BY <2>1 DEF Request
<1>9. /\ m.contacts \in Seq(Peers) /\ m.contacts[1] \in Peers
      /\ Len(m.contacts) > 1 => m.contacts[2] \in Peers
  <2>1. m.contacts \in Seq(Peers) /\ Len(m.contacts) > 0
    BY <1>5 DEF IsCalm
  <2> QED
    BY <2>1
<1>10. PICK e : e = [to |-> m.contacts[1], res |-> r.res, claimed |-> TRUE]
  OBVIOUS
<1>11. e \in Entry /\ e.claimed /\ e.to = m.contacts[1]
  BY <1>8, <1>9, <1>10 DEF Entry
<1>12. /\ storing = << >> /\ wire' = wire \ {m}
       /\ ReceiveProviders(m) /\ storing' = storing
       /\ UNCHANGED <<case, hot, taken, chunk, fetch, delayed, mishaps>>
  BY <1>1, <1>8 DEF ReceiveResponse, sender
<1>13. /\ Puts(c, e)
       /\ IF Len(m.contacts) > 1 THEN pending' = [pending EXCEPT ![c].next = m.contacts[2]]
          ELSE pending' = pending
  BY <1>1, <1>6, <1>10, <1>12 DEF ReceiveProviders, Retried, Buffered, Puts
<1>14. /\ pending \in [Cells -> Request \cup {NoRequest}]
       /\ buffer \in [Cells -> Entry \cup {NoEntry}] /\ storing \in Seq(Cells)
  BY DEF CalmInv, Shaped
<1>15. /\ buffer' \in [Cells -> Entry \cup {NoEntry}]
       /\ buffer'[c] = IF buffer[c] = NoEntry THEN e ELSE buffer[c]
       /\ \A d \in Cells \ {c} : buffer'[d] = buffer[d]
  BY <1>11, <1>13, <1>14 DEF Puts
<1>16. /\ pending' \in [Cells -> Request \cup {NoRequest}]
       /\ IF Len(m.contacts) > 1 THEN IsRenewed(r, pending'[c], m.contacts[2], r.left)
          ELSE pending'[c] = r
       /\ \A d \in Cells \ {c} : pending'[d] = pending[d]
  <2>1. CASE Len(m.contacts) > 1
    <3>1. PICK next \in Peers : next = m.contacts[2]
      BY <1>9, <2>1
    <3>2. PICK q : q = [r EXCEPT !.next = next]
      OBVIOUS
    <3>3. IsRenewed(r, q, next, r.left)
      BY <1>8, <3>2, NextIs
    <3>4. q \in Request
      BY <3>3 DEF IsRenewed
    <3>5. pending' = [pending EXCEPT ![c] = q]
      BY <1>6, <1>13, <2>1, <3>1, <3>2
    <3> QED
      BY <1>14, <2>1, <3>1, <3>3, <3>4, <3>5
  <2>2. CASE ~(Len(m.contacts) > 1)
    BY <1>6, <1>13, <1>14, <2>2
  <2> QED
    BY <2>1, <2>2
<1>17. /\ w.hints = v.hints \ {m} /\ w.gets = v.gets /\ w.found = v.found
  <2>1. Found(c)' = Found(c) /\ Gets(c)' = Gets(c) /\ Hints(c)' = Hints(c) \ {m}
    BY <1>1, <1>12 DEF Found, Gets, Hints
  <2> QED
    BY <1>2, <1>3, <2>1, Fields, FieldsNext
<1>18. SameHot(v, w)
  <2>1. Got' = Got
    BY <1>12 DEF Got
  <2> QED
    BY <1>2, <1>3, <1>12, <2>1, Fields, FieldsNext DEF SameHot
<1>19. SameFetch(v, w)
  BY <1>2, <1>3, <1>12, Seated
<1>20. v.got => v.hot
  <2>1. Got = hot
    BY <1>12 DEF Got, ToSet
  <2> QED
    BY <1>2, <2>1, Fields
<1>21. /\ w.buffer = (IF v.buffer = NoEntry THEN e ELSE v.buffer)
       /\ w.taken = v.taken /\ w.chunk = v.chunk
  <2>1. w.buffer = buffer'[c] /\ w.taken = taken'[c] /\ w.chunk = chunk'[c]
    BY <1>3, FieldsNext
  <2>2. v.taken = taken[c] /\ v.chunk = chunk[c]
    BY <1>2, Fields
  <2> QED
    BY <1>7, <1>12, <1>15, <2>1, <2>2
<1>22. IF Len(m.contacts) > 1 THEN IsRenewed(v.claim, w.claim, m.contacts[2], v.claim.left)
       ELSE w.claim = v.claim
  <2>1. w.claim = pending'[c]
    BY <1>3, FieldsNext
  <2> QED
    BY <1>7, <1>16, <2>1
<1>23. Sound(case, w)
  BY <1>4, <1>11, <1>17, <1>18, <1>19, <1>20, <1>21, <1>22, Hinted
<1>24. Sound(case, Cell(c))'
  BY <1>3, <1>12, <1>23
<1> QED
  BY <1>1, <1>12, <1>14, <1>15, <1>16, <1>24, ReceivedOne

LEMMA ResponseStep ==
    ASSUME CalmInv, IsCalm(case), NEW m \in wire, ReceiveResponse(m)
    PROVE  CalmInv'
<1>1. m.code \in {"found", "provider"}
  BY DEF CalmInv, NetOK, ReceiveResponse
<1> QED
  BY <1>1, ReceiveFound, ReceiveHint

-----------------------------------------------------------------------------
(* The storage, the registry and time.                                     *)

LEMMA StoreStep ==
    ASSUME CalmInv, Store
    PROVE  CalmInv'
<1>1. /\ storing # << >> /\ hot' = hot \cup {Head(storing)} /\ storing' = Tail(storing)
      /\ UNCHANGED <<case, buffer, taken, chunk, pending, fetch, wire, delayed, mishaps>>
  BY DEF Store, sender
<1>2. storing \in Seq(Cells)
  BY DEF CalmInv, Shaped
<1>3. PICK s : s = storing
  OBVIOUS
<1>4. s \in Seq(Cells) /\ s # << >>
  BY <1>1, <1>2, <1>3
<1>5. Tail(s) \in Seq(Cells) /\ ToSet(s) = ToSet(Tail(s)) \cup {Head(s)}
  <2>1. PICK t : t = Tail(s)
    OBVIOUS
  <2>2. /\ Len(s) \in Nat \ {0} /\ t \in Seq(Cells) /\ Len(t) = Len(s) - 1
        /\ Head(s) = s[1] /\ \A i \in 1 .. Len(s) - 1 : t[i] = s[i + 1]
    BY <1>4, <2>1
  <2>3. /\ \A x : x \in ToSet(s) <=> \E i \in 1 .. Len(s) : s[i] = x
        /\ \A x : x \in ToSet(t) <=> \E i \in 1 .. Len(t) : t[i] = x
    BY <1>4, <2>2 DEF ToSet
  <2>4. ASSUME NEW i \in 1 .. Len(s) PROVE s[i] \in ToSet(t) \cup {Head(s)}
    <3>1. CASE i = 1
      BY <2>2, <3>1
    <3>2. CASE i # 1
      <4>1. i - 1 \in 1 .. Len(t) /\ t[i - 1] = s[i]
        BY <2>2, <3>2
      <4> QED
        BY <2>3, <4>1
    <3> QED
      BY <3>1, <3>2
  <2>5. ASSUME NEW i \in 1 .. Len(t) PROVE t[i] \in ToSet(s)
    <3>1. i + 1 \in 1 .. Len(s) /\ t[i] = s[i + 1]
      BY <2>2
    <3> QED
      BY <2>3, <3>1
  <2>6. Head(s) \in ToSet(s)
    BY <2>2, <2>3
  <2>7. ToSet(s) = ToSet(t) \cup {Head(s)}
    BY <2>3, <2>4, <2>5, <2>6
  <2> QED
    BY <2>1, <2>2, <2>7
<1>6. Got' = Got /\ hot \subseteq hot'
  BY <1>1, <1>3, <1>5 DEF Got
<1>7. ASSUME NEW c \in Cells PROVE Sound(case, Cell(c))'
  <2>1. Gets(c)' = Gets(c) /\ Hints(c)' = Hints(c) /\ Found(c)' = Found(c)
    BY <1>1 DEF Gets, Hints, Found
  <2>2. c \in hot' => c \in Got'
    BY DEF Got
  <2> QED
    BY <1>1, <1>6, <2>1, <2>2, Apart
<1>8. NetOK'
  BY <1>1 DEF CalmInv, NetOK, Queued
<1>9. /\ {buffer', taken', chunk'} \subseteq [Cells -> Entry \cup {NoEntry}]
      /\ pending' \in [Cells -> Request \cup {NoRequest}] /\ storing' \in Seq(Cells)
  BY <1>1, <1>3, <1>5 DEF CalmInv, Shaped
<1> QED
  BY <1>1, <1>6, <1>7, <1>8, <1>9, OtherStep

LEMMA PruneStep ==
    ASSUME CalmInv, Prune
    PROVE  CalmInv'
<1> DEFINE expired == {c \in Cells : pending[c] # NoRequest /\ ~Live(c)}
<1>1. /\ pending' = Popped(pending, expired)
      /\ UNCHANGED <<case, hot, buffer, taken, chunk, storing, fetch, wire, delayed, mishaps>>
  BY DEF Prune, sender
<1>2. \A c \in Cells : IF c \in expired THEN pending'[c] = NoRequest ELSE pending'[c] = pending[c]
  BY <1>1 DEF Popped
<1>3. \A c \in Cells : c \in expired => ~Live(c)
  OBVIOUS
<1>4. pending' \in [Cells -> Request \cup {NoRequest}]
  <2>1. pending \in [Cells -> Request \cup {NoRequest}]
    BY DEF CalmInv, Shaped
  <2> HIDE DEF expired
  <2> QED
    BY <1>1, <2>1 DEF Popped
<1> HIDE DEF expired
<1>5. Got' = Got /\ hot \subseteq Got
      /\ \A c : Gets(c)' = Gets(c) /\ Hints(c)' = Hints(c) /\ Found(c)' = Found(c)
  BY <1>1 DEF Got, Gets, Hints, Found
<1>6. ASSUME NEW c \in Cells, c \notin expired PROVE Sound(case, Cell(c))'
  BY <1>1, <1>2, <1>5, <1>6, Apart
<1>7. ASSUME NEW c \in Cells, c \in expired PROVE Sound(case, Cell(c))'
  <2>1. PICK v : v = Cell(c)
    OBVIOUS
  <2>2. PICK w : w = Cell(c)'
    OBVIOUS
  <2>3. Sound(case, v)
    BY <2>1 DEF CalmInv
  <2>4. ~Alive(v)
    <3>1. v.claim = pending[c]
      BY <2>1, Fields
    <3> QED
      BY <1>3, <1>7, <3>1 DEF Alive, Live
  <2>5. w.claim = NoRequest
    BY <1>2, <1>7, <2>2, FieldsNext
  <2>6. SameHot(v, w) /\ SameMail(v, w)
    BY <1>1, <1>5, <2>1, <2>2, Fields, FieldsNext DEF SameHot, SameMail
  <2>7. SameQueues(v, w)
    BY <1>1, <2>1, <2>2, Fields, FieldsNext DEF SameQueues
  <2>8. SameFetch(v, w)
    BY <1>1, <2>1, <2>2, Seated
  <2>9. Sound(case, w)
    BY <2>3, <2>4, <2>5, <2>6, <2>7, <2>8, Pruned
  <2> QED
    BY <1>1, <2>2, <2>9
<1>8. NetOK'
  BY <1>1 DEF CalmInv, NetOK, Queued
<1>9. /\ {buffer', taken', chunk'} \subseteq [Cells -> Entry \cup {NoEntry}] /\ storing' \in Seq(Cells)
  BY <1>1 DEF CalmInv, Shaped
<1>10. \A c \in Cells : Sound(case, Cell(c))'
  BY <1>6, <1>7
<1> QED
  BY <1>1, <1>4, <1>8, <1>9, <1>10, OtherStep

(* A fetcher whose window is shorter by one poll. *)
IsOlder(x, y) ==
    /\ y \in Fetching /\ y.pc = x.pc /\ y.frames # << >> /\ Len(y.frames) = Len(x.frames)
    /\ \A i \in 2 .. Len(x.frames) : y.frames[i] = x.frames[i]
    /\ Head(y.frames).cell = Head(x.frames).cell
    /\ Head(y.frames).again = Head(x.frames).again
    /\ Head(y.frames).left = Head(x.frames).left - 1

LEMMA Older ==
    ASSUME NEW x \in Fetching, x.frames # << >>,
           NEW y, y = [x EXCEPT !.frames = <<OnePollLess(Head(@))>> \o Tail(@)]
    PROVE  IsOlder(x, y)
<1>1. PICK s : s = x.frames
  OBVIOUS
<1>2. PICK rest : rest = Tail(s)
  OBVIOUS
<1>3. PICK old : old = Head(s)
  OBVIOUS
<1>4. PICK top : top = OnePollLess(old)
  OBVIOUS
<1>5. PICK t : t = <<top>> \o rest
  OBVIOUS
<1>6. s \in Seq(Frames) /\ rest \in Seq(Frames) /\ old \in Frames
  BY <1>1, <1>2, <1>3, HeadFrame DEF Fetching
<1>7. top \in Frames /\ top.cell = old.cell /\ top.again = old.again /\ top.left = old.left - 1
  <2>1. /\ old.cell \in Cells /\ old.res \in Resolutions /\ old.again \in BOOLEAN
        /\ old.left \in Int /\ old.left - 1 \in Int
    BY <1>6 DEF Frames
  <2>2. old = [cell |-> old.cell, res |-> old.res, left |-> old.left, again |-> old.again]
    BY <1>6 DEF Frames
  <2>3. top = [cell |-> old.cell, res |-> old.res, left |-> old.left - 1, again |-> old.again]
    BY ONLY <1>4, <2>2 DEF OnePollLess
  <2> QED
    BY ONLY <2>1, <2>3 DEF Frames
<1>8. /\ t \in Seq(Frames) /\ t # << >> /\ Head(t) = top /\ Len(rest) \in Nat
      /\ Len(t) = Len(rest) + 1 /\ \A i \in 2 .. Len(rest) + 1 : t[i] = rest[i - 1]
  BY <1>5, <1>6, <1>7, OnTop
<1>9. /\ Len(s) \in Nat /\ Len(rest) = Len(s) - 1 /\ \A i \in 1 .. Len(s) - 1 : rest[i] = s[i + 1]
  BY <1>1, <1>2, <1>6
<1>10. Len(t) = Len(s) /\ \A i \in 2 .. Len(s) : t[i] = s[i]
  <2>1. ASSUME NEW i \in 2 .. Len(s) PROVE t[i] = s[i]
    <3>1. i - 1 \in 1 .. Len(s) - 1 /\ (i - 1) + 1 = i /\ i \in 2 .. Len(rest) + 1
      BY <1>9
    <3> QED
      BY <1>8, <1>9, <3>1
  <2> QED
    BY <1>8, <1>9, <2>1
<1>11. y = [x EXCEPT !.frames = t]
  BY <1>1, <1>2, <1>3, <1>4, <1>5
<1>12. y \in Fetching /\ y.pc = x.pc /\ y.frames = t
  BY <1>8, <1>11 DEF Fetching
<1> QED
  BY <1>1, <1>3, <1>7, <1>8, <1>10, <1>12 DEF IsOlder

LEMMA AgedClaim ==
    ASSUME NEW r \in Request, r.left > 0, NEW w, w = [r EXCEPT !.left = @ - 1]
    PROVE  IsRenewed(r, w, r.next, r.left - 1)
<1>1. r.left \in 0 .. Ttl /\ Ttl \in Nat /\ NoRequest \notin Request
  BY RequestsAssumption DEF Request, RequestsAssumption
<1>2. r.left - 1 \in 0 .. Ttl
  BY <1>1
<1>3. w \in Request
  BY <1>2 DEF Request
<1>4. /\ w.next = r.next /\ w.left = r.left - 1
      /\ w.from = r.from /\ w.pages = r.pages /\ w.total = r.total
  BY DEF Request
<1> QED
  BY <1>1, <1>3, <1>4 DEF IsRenewed

(* Every fetcher that polls has one poll less, and every claim. *)
Ages ==
    /\ fetch' \in [DOMAIN fetch -> Fetching]
    /\ \A f \in DOMAIN fetch :
          /\ fetch[f].pc \in {"idle", "poll", "done"}
          /\ IF fetch[f].pc = "poll"
             THEN Top(f).cell \notin hot /\ Top(f).left > 0 /\ IsOlder(fetch[f], fetch'[f])
             ELSE fetch'[f] = fetch[f]
    /\ pending' \in [Cells -> Request \cup {NoRequest}]
    /\ \A c \in Cells : IF Live(c) THEN IsRenewed(pending[c], pending'[c], pending[c].next, pending[c].left - 1)
                        ELSE pending'[c] = pending[c]

LEMMA TickAges ==
    ASSUME CalmInv, PollPasses
    PROVE  /\ Ages /\ wire = {} /\ storing = << >>
           /\ \A c \in Cells : buffer[c] = NoEntry /\ taken[c] = NoEntry /\ chunk[c] = NoEntry
           /\ UNCHANGED <<case, hot, buffer, taken, chunk, storing, wire, delayed, mishaps>>
<1>1. AtRest /\ mishaps' = mishaps
  BY DEF PollPasses, Mishap, CalmInv, Shaped
<1>2. /\ wire = {} /\ storing = << >>
      /\ \A c \in Cells : buffer[c] = NoEntry /\ taken[c] = NoEntry /\ chunk[c] = NoEntry
      /\ \A f \in DOMAIN fetch : IsAtRest(f)
  BY <1>1 DEF AtRest, Queued
<1>3. UNCHANGED <<case, hot, buffer, taken, chunk, storing, wire, delayed, mishaps>>
  BY <1>1 DEF PollPasses, sender
<1>4. /\ DOMAIN fetch' = DOMAIN fetch
      /\ \A f \in DOMAIN fetch :
            fetch'[f] = IF IsWaiting(f)
                        THEN [fetch[f] EXCEPT !.frames = <<OnePollLess(Head(@))>> \o Tail(@)]
                        ELSE fetch[f]
  BY DEF PollPasses
<1>5. ASSUME NEW f \in DOMAIN fetch
      PROVE  /\ fetch'[f] \in Fetching /\ fetch[f].pc \in {"idle", "poll", "done"}
             /\ IF fetch[f].pc = "poll"
                THEN Top(f).cell \notin hot /\ Top(f).left > 0 /\ IsOlder(fetch[f], fetch'[f])
                ELSE fetch'[f] = fetch[f]
  <2>1. /\ fetch[f].pc \in {"idle", "poll", "done"}
        /\ fetch[f].pc = "poll" => Top(f).cell \notin hot /\ Top(f).left > 0
    BY <1>2 DEF IsAtRest, At
  <2>2. IsWaiting(f) <=> fetch[f].pc = "poll"
    BY <2>1 DEF IsWaiting, At
  <2>3. PICK x : x = fetch[f]
    OBVIOUS
  <2>4. x \in Fetching /\ x.frames # << >>
    BY <2>3, TopFrame
  <2>5. CASE fetch[f].pc = "poll"
    <3>1. PICK y : y = [x EXCEPT !.frames = <<OnePollLess(Head(@))>> \o Tail(@)]
      OBVIOUS
    <3>2. IsOlder(x, y)
      BY ONLY <2>4, <3>1, Older
    <3>3. fetch'[f] = y
      BY <1>4, <2>2, <2>3, <2>5, <3>1
    <3>4. y \in Fetching
      BY <3>2 DEF IsOlder
    <3> QED
      BY <2>1, <2>3, <2>5, <3>2, <3>3, <3>4
  <2>6. CASE fetch[f].pc # "poll"
    BY <1>4, <2>1, <2>2, <2>3, <2>4, <2>6
  <2> QED
    BY <2>5, <2>6
<1>6. fetch' \in [DOMAIN fetch -> Fetching]
  <2>1. fetch' = [f \in DOMAIN fetch |->
                   IF IsWaiting(f)
                   THEN [fetch[f] EXCEPT !.frames = <<OnePollLess(Head(@))>> \o Tail(@)]
                   ELSE fetch[f]]
    BY DEF PollPasses
  <2>2. \A f \in DOMAIN fetch : fetch'[f] \in Fetching
    BY <1>5
  <2>3. fetch' = [f \in DOMAIN fetch |-> fetch'[f]]
    BY <1>4, <2>1
  <2> QED
    BY ONLY <2>2, <2>3
<1>7. pending \in [Cells -> Request \cup {NoRequest}]
  BY DEF CalmInv, Shaped
<1>8. \A c \in Cells : pending'[c] = IF Live(c) THEN [pending[c] EXCEPT !.left = @ - 1] ELSE pending[c]
  BY DEF PollPasses
<1>9. ASSUME NEW c \in Cells
      PROVE  /\ pending'[c] \in Request \cup {NoRequest}
             /\ IF Live(c) THEN IsRenewed(pending[c], pending'[c], pending[c].next, pending[c].left - 1)
                ELSE pending'[c] = pending[c]
  <2>1. CASE Live(c)
    <3>1. PICK r : r = pending[c]
      OBVIOUS
    <3>2. r \in Request /\ r.left > 0
      BY <1>7, <2>1, <3>1 DEF Live
    <3>3. PICK w : w = [r EXCEPT !.left = @ - 1]
      OBVIOUS
    <3>4. IsRenewed(r, w, r.next, r.left - 1)
      BY ONLY <3>2, <3>3, AgedClaim
    <3>5. pending'[c] = w
      BY <1>8, <2>1, <3>1, <3>3
    <3>6. w \in Request
      BY <3>4 DEF IsRenewed
    <3> QED
      BY <2>1, <3>1, <3>4, <3>5, <3>6
  <2>2. CASE ~Live(c)
    BY <1>7, <1>8, <2>2
  <2> QED
    BY <2>1, <2>2
<1>10. pending' \in [Cells -> Request \cup {NoRequest}]
  <2>1. pending' = [c \in Cells |-> IF Live(c) THEN [pending[c] EXCEPT !.left = @ - 1]
                                    ELSE pending[c]]
    BY DEF PollPasses
  <2>2. pending' = [c \in Cells |-> pending'[c]]
    BY <1>8, <2>1
  <2> QED
    BY <1>9, <2>2
<1> QED
  BY <1>2, <1>3, <1>5, <1>6, <1>9, <1>10 DEF Ages

LEMMA PollStep ==
    ASSUME CalmInv, IsCalm(case), PollPasses
    PROVE  CalmInv'
<1>1. /\ Ages /\ wire = {} /\ storing = << >>
      /\ \A c \in Cells : buffer[c] = NoEntry /\ taken[c] = NoEntry /\ chunk[c] = NoEntry
      /\ UNCHANGED <<case, hot, buffer, taken, chunk, storing, wire, delayed, mishaps>>
  BY TickAges
<1>2. /\ DOMAIN fetch' = DOMAIN fetch
      /\ \A f \in DOMAIN fetch :
            /\ fetch'[f].pc = fetch[f].pc /\ fetch[f].pc \in {"idle", "poll", "done"}
            /\ fetch[f].pc = "poll" =>
                  /\ Top(f).cell \notin hot /\ Top(f).left > 0
                  /\ Top(f)'.cell = Top(f).cell /\ Top(f)'.again = Top(f).again
                  /\ Top(f)'.left = Top(f).left - 1
  BY <1>1 DEF Ages, IsOlder, Top
<1>3. ASSUME NEW f \in DOMAIN fetch PROVE Resumable(fetch[f])' /\ Directed(case, fetch[f])'
  <2>1. PICK x : x = fetch[f]
    OBVIOUS
  <2>2. PICK y : y = fetch'[f]
    OBVIOUS
  <2>3. Resumable(x) /\ x.pc \in {"idle", "poll", "done"} /\ (y = x \/ IsOlder(x, y))
    BY <1>1, <2>1, <2>2, TopFrame DEF Ages
  <2>4. Resumable(y) /\ y.pc = x.pc
    BY <2>3 DEF Resumable, IsOlder
  <2> QED
    BY <1>1, <2>2, <2>3, <2>4 DEF Resumable, Directed
<1>4. ASSUME NEW c \in Cells PROVE Sound(case, Cell(c))'
  <2>1. PICK v : v = Cell(c)
    OBVIOUS
  <2>2. PICK w : w = Cell(c)'
    OBVIOUS
  <2>3. Sound(case, v)
    BY <2>1 DEF CalmInv
  <2>4. /\ v.buffer = NoEntry /\ v.taken = NoEntry /\ v.chunk = NoEntry
        /\ v.gets = {} /\ v.hints = {} /\ v.found = {}
    <3>1. Gets(c) = {} /\ Hints(c) = {} /\ Found(c) = {}
      BY <1>1 DEF Gets, Hints, Found
    <3> QED
      BY <1>1, <2>1, <3>1, Fields
  <2>5. /\ Queuers(c) = {} /\ Resenders(c) = {} /\ Queuers(c)' = {} /\ Resenders(c)' = {}
    BY <1>2 DEF Queuers, Resenders
  <2>6. /\ v.queuers = {} /\ v.resenders = {} /\ w.queuers = v.queuers /\ w.resenders = v.resenders
    <3>1. v.queuers = Queuers(c) /\ v.resenders = Resenders(c)
      BY ONLY <2>1, Fields
    <3>2. w.queuers = Queuers(c)' /\ w.resenders = Resenders(c)'
      BY ONLY <2>2, FieldsNext
    <3> QED
      BY ONLY <2>5, <3>1, <3>2
  <2>7. SameHot(v, w) /\ SameMail(v, w)
    <3>1. Got' = Got /\ Gets(c)' = Gets(c) /\ Hints(c)' = Hints(c) /\ Found(c)' = Found(c)
      BY <1>1 DEF Got, Gets, Hints, Found
    <3> QED
      BY <1>1, <2>1, <2>2, <3>1, Fields, FieldsNext DEF SameHot, SameMail
  <2>8. SameQueues(v, w)
    BY <1>1, <2>1, <2>2, Fields, FieldsNext DEF SameQueues
  <2>9. v.got => v.hot
    <3>1. Got = hot
      BY <1>1 DEF Got, ToSet
    <3> QED
      BY <2>1, <3>1, Fields
  <2>10. Askers(c)' = Askers(c) /\ \A f \in Askers(c) : f \in DOMAIN fetch /\ fetch[f].pc = "poll"
                                                         /\ Top(f).cell = c
    BY <1>2 DEF Askers
  <2>11. DOMAIN w.askers = DOMAIN v.askers
    BY <2>1, <2>2, <2>10, Fields, FieldsNext
  <2>12. ASSUME NEW f \in DOMAIN v.askers
         PROVE  /\ ~v.hot /\ v.askers[f].left > 0
                /\ w.askers[f].left = v.askers[f].left - 1
                /\ w.askers[f].again = v.askers[f].again
    <3>1. f \in Askers(c) /\ v.askers[f] = Top(f) /\ (v.hot <=> c \in hot)
      BY <2>1, <2>12, Fields
    <3>2. w.askers[f] = Top(f)'
      BY <2>2, <2>10, <3>1, FieldsNext
    <3> QED
      BY <1>2, <2>10, <3>1, <3>2
  <2>13. IF Alive(v) THEN IsRenewed(v.claim, w.claim, v.claim.next, v.claim.left - 1)
         ELSE w.claim = v.claim
    <3>1. v.claim = pending[c] /\ w.claim = pending'[c] /\ (Alive(v) <=> Live(c))
      BY <2>1, <2>2, Fields, FieldsNext DEF Alive, Live
    <3> QED
      BY <1>1, <3>1 DEF Ages
  <2>14. Sound(case, w)
    BY <2>3, <2>4, <2>6, <2>7, <2>8, <2>9, <2>11, <2>12, <2>13, Ticked
  <2> QED
    BY <1>1, <2>2, <2>14
<1>5. Shaped'
  BY <1>1 DEF CalmInv, Shaped, Ages
<1>6. NetOK'
  BY <1>1 DEF CalmInv, NetOK, Queued
<1> QED
  BY <1>2, <1>3, <1>4, <1>5, <1>6 DEF CalmInv

-----------------------------------------------------------------------------
(* The invariant.                                                          *)

LEMMA StutterStep ==
    ASSUME CalmInv, UNCHANGED requestVars
    PROVE  CalmInv'
<1>1. UNCHANGED <<case, hot, buffer, taken, chunk, pending, storing, fetch, wire, delayed, mishaps>>
  BY DEF requestVars, sender
<1>2. /\ Got' = Got /\ hot \subseteq Got
      /\ \A c : Gets(c)' = Gets(c) /\ Hints(c)' = Hints(c) /\ Found(c)' = Found(c)
  BY <1>1 DEF Got, Gets, Hints, Found
<1>3. \A c \in Cells : Sound(case, Cell(c))'
  BY <1>1, <1>2, Apart
<1>4. NetOK'
  BY <1>1 DEF CalmInv, NetOK, Queued
<1>5. /\ {buffer', taken', chunk'} \subseteq [Cells -> Entry \cup {NoEntry}]
      /\ pending' \in [Cells -> Request \cup {NoRequest}] /\ storing' \in Seq(Cells)
  BY <1>1 DEF CalmInv, Shaped
<1> QED
  BY <1>1, <1>3, <1>4, <1>5, OtherStep

LEMMA CaseStays ==
    ASSUME [RequestsNext]_requestVars
    PROVE  case' = case
BY DEF RequestsNext, Start, Fetch, Begin, Enqueue, Look, GiveUp, Resend, Take, Admit, Send, Serve, ReceiveResponse,
       Drop, Delay, Arrive, Store, Prune, PollPasses, Finished, requestVars

(* A cell that nobody asked for yet. *)
LEMMA SoundAtFirst ==
    ASSUME NEW k, NEW v, v.cell \in Cells, v.hot \in BOOLEAN, v.got \in BOOLEAN, ~v.hot,
           v.buffer = NoEntry, v.taken = NoEntry, v.chunk = NoEntry, v.claim = NoRequest,
           v.gets = {}, v.hints = {}, v.found = {},
           DOMAIN v.askers = {}, v.queuers = {}, v.resenders = {}
    PROVE  Sound(k, v)
<1>1. Typed(v)
  BY DEF Typed
<1>2. ~Alive(v) /\ ~HasNext(v)
  BY DEF Alive, HasNext
<1>3. Addressed(k, v)
  BY <1>2 DEF Addressed
<1>4. IsAt(k, v, "none")
  BY <1>2 DEF IsAt, Claimed
<1>5. Patience(k, v, "none")
  BY <1>2 DEF Patience, Fresh, AtFirst
<1> QED
  BY <1>1, <1>3, <1>4, <1>5 DEF Sound, Places

LEMMA CalmAtFirst ==
    ASSUME RequestsInit, case.mishaps = 0
    PROVE  CalmInv
<1>1. /\ case \in Cases /\ hot = {} /\ buffer = Nothing /\ taken = Nothing /\ chunk = Nothing
      /\ pending = [c \in Cells |-> NoRequest] /\ storing = << >>
      /\ wire = {} /\ delayed = {} /\ mishaps = 0
  BY DEF RequestsInit
<1>2. fetch = [f \in DOMAIN case.wants |->
                 [pc |-> "idle", frames |-> <<Frame(case.wants[f][1], case.wants[f][2])>>,
                  to |-> NoPeer, claimed |-> FALSE, result |-> "none"]]
  BY DEF RequestsInit
<1>3. ASSUME NEW f \in DOMAIN case.wants
      PROVE  fetch[f] \in Fetching /\ fetch[f].pc = "idle" /\ Resumable(fetch[f])
  <2>1. PICK c \in Cells, res \in Resolutions : case.wants[f] = <<c, res>>
    BY <1>1, RequestsAssumption DEF RequestsAssumption
  <2>2. PICK frame : frame = Frame(c, res)
    OBVIOUS
  <2>3. frame \in Frames
    BY <2>2, RequestsAssumption DEF Frame, Frames, RequestsAssumption
  <2>4. PICK s : s = <<frame>>
    OBVIOUS
  <2>5. s \in Seq(Frames) /\ s # << >> /\ Len(s) = 1
    BY <2>3, <2>4
  <2>6. PICK x : x = [pc |-> "idle", frames |-> s, to |-> NoPeer, claimed |-> FALSE,
                      result |-> "none"]
    OBVIOUS
  <2>7. x \in Fetching /\ x.pc = "idle" /\ x.frames = s
    BY ONLY <2>5, <2>6 DEF Fetching
  <2>8. <<Frame(case.wants[f][1], case.wants[f][2])>> = s
    BY <2>1, <2>2, <2>4
  <2>9. fetch[f] = x
    BY ONLY <1>2, <2>6, <2>8, f \in DOMAIN case.wants
  <2>10. Resumable(x)
    <3>1. \A i \in 2 .. Len(s) : FALSE
      BY <2>5
    <3> QED
      BY <2>5, <2>7, <3>1 DEF Resumable
  <2> QED
    BY <2>7, <2>9, <2>10
<1>4. DOMAIN fetch = DOMAIN case.wants /\ fetch \in [DOMAIN case.wants -> Fetching]
  BY <1>2, <1>3
<1>5. Shaped
  BY <1>1, <1>4 DEF Shaped, Nothing
<1>6. NetOK
  BY <1>1 DEF NetOK, Queued, Nothing
<1>7. \A f \in DOMAIN fetch : Resumable(fetch[f]) /\ Directed(case, fetch[f])
  BY <1>3, <1>4 DEF Directed
<1>8. ASSUME NEW c \in Cells PROVE Sound(case, Cell(c))
  <2>1. PICK v : v = Cell(c)
    OBVIOUS
  <2>2. /\ v.cell \in Cells /\ v.hot \in BOOLEAN /\ v.got \in BOOLEAN /\ ~v.hot
        /\ v.buffer = NoEntry /\ v.taken = NoEntry /\ v.chunk = NoEntry /\ v.claim = NoRequest
    BY <1>1, <2>1, Fields DEF Nothing
  <2>3. v.gets = {} /\ v.hints = {} /\ v.found = {}
    <3>1. Gets(c) = {} /\ Hints(c) = {} /\ Found(c) = {}
      BY <1>1 DEF Gets, Hints, Found
    <3> QED
      BY <2>1, <3>1, Fields
  <2>4. DOMAIN v.askers = {} /\ v.queuers = {} /\ v.resenders = {}
    <3>1. Askers(c) = {} /\ Queuers(c) = {} /\ Resenders(c) = {}
      BY <1>3, <1>4 DEF Askers, Queuers, Resenders
    <3> QED
      BY <2>1, <3>1, Fields
  <2>5. Sound(case, v)
    BY <2>2, <2>3, <2>4, SoundAtFirst
  <2> QED
    BY <2>1, <2>5
<1> QED
  BY <1>5, <1>6, <1>7, <1>8 DEF CalmInv

LEMMA CalmStep ==
    ASSUME CalmInv, case \in Cases, Calm, [RequestsNext]_requestVars
    PROVE  CalmInv'
<1> IsCalm(case)
  BY CalmCase
<1>1. ASSUME NEW f \in DOMAIN fetch, Start(f) \/ Fetch(f) PROVE CalmInv'
  BY <1>1, StartStep, BeginStep, EnqueueStep, LookStep, GiveUpStep, ResendStep DEF Fetch
<1>2. CASE Take
  BY <1>2, TakeStep
<1>3. ASSUME NEW c \in Cells, Admit(c) PROVE CalmInv'
  BY <1>3, AdmitStep
<1>4. CASE Send
  BY <1>4, SendStep
<1>5. ASSUME NEW m \in wire, Serve(m) PROVE CalmInv'
  BY <1>5, ServeStep
<1>6. ASSUME NEW m \in wire, ReceiveResponse(m) PROVE CalmInv'
  BY <1>6, ResponseStep
<1>7. ASSUME NEW m \in wire, Drop(m) \/ Delay(m) PROVE FALSE
  BY <1>7 DEF Drop, Delay, Mishap, CalmInv, Shaped
<1>8. delayed = {}
  BY DEF CalmInv, Shaped
<1>9. CASE Store
  BY <1>9, StoreStep
<1>10. CASE Prune
  BY <1>10, PruneStep
<1>11. CASE PollPasses
  BY <1>11, PollStep
<1>12. CASE UNCHANGED requestVars
  BY <1>12, StutterStep
<1>13. CASE Finished
  BY <1>12, <1>13 DEF Finished
<1> QED
  BY <1>1, <1>2, <1>3, <1>4, <1>5, <1>6, <1>7, <1>8, <1>9, <1>10, <1>11, <1>12, <1>13 DEF RequestsNext

LEMMA CalmSingle ==
    ASSUME CalmInv, NEW c \in Cells
    PROVE  Cardinality(Gets(c)) <= IF chunk[c] = NoEntry THEN 1 ELSE 0
<1>1. PICK v : v = Cell(c)
  OBVIOUS
<1>2. Sound(case, v) /\ v.gets = Gets(c) /\ v.chunk = chunk[c]
  BY <1>1, Fields DEF CalmInv
<1>3. v.gets = {} \/ (v.chunk = NoEntry /\ \E m : v.gets = {m})
  BY <1>2 DEF Sound, IsAt
<1>4. CASE v.gets = {}
  BY <1>2, <1>4, FS_EmptySet
<1>5. CASE v.chunk = NoEntry /\ \E m : v.gets = {m}
  <2>1. PICK m : v.gets = {m}
    BY <1>5
  <2>2. Cardinality({m}) = 1
    BY FS_Singleton
  <2> QED
    BY <1>2, <1>5, <2>1, <2>2
<1> QED
  BY <1>3, <1>4, <1>5

RequestsInv == case \in Cases /\ (Calm => CalmInv)

(* In a calm network no cell is asked for with two GETs at a time, nor is  *)
(* a second one made ready, however many fetches want it, whichever of     *)
(* the checks of the buffer and the registry comes first, and although a   *)
(* fetch may ask a second provider under the claim (queue_storage_get,     *)
(* flush_storage_requests, claim_expr_req, _resend_to_next_provider).      *)
THEOREM OneGetAtATime == RequestsSpec => []SingleFlight
<1>1. RequestsInit => RequestsInv
  BY CalmAtFirst DEF RequestsInv, RequestsInit, Calm
<1>2. ASSUME RequestsInv, [RequestsNext]_requestVars PROVE RequestsInv'
  <2>1. case' = case
    BY <1>2, CaseStays
  <2>2. Calm' <=> Calm
    BY <2>1 DEF Calm, Providers, Good
  <2>3. ASSUME Calm PROVE CalmInv'
    BY <1>2, <2>3, CalmStep DEF RequestsInv
  <2> QED
    BY <1>2, <2>1, <2>2, <2>3 DEF RequestsInv
<1>3. RequestsInv => SingleFlight
  BY CalmSingle DEF RequestsInv, SingleFlight
<1> QED
  BY <1>1, <1>2, <1>3, PTL DEF RequestsSpec
=============================================================================
