---------------------------- MODULE StorageProofs ----------------------------
(***************************************************************************)
(* Proofs about the storage of records, for every number of records,       *)
(* providers and nodes and every trouble.                                  *)
(*                                                                         *)
(* StorageClaims: a record the claim worker knows is in exactly one place. *)
(* Four places hold records: the queue, the claims that wait, those of the *)
(* batch and those in flight.  The argument is about the four sets of ids, *)
(* Apart below; the lemmas say what each operation of the worker does to   *)
(* them, and one lemma for each action puts these together.                *)
(*                                                                         *)
(* StorageIndex: an announcement names its sender as a keeper, so the      *)
(* safety of the index rests on where announcements come from: the records *)
(* of own blocks that wait for their announcement, the records the startup *)
(* announcement still has to name and the one a fetch has just stored are  *)
(* all kept by the node (OwnKept), and no node ever drops a record.        *)
(***************************************************************************)
EXTENDS StorageClaims, StorageIndex, SumTheorems

-----------------------------------------------------------------------------
(* The claim worker.                                                       *)

(* What is due when, and what a claim pays, does not matter here: an entry *)
(* of the queue is a sequence of at most one value, a claim has an id.     *)
Short(s) == s = << >> \/ s = <<s[1]>>

IsClaim(c) ==
    /\ c = [id |-> c.id, lane |-> c.lane, fresh |-> c.fresh, payout |-> c.payout, bits |-> c.bits]
    /\ c.id \in Records

(* No two claims of a list are of one record. *)
ClaimList(claims) ==
    /\ Len(claims) \in Nat
    /\ claims = [i \in 1 .. Len(claims) |-> claims[i]]
    /\ \A i \in 1 .. Len(claims) : IsClaim(claims[i])
    /\ \A i, j \in 1 .. Len(claims) : claims[i].id = claims[j].id => i = j

QueueOK(q) ==
    /\ q = [heap |-> q.heap, known |-> q.known, released |-> q.released]
    /\ q.heap = [r \in Records |-> q.heap[r]]
    /\ \A r \in Records : Short(q.heap[r])
    /\ q.known \subseteq Records

Queued(q) == {r \in Records : q.heap[r] # << >>}

(* The places w, p, b and t share no record; they hold what is known, and  *)
(* miss only what was given up.                                            *)
Apart(w, p, b, t, known, released) ==
    /\ w \cap p = {} /\ w \cap b = {} /\ w \cap t = {}
    /\ p \cap b = {} /\ p \cap t = {} /\ b \cap t = {}
    /\ w \cup p \cup b \cup t \subseteq known
    /\ known \ released \subseteq w \cup p \cup b \cup t

Placed(q, p, b, t) ==
    /\ QueueOK(q)
    /\ ClaimList(p) /\ ClaimList(b) /\ ClaimList(t)
    /\ Apart(Queued(q), Ids(p), Ids(b), Ids(t), q.known, q.released)

TxShape(t) == t = [claims |-> t.claims, ago |-> t.ago, live |-> t.live, mined |-> t.mined]

(* The inductive invariant: beside the places, one transaction at a time,  *)
(* and the disk holds records.                                             *)
Inv ==
    /\ Placed(queue, pending, batch, tx.claims)
    /\ TxShape(tx)
    /\ batch # << >> => tx = NoTx
    /\ stored \subseteq Records /\ news \subseteq Records

-----------------------------------------------------------------------------
(* Lists of claims.                                                        *)

(* An empty list has no ids. *)
LEMMA EmptyList == ClaimList(<< >>) /\ Ids(<< >>) = {}
  BY DEF ClaimList, Ids

(* The ids of a list, by its places. *)
LEMMA IdsOf ==
    ASSUME NEW s, ClaimList(s)
    PROVE  /\ DOMAIN s = 1 .. Len(s)
           /\ \A x : x \in Ids(s) <=> \E i \in 1 .. Len(s) : x = s[i].id
           /\ Ids(s) \subseteq Records
<1>1. DOMAIN s = 1 .. Len(s)
  BY DEF ClaimList
<1>2. \A x : x \in Ids(s) <=> \E i \in 1 .. Len(s) : x = s[i].id
  BY <1>1 DEF Ids
<1>3. \A i \in 1 .. Len(s) : s[i].id \in Records
  BY DEF ClaimList, IsClaim
<1> QED
  BY <1>1, <1>2, <1>3

(* A list given by its claims. *)
LEMMA MakeList ==
    ASSUME NEW n \in Nat, NEW s, s = [i \in 1 .. n |-> s[i]],
           \A i \in 1 .. n : IsClaim(s[i]),
           \A i, j \in 1 .. n : s[i].id = s[j].id => i = j
    PROVE  Len(s) = n /\ ClaimList(s)
<1>1. DOMAIN s = 1 .. n
  OBVIOUS
<1>2. Len(s) = n
  BY <1>1
<1> QED
  BY <1>2 DEF ClaimList

(* A later block changes no id. *)
LEMMA OutdatedIs ==
    ASSUME NEW s, ClaimList(s), NEW table
    PROVE  /\ ClaimList(Outdated(s, table))
           /\ Ids(Outdated(s, table)) = Ids(s)
           /\ s = << >> => Outdated(s, table) = << >>
<1> DEFINE o == Outdated(s, table)
<1>1. DOMAIN s = 1 .. Len(s) /\ Len(s) \in Nat
  BY IdsOf DEF ClaimList
<1>2. o = [i \in 1 .. Len(s) |->
              [s[i] EXCEPT !.fresh = @ /\ table[s[i].id][s[i].lane].age # 0]]
  BY <1>1 DEF Outdated
<1>3. \A i \in 1 .. Len(s) : IsClaim(o[i]) /\ o[i].id = s[i].id
  <2> SUFFICES ASSUME NEW i \in 1 .. Len(s) PROVE IsClaim(o[i]) /\ o[i].id = s[i].id
    OBVIOUS
  <2>1. IsClaim(s[i])
    BY DEF ClaimList
  <2>2. PICK f : o[i] = [s[i] EXCEPT !.fresh = f]
    BY <1>2
  <2>3. o[i] = [id |-> s[i].id, lane |-> s[i].lane, fresh |-> f, payout |-> s[i].payout,
                bits |-> s[i].bits]
    BY <2>1, <2>2 DEF IsClaim
  <2> HIDE DEF o
  <2> QED
    BY <2>1, <2>3 DEF IsClaim
<1>4. o = [i \in 1 .. Len(s) |-> o[i]]
  BY <1>2
<1>5. \A i, j \in 1 .. Len(s) : o[i].id = o[j].id => i = j
  BY <1>3 DEF ClaimList
<1> HIDE DEF o
<1>6. Len(o) = Len(s) /\ ClaimList(o)
  BY <1>1, <1>3, <1>4, <1>5, MakeList
<1>7. Ids(o) = Ids(s)
  <2>1. \A x : x \in Ids(s) <=> \E i \in 1 .. Len(s) : x = s[i].id
    BY IdsOf
  <2>2. \A x : x \in Ids(o) <=> \E i \in 1 .. Len(s) : x = o[i].id
    BY <1>6, IdsOf
  <2>3. \A x : x \in Ids(o) <=> x \in Ids(s)
    BY <1>3, <2>1, <2>2
  <2> QED
    BY <2>3
<1>8. s = << >> => o = << >>
  BY <1>4
<1> QED
  BY <1>6, <1>7, <1>8 DEF o

(* The list o has n claims of s, the i-th is the one at at[i]. *)
PartOf(o, s, at, n) ==
    /\ n \in Nat
    /\ o = [i \in 1 .. n |-> o[i]]
    /\ \A i \in 1 .. n : at[i] \in 1 .. Len(s) /\ o[i] = s[at[i]]
    /\ \A i, j \in 1 .. n : at[i] = at[j] => i = j

(* A part of a list, in any order, is a list. *)
LEMMA PartIs ==
    ASSUME NEW s, ClaimList(s), NEW o, NEW at, NEW n, PartOf(o, s, at, n)
    PROVE  /\ ClaimList(o)
           /\ \A x : x \in Ids(o) <=> \E i \in 1 .. n : x = s[at[i]].id
<1>1. \A i \in 1 .. n : IsClaim(o[i])
  BY DEF ClaimList, PartOf
<1>2. \A i, j \in 1 .. n : o[i].id = o[j].id => i = j
  BY DEF ClaimList, PartOf
<1>3. Len(o) = n /\ ClaimList(o)
  BY <1>1, <1>2, MakeList DEF PartOf
<1>4. \A x : x \in Ids(o) <=> \E i \in 1 .. n : x = o[i].id
  BY <1>3, IdsOf
<1> QED
  BY <1>3, <1>4 DEF PartOf

(* Splitting a list shares out its ids. *)
LEMMA SplitIs ==
    ASSUME NEW s, ClaimList(s), NEW n \in Nat, n <= Len(s)
    PROVE  LET a == SubSeq(s, 1, n)
               b == SubSeq(s, n + 1, Len(s))
           IN  /\ ClaimList(a) /\ ClaimList(b)
               /\ Ids(a) \cap Ids(b) = {}
               /\ Ids(a) \cup Ids(b) = Ids(s)
<1> DEFINE k == Len(s)
           a == SubSeq(s, 1, n)
           b == SubSeq(s, n + 1, k)
           up == [i \in 1 .. (k - n) |-> i + n]
           same == [i \in 1 .. n |-> i]
<1>1. k \in Nat /\ k - n \in Nat
  BY DEF ClaimList
<1>2. a = [i \in 1 .. n |-> a[i]] /\ \A i \in 1 .. n : a[i] = s[same[i]]
  BY <1>1
<1>3. b = [i \in 1 .. (k - n) |-> b[i]] /\ \A i \in 1 .. (k - n) : b[i] = s[up[i]]
  BY <1>1
<1>4. \A i \in 1 .. n : same[i] = i
  OBVIOUS
<1>5. \A i \in 1 .. (k - n) : up[i] = i + n
  OBVIOUS
<1> HIDE DEF a, b, up, same
<1>6. ClaimList(a) /\ \A x : x \in Ids(a) <=> \E i \in 1 .. n : x = s[same[i]].id
  <2>1. \A i \in 1 .. n : same[i] \in 1 .. k
    BY <1>1, <1>4
  <2>2. \A i, j \in 1 .. n : same[i] = same[j] => i = j
    BY <1>4
  <2>3. PartOf(a, s, same, n)
    BY <1>2, <2>1, <2>2 DEF PartOf
  <2> QED
    BY <2>3, PartIs
<1>7. ClaimList(b) /\ \A x : x \in Ids(b) <=> \E i \in 1 .. (k - n) : x = s[up[i]].id
  <2>1. \A i \in 1 .. (k - n) : up[i] \in 1 .. k
    BY <1>1, <1>5
  <2>2. \A i, j \in 1 .. (k - n) : up[i] = up[j] => i = j
    BY <1>1, <1>5
  <2>3. PartOf(b, s, up, k - n)
    BY <1>1, <1>3, <2>1, <2>2 DEF PartOf
  <2> QED
    BY <2>3, PartIs
<1>8. \A x : x \in Ids(s) <=> \E i \in 1 .. k : x = s[i].id
  BY IdsOf
<1>9. \A x : x \in Ids(a) <=> \E i \in 1 .. n : x = s[i].id
  BY <1>4, <1>6
<1>10. \A x : x \in Ids(b) <=> \E i \in (n + 1) .. k : x = s[i].id
  <2>1. \A i \in (n + 1) .. k : i - n \in 1 .. (k - n) /\ up[i - n] = i
    BY <1>1, <1>5
  <2>2. \A i \in 1 .. (k - n) : up[i] \in (n + 1) .. k
    BY <1>1, <1>5
  <2> QED
    BY <1>7, <2>1, <2>2
<1>11. Ids(a) \cap Ids(b) = {}
  <2> SUFFICES ASSUME NEW i \in 1 .. n, NEW j \in (n + 1) .. k, s[i].id = s[j].id PROVE FALSE
    BY <1>9, <1>10
  <2>1. i \in 1 .. k /\ j \in 1 .. k /\ i # j
    BY <1>1
  <2> QED
    BY <2>1 DEF ClaimList
<1>12. Ids(a) \cup Ids(b) = Ids(s)
  <2>1. \A i : i \in 1 .. k <=> i \in 1 .. n \/ i \in (n + 1) .. k
    BY <1>1
  <2> HIDE DEF k
  <2>2. \A x : x \in Ids(a) \cup Ids(b) <=> x \in Ids(s)
    BY <1>8, <1>9, <1>10, <2>1
  <2> QED
    BY <2>2
<1> QED
  BY <1>6, <1>7, <1>11, <1>12 DEF a, b

(* The claims that remain are those of the other records. *)
LEMMA RemainingIs ==
    ASSUME NEW s, ClaimList(s), NEW gone
    PROVE  ClaimList(Remaining(s, gone)) /\ Ids(Remaining(s, gone)) = Ids(s) \ gone
<1> DEFINE T == {i \in DOMAIN s : s[i].id \notin gone}
           at == Sorted(T)
           o == Remaining(s, gone)
<1>1. DOMAIN s = 1 .. Len(s) /\ Len(s) \in Nat
  BY IdsOf DEF ClaimList
<1>2. T \in SUBSET Nat /\ IsFiniteSet(T) /\ T \subseteq 1 .. Len(s)
  <2>1. IsFiniteSet(1 .. Len(s))
    BY <1>1, FS_Interval
  <2>2. T \subseteq 1 .. Len(s)
    BY <1>1
  <2> QED
    BY <2>1, <2>2, FS_Subset
<1>3. o = [i \in DOMAIN at |-> s[at[i]]]
  BY DEF Remaining
<1>4. \A i \in T : s[i].id \notin gone
  OBVIOUS
<1>5. \A i \in 1 .. Len(s) : s[i].id \notin gone => i \in T
  BY <1>1
<1> HIDE DEF T, o
<1>6. /\ at \in Seq(T)
      /\ \A k \in T : \E j \in 1 .. Len(at) : at[j] = k
      /\ \A i, j \in 1 .. Len(at) : at[i] = at[j] => i = j
  BY <1>2, SortedIs
<1> HIDE DEF at
<1>7. Len(at) \in Nat /\ DOMAIN at = 1 .. Len(at) /\ \A i \in 1 .. Len(at) : at[i] \in T
  BY <1>6
<1>8. \A i \in 1 .. Len(at) : at[i] \in 1 .. Len(s)
  BY <1>2, <1>7
<1>9. o = [i \in 1 .. Len(at) |-> o[i]] /\ \A i \in 1 .. Len(at) : o[i] = s[at[i]]
  BY <1>3, <1>7
<1>10. ClaimList(o) /\ \A x : x \in Ids(o) <=> \E i \in 1 .. Len(at) : x = s[at[i]].id
  <2>1. PartOf(o, s, at, Len(at))
    BY <1>6, <1>7, <1>8, <1>9 DEF PartOf
  <2> QED
    BY <2>1, PartIs
<1>11. \A x : x \in Ids(s) <=> \E i \in 1 .. Len(s) : x = s[i].id
  BY IdsOf
<1>12. Ids(o) = Ids(s) \ gone
  <2>1. \A x \in Ids(o) : x \in Ids(s) \ gone
    BY <1>4, <1>7, <1>8, <1>10, <1>11
  <2>2. ASSUME NEW x \in Ids(s), x \notin gone PROVE x \in Ids(o)
    <3>1. PICK i \in 1 .. Len(s) : x = s[i].id
      BY <1>11
    <3>2. PICK j \in 1 .. Len(at) : at[j] = i
      BY <1>5, <1>6, <2>2, <3>1
    <3> QED
      BY <1>10, <3>1, <3>2
  <2> QED
    BY <2>1, <2>2
<1> QED
  BY <1>10, <1>12 DEF o

(* The claims built of records in an order, one of each. *)
LEMMA ClaimsIs ==
    ASSUME NEW S \in SUBSET Records, NEW q, NEW ids \in InOrder(q, S), NEW bits
    PROVE  ClaimList(Claims(ids, bits)) /\ Ids(Claims(ids, bits)) \subseteq S
<1> DEFINE n == Cardinality(S)
           o == Claims(ids, bits)
<1>1. n \in Nat
  BY ClaimsAssumption, FS_Subset, FS_CardinalityType
<1>2. DOMAIN ids = 1 .. n /\ \A i \in 1 .. n : ids[i] \in S
  BY DEF InOrder, Injection
<1>3. \A i, j \in 1 .. n : ids[i] = ids[j] => i = j
  BY DEF InOrder, Injection, IsInjective
<1>4. o = [i \in DOMAIN ids |-> Claim(ids[i], Best(ids[i], bits))]
  BY DEF Claims
<1> HIDE DEF n, o
<1>5. \A i \in 1 .. n : o[i] = Claim(ids[i], Best(ids[i], bits))
  BY <1>2, <1>4
<1>6. \A i \in 1 .. n : IsClaim(o[i]) /\ o[i].id = ids[i]
  <2> SUFFICES ASSUME NEW i \in 1 .. n PROVE IsClaim(o[i]) /\ o[i].id = ids[i]
    OBVIOUS
  <2>1. PICK l : o[i] = Claim(ids[i], l)
    BY <1>5
  <2> QED
    BY <1>2, <2>1 DEF Claim, IsClaim
<1>7. o = [i \in 1 .. n |-> o[i]]
  BY <1>2, <1>4
<1>8. \A i, j \in 1 .. n : o[i].id = o[j].id => i = j
  BY <1>3, <1>6
<1>9. Len(o) = n /\ ClaimList(o)
  BY <1>1, <1>6, <1>7, <1>8, MakeList
<1>10. \A x : x \in Ids(o) <=> \E i \in 1 .. n : x = o[i].id
  BY <1>9, IdsOf
<1>11. Ids(o) \subseteq S
  BY <1>2, <1>6, <1>10
<1> QED
  BY <1>9, <1>11 DEF o

(* A record has one claim in a list, or none. *)
LEMMA CountIs ==
    ASSUME NEW s, ClaimList(s), NEW r
    PROVE  CountOf(s, r) = IF r \in Ids(s) THEN 1 ELSE 0
<1> DEFINE T == {i \in DOMAIN s : s[i].id = r}
<1>1. DOMAIN s = 1 .. Len(s) /\ \A x : x \in Ids(s) <=> \E i \in 1 .. Len(s) : x = s[i].id
  BY IdsOf
<1>2. CASE r \in Ids(s)
  <2>1. PICK i \in 1 .. Len(s) : s[i].id = r
    BY <1>1, <1>2
  <2>2. T = {i}
    BY <1>1, <2>1 DEF ClaimList
  <2>3. Cardinality(T) = 1
    BY <2>2, FS_Singleton
  <2> QED
    BY <1>2, <2>3 DEF CountOf
<1>3. CASE r \notin Ids(s)
  <2>1. T = {}
    BY <1>1, <1>3
  <2>2. Cardinality(T) = 0
    BY <2>1, FS_EmptySet
  <2> QED
    BY <1>3, <2>2 DEF CountOf
<1> QED
  BY <1>2, <1>3

-----------------------------------------------------------------------------
(* The queue.                                                              *)

(* The empty queue. *)
LEMMA NoQueueIs == QueueOK(NoQueue) /\ Queued(NoQueue) = {}
  BY DEF NoQueue, QueueOK, Queued, Short

(* Pushing records that do not wait. *)
LEMMA PushedIs ==
    ASSUME NEW q, QueueOK(q), NEW due, DOMAIN due \subseteq Records,
           DOMAIN due \cap Queued(q) = {}
    PROVE  /\ QueueOK(Pushed(q, due))
           /\ Queued(Pushed(q, due)) = Queued(q) \cup DOMAIN due
           /\ Pushed(q, due).known = q.known
           /\ Pushed(q, due).released = q.released
<1> DEFINE h == [r \in Records |-> IF r \in DOMAIN due THEN Append(q.heap[r], due[r])
                                   ELSE q.heap[r]]
           p == Pushed(q, due)
<1>1. p = [heap |-> h, known |-> q.known, released |-> q.released]
  <2>1. p = [q EXCEPT !.heap = h]
    BY DEF Pushed
  <2> HIDE DEF h, p
  <2>2. q = [heap |-> q.heap, known |-> q.known, released |-> q.released]
    BY DEF QueueOK
  <2> QED
    BY <2>1, <2>2
<1>2. \A r \in Records : IF r \in DOMAIN due THEN h[r] = <<due[r]>> ELSE h[r] = q.heap[r]
  <2> SUFFICES ASSUME NEW r \in DOMAIN due, r \in Records PROVE h[r] = <<due[r]>>
    OBVIOUS
  <2>1. q.heap[r] = << >>
    BY DEF Queued
  <2>2. h[r] = Append(<< >>, due[r])
    BY <2>1
  <2>3. Append(<< >>, due[r]) = <<due[r]>>
    OBVIOUS
  <2> QED
    BY <2>2, <2>3
<1>3. h = [r \in Records |-> h[r]]
  OBVIOUS
<1> HIDE DEF h
<1>4. p.heap = h /\ p.known = q.known /\ p.released = q.released
  BY <1>1
<1>5. \A r \in Records : Short(h[r])
  BY <1>2 DEF QueueOK, Short
<1>6. QueueOK(p)
  BY <1>1, <1>3, <1>4, <1>5 DEF QueueOK
<1>7. \A r \in Records : h[r] # << >> <=> r \in DOMAIN due \/ r \in Queued(q)
  BY <1>2 DEF Queued
<1>8. Queued(p) = Queued(q) \cup DOMAIN due
  BY <1>4, <1>7 DEF Queued
<1> QED
  BY <1>4, <1>6, <1>8

(* Records that are new to the queue wait in it. *)
LEMMA AddedIs ==
    ASSUME NEW q, QueueOK(q), Queued(q) \subseteq q.known, NEW S \in SUBSET Records
    PROVE  /\ QueueOK(Added(q, S))
           /\ Queued(Added(q, S)) = Queued(q) \cup (S \ q.known)
           /\ Added(q, S).known = q.known \cup S
           /\ Added(q, S).released = q.released
<1> DEFINE due == [r \in S \ q.known |-> 0]
           p == Pushed(q, due)
           a == Added(q, S)
<1>1. DOMAIN due = S \ q.known
  OBVIOUS
<1>2. a = [p EXCEPT !.known = @ \cup S]
  BY DEF Added
<1> HIDE DEF due, a
<1>3. /\ QueueOK(p)
      /\ Queued(p) = Queued(q) \cup (S \ q.known)
      /\ p.known = q.known
      /\ p.released = q.released
  BY <1>1, PushedIs
<1> HIDE DEF p
<1>4. a = [heap |-> p.heap, known |-> p.known \cup S, released |-> p.released]
  BY <1>2, <1>3 DEF QueueOK
<1>5. QueueOK(a)
  BY <1>3, <1>4 DEF QueueOK
<1>6. Queued(a) = Queued(p)
  BY <1>4 DEF Queued
<1> QED
  BY <1>3, <1>4, <1>5, <1>6 DEF a

(* Giving up records takes them from nowhere. *)
LEMMA ReleasedIs ==
    ASSUME NEW q, QueueOK(q), NEW R
    PROVE  LET p == [q EXCEPT !.released = @ \cup R]
           IN  /\ QueueOK(p)
               /\ Queued(p) = Queued(q)
               /\ p.known = q.known
               /\ p.released = q.released \cup R
<1> DEFINE p == [q EXCEPT !.released = @ \cup R]
<1>1. p = [heap |-> q.heap, known |-> q.known, released |-> q.released \cup R]
  BY DEF QueueOK
<1> HIDE DEF p
<1>2. QueueOK(p)
  BY <1>1 DEF QueueOK
<1>3. Queued(p) = Queued(q)
  BY <1>1 DEF Queued
<1> QED
  BY <1>1, <1>2, <1>3 DEF p

(* Popping takes the records out, and what is due and given up with them. *)
LEMMA WithoutIs ==
    ASSUME NEW q, QueueOK(q), NEW ids, ids \subseteq Queued(q)
    PROVE  /\ QueueOK(Without(q, ids))
           /\ Queued(Without(q, ids)) = Queued(q) \ (ids \cup (DueNow(q) \cap q.released))
           /\ Without(q, ids).known = q.known
           /\ Without(q, ids).released = q.released
<1> DEFINE gone == ids \cup (DueNow(q) \cap q.released)
           h == [r \in Records |-> IF r \in gone THEN Tail(q.heap[r]) ELSE q.heap[r]]
           p == Without(q, ids)
<1>1. p = [heap |-> h, known |-> q.known, released |-> q.released]
  <2>1. p = [q EXCEPT !.heap = h]
    BY DEF Without
  <2> HIDE DEF h, p
  <2>2. q = [heap |-> q.heap, known |-> q.known, released |-> q.released]
    BY DEF QueueOK
  <2> QED
    BY <2>1, <2>2
<1>2. gone \subseteq Queued(q)
  BY DEF DueNow, Queued
<1>3. \A r \in Records : IF r \in gone THEN h[r] = << >> ELSE h[r] = q.heap[r]
  <2> SUFFICES ASSUME NEW r \in Records, r \in gone PROVE h[r] = << >>
    OBVIOUS
  <2> HIDE DEF gone
  <2>1. h[r] = Tail(q.heap[r])
    OBVIOUS
  <2>2. q.heap[r] = <<q.heap[r][1]>>
    BY <1>2 DEF QueueOK, Short, Queued
  <2>3. \A x : Tail(<<x>>) = << >>
    OBVIOUS
  <2> HIDE DEF h
  <2> QED
    BY <2>1, <2>2, <2>3
<1>4. h = [r \in Records |-> h[r]]
  OBVIOUS
<1> HIDE DEF h, p, gone
<1>5. p.heap = h /\ p.known = q.known /\ p.released = q.released
  BY <1>1
<1>6. \A r \in Records : Short(h[r])
  BY <1>3 DEF QueueOK, Short
<1>7. QueueOK(p)
  BY <1>1, <1>4, <1>5, <1>6 DEF QueueOK
<1>8. Queued(p) = Queued(q) \ gone
  BY <1>3, <1>5 DEF Queued
<1> QED
  BY <1>5, <1>7, <1>8 DEF p, gone

(* What is popped waits. *)
LEMMA PoppedWaits == ASSUME NEW q PROVE Popped(q) \subseteq Queued(q)
  BY DEF Popped, DueNow, Queued

(* A block later, what waits is due a block earlier. *)
LEMMA EarlierIs ==
    ASSUME NEW q, QueueOK(q)
    PROVE  LET p == [q EXCEPT !.heap = [r \in Records |->
                        [i \in DOMAIN @[r] |-> IF @[r][i] = -MaxAge THEN -MaxAge
                                               ELSE @[r][i] - 1]]]
           IN  /\ QueueOK(p)
               /\ Queued(p) = Queued(q)
               /\ p.known = q.known
               /\ p.released = q.released
<1> DEFINE Earlier(s) == [i \in DOMAIN s |-> IF s[i] = -MaxAge THEN -MaxAge ELSE s[i] - 1]
           h == [r \in Records |-> Earlier(q.heap[r])]
           p == [q EXCEPT !.heap = h]
<1>1. \A r \in Records : Short(h[r]) /\ (h[r] = << >> <=> q.heap[r] = << >>)
  <2> SUFFICES ASSUME NEW r \in Records
               PROVE  Short(h[r]) /\ (h[r] = << >> <=> q.heap[r] = << >>)
    OBVIOUS
  <2>1. Earlier(<< >>) = << >>
    OBVIOUS
  <2>2. ASSUME NEW x PROVE \E y : Earlier(<<x>>) = <<y>>
    <3>1. Earlier(<<x>>) = <<IF x = -MaxAge THEN -MaxAge ELSE x - 1>>
      OBVIOUS
    <3> HIDE DEF Earlier
    <3> QED
      BY <3>1
  <2>3. h[r] = Earlier(q.heap[r]) /\ Short(q.heap[r])
    BY DEF QueueOK
  <2> HIDE DEF h, Earlier
  <2>4. CASE q.heap[r] = << >>
    BY <2>1, <2>3, <2>4 DEF Short
  <2>5. CASE q.heap[r] # << >>
    <3>1. PICK x : q.heap[r] = <<x>>
      BY <2>3, <2>5 DEF Short
    <3>2. PICK y : h[r] = <<y>>
      BY <2>2, <2>3, <3>1
    <3> QED
      BY <2>5, <3>2 DEF Short
  <2> QED
    BY <2>4, <2>5
<1>2. h = [r \in Records |-> h[r]]
  OBVIOUS
<1> HIDE DEF h
<1>3. p = [heap |-> h, known |-> q.known, released |-> q.released]
  BY DEF QueueOK
<1> HIDE DEF p
<1>4. p.heap = h /\ p.known = q.known /\ p.released = q.released
  BY <1>3
<1>5. QueueOK(p)
  BY <1>1, <1>2, <1>3, <1>4 DEF QueueOK
<1>6. Queued(p) = Queued(q)
  BY <1>1, <1>4 DEF Queued
<1> QED
  BY <1>4, <1>5, <1>6 DEF p, h

-----------------------------------------------------------------------------
(* The places.                                                             *)

(* What is queued when it is not known is in one place. *)
LEMMA AddedPlaced ==
    ASSUME NEW q, NEW p, NEW b, NEW t, Placed(q, p, b, t), NEW S \in SUBSET Records
    PROVE  Placed(Added(q, S), p, b, t)
<1>1. QueueOK(q) /\ Queued(q) \subseteq q.known
  BY DEF Placed, Apart
<1>2. /\ QueueOK(Added(q, S))
      /\ Queued(Added(q, S)) = Queued(q) \cup (S \ q.known)
      /\ Added(q, S).known = q.known \cup S
      /\ Added(q, S).released = q.released
  BY <1>1, AddedIs
<1> QED
  BY <1>2 DEF Placed, Apart

(* Records are given up where they are. *)
LEMMA ReleasedPlaced ==
    ASSUME NEW q, NEW p, NEW b, NEW t, Placed(q, p, b, t), NEW R
    PROVE  Placed([q EXCEPT !.released = @ \cup R], p, b, t)
<1> DEFINE n == [q EXCEPT !.released = @ \cup R]
<1>1. /\ QueueOK(n)
      /\ Queued(n) = Queued(q)
      /\ n.known = q.known
      /\ n.released = q.released \cup R
  BY ReleasedIs DEF Placed
<1> HIDE DEF n
<1>2. Placed(n, p, b, t)
  BY <1>1 DEF Placed, Apart
<1> QED
  BY <1>2 DEF n

(* Records that are in flight no more are queued again. *)
LEMMA ReturnedPlaced ==
    ASSUME NEW q, NEW p, NEW b, NEW t, Placed(q, p, b, t), NEW due, DOMAIN due = Ids(t)
    PROVE  Placed(Pushed(q, due), p, b, << >>)
<1>1. QueueOK(q) /\ DOMAIN due \subseteq Records /\ DOMAIN due \cap Queued(q) = {}
  BY IdsOf DEF Placed, Apart
<1>2. /\ QueueOK(Pushed(q, due))
      /\ Queued(Pushed(q, due)) = Queued(q) \cup Ids(t)
      /\ Pushed(q, due).known = q.known
      /\ Pushed(q, due).released = q.released
  BY <1>1, PushedIs
<1> HIDE DEF Pushed
<1> QED
  BY <1>2, EmptyList DEF Placed, Apart

(* The batch becomes the transaction. *)
LEMMA SentPlaced ==
    ASSUME NEW q, NEW p, NEW b, NEW t, Placed(q, p, b, t)
    PROVE  Placed(q, p, t, b)
  BY DEF Placed, Apart

(* The claims that waited and were not given up are batched. *)
LEMMA BatchedPlaced ==
    ASSUME NEW q, NEW p, Placed(q, p, << >>, << >>), NEW n \in Nat,
           NEW left, left = Remaining(p, q.released), n <= Len(left)
    PROVE  Placed(q, SubSeq(left, n + 1, Len(left)), SubSeq(left, 1, n), << >>)
<1> DEFINE a == SubSeq(left, 1, n)
           c == SubSeq(left, n + 1, Len(left))
<1>1. ClaimList(left) /\ Ids(left) = Ids(p) \ q.released
  BY RemainingIs DEF Placed
<1>2. /\ ClaimList(a) /\ ClaimList(c)
      /\ Ids(a) \cap Ids(c) = {}
      /\ Ids(a) \cup Ids(c) = Ids(left)
  BY <1>1, SplitIs
<1> HIDE DEF a, c
<1>3. Placed(q, c, a, << >>)
  BY <1>1, <1>2, EmptyList DEF Placed, Apart
<1> QED
  BY <1>3 DEF a, c

(* Of the records that were popped some are queued again, the others are   *)
(* in the claims that were built.                                          *)
LEMMA BuiltPlaced ==
    ASSUME NEW q, NEW p, Placed(q, p, << >>, << >>), Remaining(p, q.released) = << >>,
           NEW ids, ids \subseteq Queued(q), NEW built, ClaimList(built),
           Ids(built) \subseteq ids, NEW due, DOMAIN due = ids \ Ids(built),
           NEW n \in Nat, n <= Len(built)
    PROVE  Placed(Pushed(Without(q, ids), due),
                  SubSeq(built, n + 1, Len(built)), SubSeq(built, 1, n), << >>)
<1> DEFINE w == Without(q, ids)
           m == Pushed(w, due)
           a == SubSeq(built, 1, n)
           c == SubSeq(built, n + 1, Len(built))
<1>1. Ids(p) \subseteq q.released
  <2>1. Ids(Remaining(p, q.released)) = Ids(p) \ q.released
    BY RemainingIs DEF Placed
  <2> QED
    BY <2>1, EmptyList
<1>2. /\ QueueOK(w)
      /\ Queued(w) = Queued(q) \ (ids \cup (DueNow(q) \cap q.released))
      /\ w.known = q.known
      /\ w.released = q.released
  BY WithoutIs DEF Placed
<1>3. DOMAIN due \subseteq Records /\ DOMAIN due \cap Queued(w) = {}
  BY <1>2 DEF Queued
<1> HIDE DEF w, a, c
<1>4. /\ QueueOK(m)
      /\ Queued(m) = Queued(w) \cup (ids \ Ids(built))
      /\ m.known = q.known
      /\ m.released = q.released
  BY <1>2, <1>3, PushedIs
<1> HIDE DEF m
<1>5. /\ ClaimList(a) /\ ClaimList(c)
      /\ Ids(a) \cap Ids(c) = {}
      /\ Ids(a) \cup Ids(c) = Ids(built)
  BY SplitIs DEF a, c
<1>6. Placed(m, c, a, << >>)
  <2>1. Apart(Queued(q), Ids(p), {}, {}, q.known, q.released)
    BY EmptyList DEF Placed
  <2>2. Apart(Queued(m), Ids(c), Ids(a), {}, m.known, m.released)
    BY <1>1, <1>2, <1>4, <1>5, <2>1 DEF Apart
  <2> QED
    BY <1>4, <1>5, <2>2, EmptyList DEF Placed
<1> QED
  BY <1>6 DEF m, w, a, c

-----------------------------------------------------------------------------
(* The steps.                                                              *)

(* The invariant of the next state, from its parts. *)
LEMMA InvNext ==
    ASSUME NEW q, NEW p, NEW b, NEW t, Placed(q, p, b, t.claims), TxShape(t),
           b # << >> => t = NoTx,
           queue' = q, pending' = p, batch' = b, tx' = t,
           stored' \subseteq Records, news' \subseteq Records
    PROVE  Inv'
<1>1. Placed(queue', pending', batch', tx'.claims)
  OBVIOUS
<1>2. TxShape(tx')
  OBVIOUS
<1>3. batch' # << >> => tx' = NoTx
  BY DEF NoTx
<1> QED
  BY <1>1, <1>2, <1>3 DEF Inv, NoTx

(* No transaction is in flight. *)
LEMMA NoTxIs == TxShape(NoTx) /\ NoTx.claims = << >>
  BY DEF NoTx, TxShape

(* A transaction that was sent. *)
LEMMA SentIs ==
    ASSUME NEW claims, NEW live, NEW mined
    PROVE  TxShape(Sent(claims, live, mined)) /\ Sent(claims, live, mined).claims = claims
  BY DEF Sent, TxShape

(* New and stored records are queued. *)
LEMMA DrainedPlaced ==
    ASSUME Inv, NEW found \in Found
    PROVE  /\ Placed(Drained(found), pending, batch, tx.claims)
           /\ Drains(found) => stored' \subseteq Records /\ news' \subseteq Records
<1>1. news \cup found \in SUBSET Records
  BY DEF Found, Inv
<1>2. Placed(Drained(found), pending, batch, tx.claims)
  BY <1>1, AddedPlaced DEF Drained, Inv
<1> QED
  BY <1>2 DEF Drains, Inv

(* The initial states. *)
LEMMA InitInv == Init => Inv
<1> SUFFICES ASSUME Init PROVE Inv
  OBVIOUS
<1>1. queue = NoQueue /\ pending = << >> /\ batch = << >> /\ tx = NoTx /\ news = {}
  BY DEF Init
<1>2. Placed(NoQueue, << >>, << >>, << >>)
  <2>1. NoQueue.known = {}
    BY DEF NoQueue
  <2> QED
    BY <2>1, NoQueueIs, EmptyList DEF Placed, Apart
<1>3. stored \subseteq Records
  BY ClaimsAssumption DEF Init
<1> QED
  BY <1>1, <1>2, <1>3, NoTxIs DEF Inv

(* A step that only drains keeps every place. *)
LEMMA AwaitInv == ASSUME Inv, Await PROVE Inv'
<1>1. PICK found \in Found : Drains(found) /\ queue' = Drained(found)
  BY DEF Await
<1>2. pending' = pending /\ batch' = batch /\ tx' = tx
  BY DEF Await
<1>3. Placed(Drained(found), pending, batch, tx.claims)
  BY DrainedPlaced
<1>4. stored' \subseteq Records /\ news' \subseteq Records
  BY <1>1, DrainedPlaced
<1>5. TxShape(tx) /\ (batch # << >> => tx = NoTx)
  BY DEF Inv
<1> QED
  BY <1>1, <1>2, <1>3, <1>4, <1>5, InvNext

(* The claims that are in the chain go back to the queue. *)
LEMMA IncludedInv == ASSUME Inv, Included PROVE Inv'
<1> DEFINE due == [r \in Ids(tx.claims) |-> 0]
<1>1. PICK found \in Found : Drains(found) /\ queue' = Pushed(Drained(found), due)
  BY DEF Included
<1>2. pending' = pending /\ batch' = batch /\ tx' = NoTx
  BY DEF Included
<1>3. Placed(Drained(found), pending, batch, tx.claims)
  BY DrainedPlaced
<1>4. stored' \subseteq Records /\ news' \subseteq Records
  BY <1>1, DrainedPlaced
<1>5. DOMAIN due = Ids(tx.claims)
  OBVIOUS
<1> HIDE DEF due
<1>6. Placed(Pushed(Drained(found), due), pending, batch, << >>)
  BY <1>3, <1>5, ReturnedPlaced
<1> QED
  BY <1>1, <1>2, <1>4, <1>6, NoTxIs, InvNext

(* A batch is sent, or its records go back to the queue. *)
LEMMA SendBatchInv ==
    ASSUME NEW q, NEW p, NEW claims, Placed(q, p, << >>, claims),
           NEW blocks, NEW mined, NEW wrong, SendBatch(q, claims, blocks, mined, wrong),
           pending' = p, batch' = << >>,
           stored' \subseteq Records, news' \subseteq Records
    PROVE  Inv'
<1>1. CASE \E live \in BOOLEAN : tx' = Sent(claims, live, mined) /\ queue' = q
  <2>1. PICK live \in BOOLEAN : tx' = Sent(claims, live, mined) /\ queue' = q
    BY <1>1
  <2>2. PICK t : t = Sent(claims, live, mined)
    OBVIOUS
  <2>3. TxShape(t) /\ t.claims = claims
    BY <2>2, SentIs
  <2> QED
    BY <2>1, <2>2, <2>3, InvNext
<1>2. CASE tx' = NoTx /\ queue' = Requeued(q, claims, blocks)
  <2> DEFINE due == [r \in Ids(claims) |-> Retry - blocks]
  <2>1. queue' = Pushed(q, due)
    BY <1>2 DEF Requeued
  <2>2. DOMAIN due = Ids(claims)
    OBVIOUS
  <2> HIDE DEF due
  <2>3. Placed(Pushed(q, due), p, << >>, << >>)
    BY <2>2, ReturnedPlaced
  <2> QED
    BY <1>2, <2>1, <2>3, NoTxIs, InvNext
<1> QED
  BY <1>1, <1>2 DEF SendBatch

(* The batch of a pass is sent. *)
LEMMA SendInv == ASSUME Inv, Send PROVE Inv'
<1>1. PICK old \in BOOLEAN : SendBatch(queue, batch, lag, old, Wrong("counter", old))
  BY DEF Send
<1>2. /\ pending' = pending /\ batch' = << >>
      /\ stored' \subseteq Records /\ news' \subseteq Records
  BY DEF Send, Inv, disk
<1>3. Placed(queue, pending, << >>, batch)
  <2>1. tx = NoTx
    BY DEF Send, Inv
  <2> QED
    BY <2>1, NoTxIs, SentPlaced DEF Inv
<1> QED
  BY <1>1, <1>2, <1>3, SendBatchInv

(* The claims of a lost transaction are sent again. *)
LEMMA ResendInv == ASSUME Inv, Resend PROVE Inv'
<1>1. PICK found \in Found :
        /\ Drains(found)
        /\ SendBatch(Drained(found), tx.claims, 0, tx.mined,
                     Wrong("scan", scan /\ found # stored) \cup Wrong("counter", tx.mined))
  BY DEF Resend
<1>2. pending' = pending /\ batch' = << >> /\ batch = << >>
  BY DEF Resend, Inv
<1>3. Placed(Drained(found), pending, << >>, tx.claims)
  BY <1>2, DrainedPlaced
<1>4. stored' \subseteq Records /\ news' \subseteq Records
  BY <1>1, DrainedPlaced
<1> QED
  BY <1>1, <1>2, <1>3, <1>4, SendBatchInv

(* What is split goes into the batch, as far as it fits. *)
LEMMA FitsIs ==
    ASSUME NEW claims, ClaimList(claims)
    PROVE  AtMost(Len(claims), TxLimit) \in Nat /\ AtMost(Len(claims), TxLimit) <= Len(claims)
  BY ClaimsAssumption DEF ClaimList, AtMost

(* The next batch is of the claims that wait. *)
LEMMA SplitInv ==
    ASSUME NEW q, NEW p, Placed(q, p, << >>, << >>), NEW left, left = Remaining(p, q.released),
           queue' = q, Split(left), tx' = NoTx,
           stored' \subseteq Records, news' \subseteq Records
    PROVE  Inv'
<1> DEFINE n == AtMost(Len(left), TxLimit)
           a == SubSeq(left, 1, n)
           c == SubSeq(left, n + 1, Len(left))
<1>1. ClaimList(left)
  BY RemainingIs DEF Placed
<1>2. n \in Nat /\ n <= Len(left)
  BY <1>1, FitsIs
<1>3. batch' = a /\ pending' = c
  BY DEF Split
<1> HIDE DEF n
<1>4. Placed(q, c, a, << >>)
  BY <1>2, BatchedPlaced
<1> HIDE DEF a, c
<1> QED
  BY <1>3, <1>4, NoTxIs, InvNext

(* The records that are popped are built, or queued again. *)
LEMMA StepInv ==
    ASSUME NEW q, NEW p, Placed(q, p, << >>, << >>), Remaining(p, q.released) = << >>,
           NEW ids, ids \subseteq Queued(q), NEW h, NEW wrong, Step(q, ids, h, wrong),
           tx' = NoTx, stored' \subseteq Records, news' \subseteq Records
    PROVE  Inv'
<1>1. PICK unread \in {Absent(ids) \cup u : u \in SUBSET ids}, unbuilt \in SUBSET ids :
        \E bits \in {SearchBits(held')} :
        \E planned \in {{r \in ids \ unread : Claimable(r, bits) # {}}} :
        \E order \in InOrder(q, planned \ unbuilt) :
        \E claims \in {Claims(order, bits)} :
          /\ unbuilt \subseteq planned
          /\ Build(q, ids, claims, unread \cup unbuilt, bits)
  BY Zenon DEF Step
<1>2. PICK bits \in {SearchBits(held')}, planned \in SUBSET ids :
        \E order \in InOrder(q, planned \ unbuilt) :
          Build(q, ids, Claims(order, bits), unread \cup unbuilt, bits)
  BY <1>1
<1>3. PICK order \in InOrder(q, planned \ unbuilt) :
        Build(q, ids, Claims(order, bits), unread \cup unbuilt, bits)
  BY <1>2
<1> DEFINE built == Claims(order, bits)
           due == [r \in ids \ Ids(built) |-> IF r \in unread \cup unbuilt THEN Retry
                                             ELSE NextDue(r, bits)]
           n == AtMost(Len(built), TxLimit)
           a == SubSeq(built, 1, n)
           c == SubSeq(built, n + 1, Len(built))
           m == Pushed(Without(q, ids), due)
<1>4. queue' = m /\ Split(built)
  BY <1>3 DEF Build
<1>5. batch' = a /\ pending' = c
  BY <1>4 DEF Split
<1>6. planned \ unbuilt \subseteq ids /\ planned \ unbuilt \in SUBSET Records
  BY DEF Queued
<1>7. ClaimList(built) /\ Ids(built) \subseteq ids
  BY <1>6, ClaimsIs
<1> HIDE DEF built
<1>8. n \in Nat /\ n <= Len(built)
  BY <1>7, FitsIs
<1>9. DOMAIN due = ids \ Ids(built)
  OBVIOUS
<1> HIDE DEF n, due
<1>10. Placed(m, c, a, << >>)
  BY <1>7, <1>8, <1>9, BuiltPlaced
<1> HIDE DEF a, c, m
<1> QED
  BY <1>4, <1>5, <1>10, NoTxIs, InvNext

(* A pass that fails queues what it popped again. *)
LEMMA PutBackInv ==
    ASSUME NEW q, NEW p, Placed(q, p, << >>, << >>), Remaining(p, q.released) = << >>,
           NEW ids, ids \subseteq Queued(q), queue' = PutBack(q, ids),
           pending' = << >>, batch' = << >>, tx' = NoTx,
           stored' \subseteq Records, news' \subseteq Records
    PROVE  Inv'
<1> DEFINE due == [r \in ids |-> Retry]
           m == Pushed(Without(q, ids), due)
<1>1. queue' = m
  BY DEF PutBack
<1>2. DOMAIN due = ids \ Ids(<< >>)
  BY EmptyList
<1> HIDE DEF due
<1>3. 0 \in Nat /\ 0 <= Len(<< >>)
  OBVIOUS
<1>4. SubSeq(<< >>, 1, 0) = << >> /\ SubSeq(<< >>, 0 + 1, Len(<< >>)) = << >>
  OBVIOUS
<1>5. Placed(m, SubSeq(<< >>, 0 + 1, Len(<< >>)), SubSeq(<< >>, 1, 0), << >>)
  BY <1>2, <1>3, EmptyList, BuiltPlaced
<1>6. Placed(m, << >>, << >>, << >>)
  BY <1>4, <1>5
<1> HIDE DEF m
<1> QED
  BY <1>1, <1>6, NoTxIs, InvNext

(* A pass with nothing in flight. *)
LEMMA PlanInv == ASSUME Inv, Plan PROVE Inv'
<1>1. /\ batch = << >> /\ tx' = NoTx
      /\ tx.claims = << >>
  BY NoTxIs DEF Plan
<1>2. PICK found \in Found, R \in ToRelease :
        \E q \in {[Drained(found) EXCEPT !.released = @ \cup R]} :
        \E ids \in {Popped(q)} :
          /\ Drains(found)
          /\ \/ queue' = q /\ Split(Remaining(pending, q.released))
             \/ /\ Remaining(pending, q.released) = << >>
                /\ Step(q, ids, held \ R, Wrong("scan", scan /\ found # stored))
             \/ /\ Remaining(pending, q.released) = << >>
                /\ queue' = PutBack(q, ids) /\ pending' = << >> /\ UNCHANGED batch
  BY DEF Plan
<1>3. PICK q, ids :
          /\ q = [Drained(found) EXCEPT !.released = @ \cup R]
          /\ ids = Popped(q)
          /\ Drains(found)
          /\ \/ queue' = q /\ Split(Remaining(pending, q.released))
             \/ /\ Remaining(pending, q.released) = << >>
                /\ Step(q, ids, held \ R, Wrong("scan", scan /\ found # stored))
             \/ /\ Remaining(pending, q.released) = << >>
                /\ queue' = PutBack(q, ids) /\ pending' = << >> /\ UNCHANGED batch
  BY <1>2
<1>4. Placed(q, pending, << >>, << >>)
  <2>1. Placed(Drained(found), pending, << >>, << >>)
    BY <1>1, DrainedPlaced
  <2> QED
    BY <1>3, <2>1, ReleasedPlaced
<1>5. stored' \subseteq Records /\ news' \subseteq Records
  BY <1>3, DrainedPlaced
<1>6. ids \subseteq Queued(q)
  BY <1>3, PoppedWaits
<1>7. CASE queue' = q /\ Split(Remaining(pending, q.released))
  BY <1>1, <1>4, <1>5, <1>7, SplitInv
<1>8. CASE /\ Remaining(pending, q.released) = << >>
           /\ Step(q, ids, held \ R, Wrong("scan", scan /\ found # stored))
  BY <1>1, <1>4, <1>5, <1>6, <1>8, StepInv
<1>9. CASE /\ Remaining(pending, q.released) = << >>
           /\ queue' = PutBack(q, ids) /\ pending' = << >> /\ UNCHANGED batch
  BY <1>1, <1>4, <1>5, <1>6, <1>9, PutBackInv
<1> QED
  BY <1>3, <1>7, <1>8, <1>9

(* The node restarts with nothing queued. *)
LEMMA RestartInv == ASSUME Inv, Restart PROVE Inv'
<1>1. /\ queue' = NoQueue /\ pending' = << >> /\ batch' = << >> /\ tx' = NoTx
      /\ stored' = stored /\ news' = {}
  BY DEF Restart
<1>2. Placed(NoQueue, << >>, << >>, << >>)
  <2>1. NoQueue.known = {}
    BY DEF NoQueue
  <2> QED
    BY <2>1, NoQueueIs, EmptyList DEF Placed, Apart
<1>3. stored \subseteq Records
  BY DEF Inv
<1> QED
  BY <1>1, <1>2, <1>3, NoTxIs, InvNext

(* A record is stored, and not queued yet. *)
LEMMA StoreInv == ASSUME Inv, NEW r \in Records, Store(r) PROVE Inv'
  BY DEF Inv, Store, plans

(* A block later every record is where it was. *)
LEMMA NextBlockInv == ASSUME Inv, NextBlock PROVE Inv'
<1> DEFINE m == [queue EXCEPT !.heap = [r \in Records |->
                    [i \in DOMAIN @[r] |-> IF @[r][i] = -MaxAge THEN -MaxAge ELSE @[r][i] - 1]]]
<1>1. PICK mine \in Mine, new \in SUBSET {r \in Records : lanes[r] = Unlisted} :
        /\ \E first, second : Block(first, second, new)
        /\ tx' = Later(tx, mine # "none", lanes')
  BY Zenon DEF NextBlock
<1>2. PICK first, second : Block(first, second, new)
  BY <1>1
<1>3. PICK table :
        /\ pending' = Outdated(pending, table)
        /\ batch' = Outdated(batch, table)
        /\ queue' = m
        /\ UNCHANGED <<case, disk, held, tuning>>
  BY <1>2 DEF Block
<1>4. PICK p, b, q : p = Outdated(pending, table) /\ b = Outdated(batch, table) /\ q = m
  OBVIOUS
<1>5. /\ QueueOK(q)
      /\ Queued(q) = Queued(queue)
      /\ q.known = queue.known
      /\ q.released = queue.released
  BY <1>4, EarlierIs DEF Inv, Placed
<1> HIDE DEF m
<1>6. ClaimList(p) /\ Ids(p) = Ids(pending)
  BY <1>4, OutdatedIs DEF Inv, Placed
<1>7. ClaimList(b) /\ Ids(b) = Ids(batch) /\ (batch = << >> => b = << >>)
  BY <1>4, OutdatedIs DEF Inv, Placed
<1>8. PICK t : /\ tx' = t
               /\ TxShape(t) /\ ClaimList(t.claims) /\ Ids(t.claims) = Ids(tx.claims)
               /\ tx = NoTx => t = NoTx
  <2>1. CASE tx = NoTx
    BY <1>1, <2>1, NoTxIs, EmptyList DEF Later
  <2>2. CASE tx # NoTx
    <3>1. PICK next : next = lanes'
      OBVIOUS
    <3>2. PICK x, y, z, t :
            /\ tx' = t
            /\ t = [claims |-> Outdated(tx.claims, next), ago |-> x, live |-> y, mined |-> z]
      BY <1>1, <2>2, <3>1 DEF Later
    <3>3. TxShape(t) /\ t.claims = Outdated(tx.claims, next)
      BY <3>2 DEF TxShape
    <3>4. ClaimList(t.claims) /\ Ids(t.claims) = Ids(tx.claims)
      BY <3>3, OutdatedIs DEF Inv, Placed
    <3> QED
      BY <2>2, <3>2, <3>3, <3>4
  <2> QED
    BY <2>1, <2>2
<1>9. Placed(q, p, b, t.claims)
  BY <1>5, <1>6, <1>7, <1>8 DEF Inv, Placed
<1>10. b # << >> => t = NoTx
  BY <1>7, <1>8 DEF Inv
<1>11. stored' \subseteq Records /\ news' \subseteq Records
  BY <1>3 DEF Inv, disk
<1>12. queue' = q /\ pending' = p /\ batch' = b
  BY <1>3, <1>4
<1> QED
  BY <1>8, <1>9, <1>10, <1>11, <1>12, InvNext

(* Every step keeps the invariant. *)
LEMMA NextInv == Inv /\ [Next]_vars => Inv'
<1> SUFFICES ASSUME Inv, [Next]_vars PROVE Inv'
  OBVIOUS
<1>1. CASE NextBlock
  BY <1>1, NextBlockInv
<1>2. CASE Worker
  BY <1>2, PlanInv, SendInv, AwaitInv, IncludedInv, ResendInv DEF Worker
<1>3. CASE Restart
  BY <1>3, RestartInv
<1>4. CASE \E r \in Records : Store(r)
  BY <1>4, StoreInv
<1>5. CASE UNCHANGED vars
  BY <1>5 DEF Inv, vars, disk, plans
<1> QED
  BY <1>1, <1>2, <1>3, <1>4, <1>5 DEF Next

(* The invariant says how often each record is held. *)
LEMMA InvPlace == Inv => InOnePlace
<1> SUFFICES ASSUME Inv, NEW r \in Records
             PROVE  /\ Len(queue.heap[r]) + InClaims(r) <= 1
                    /\ r \in queue.known \ queue.released =>
                         Len(queue.heap[r]) + InClaims(r) = 1
  BY DEF InOnePlace
<1>1. CountOf(pending, r) = IF r \in Ids(pending) THEN 1 ELSE 0
  BY CountIs DEF Inv, Placed
<1>2. CountOf(batch, r) = IF r \in Ids(batch) THEN 1 ELSE 0
  BY CountIs DEF Inv, Placed
<1>3. CountOf(tx.claims, r) = IF r \in Ids(tx.claims) THEN 1 ELSE 0
  BY CountIs DEF Inv, Placed
<1>4. Len(queue.heap[r]) = IF r \in Queued(queue) THEN 1 ELSE 0
  <2>1. Short(queue.heap[r])
    BY DEF Inv, Placed, QueueOK
  <2>2. \A x : Len(<<x>>) = 1
    OBVIOUS
  <2>3. Len(<< >>) = 0
    OBVIOUS
  <2> QED
    BY <2>1, <2>2, <2>3 DEF Short, Queued
<1>5. Apart(Queued(queue), Ids(pending), Ids(batch), Ids(tx.claims), queue.known, queue.released)
  BY DEF Inv, Placed
<1> QED
  BY <1>1, <1>2, <1>3, <1>4, <1>5 DEF InClaims, Apart

(* A record the worker knows is queued, in a claim that waits, in the      *)
(* batch or in flight, never in two of these, and in none only if it was   *)
(* given up, whatever fails and whenever the node restarts: the exception  *)
(* paths of claim.py lose no record and queue none twice.                  *)
THEOREM RecordInOnePlace == Spec => []InOnePlace
  BY InitInv, NextInv, InvPlace, PTL DEF Spec

-----------------------------------------------------------------------------
(* The index.                                                              *)

Machines == DOMAIN kept

PutMessage == [type : {"put"}, from : Nodes, to : Nodes, record : RecordIds,
               providers : SUBSET Machines]

AskMessage == [type : {"ask"}, from : Nodes, to : Nodes]

IndexTypeOK ==
    /\ Machines \subseteq Nodes
    /\ kept \in [Machines -> SUBSET RecordIds]
    /\ running \subseteq Machines
    /\ knows \in [Nodes -> SUBSET Machines]
    /\ heads \in [Nodes -> 0 .. Top]
    /\ ads \in [Nodes -> SUBSET RecordIds]
    /\ announce \in [Nodes -> (SUBSET RecordIds) \cup {Waiting}]
    /\ asked \in [Nodes -> BOOLEAN]
    /\ index \in [Nodes -> [RecordIds -> SUBSET Machines]]
    /\ mail \subseteq PutMessage \cup AskMessage
    /\ missed \in BOOLEAN
    /\ mishaps \in Nat

OwnKept ==
    \A n \in Machines :
        /\ ads[n] \subseteq kept[n]
        /\ announce[n] # Waiting => announce[n] \subseteq kept[n]

IndexInv == IndexTypeOK /\ OwnKept /\ OnlyKeepersNamed

(* The nodes that keep a record, in a table k. *)
Keepers(k, r) == {p \in DOMAIN k : r \in k[p]}

(* A list and the datagrams on their way name keepers only. *)
Names(k, r, listed, post) ==
    /\ listed \subseteq Keepers(k, r)
    /\ post \subseteq PutMessage \cup AskMessage
    /\ \A m \in post : m.type = "put" => m.providers \subseteq Keepers(k, m.record)

(* No record is dropped. *)
OnlyMoreKept ==
    /\ Machines' = Machines
    /\ kept' \in [Machines -> SUBSET RecordIds]
    /\ \A p \in Machines : kept[p] \subseteq kept'[p]

(* What a step does to the part of the invariant about the index. *)
IndexKept ==
    /\ OnlyKeepersNamed'
    /\ index' \in [Nodes -> [RecordIds -> SUBSET Machines]]
    /\ mail' \subseteq PutMessage \cup AskMessage

-----------------------------------------------------------------------------
(* What an announcement names.                                             *)

(* A list of keepers stays one when keepers are added. *)
LEMMA ListOfKeepers ==
    ASSUME NEW r \in RecordIds, NEW K, NEW listed, NEW new,
           listed \subseteq K, new \subseteq K
    PROVE  WithProviders(r, listed, new) \subseteq K
BY DEF WithProviders, Closest

(* The nearest peer of a node is a machine of the network. *)
LEMMA DestinationType ==
    ASSUME IndexTypeOK, NEW n \in Nodes, NEW r \in RecordIds
    PROVE  Destination(n, r) \subseteq Machines
BY DEF IndexTypeOK, Destination, Closest

(* An announcement by a keeper names keepers only. *)
LEMMA AnnouncedSound ==
    ASSUME IndexTypeOK, NEW n \in Nodes, NEW r \in RecordIds, NEW K, K \subseteq Machines,
           n \in K, NEW listed, listed \subseteq K
    PROVE  /\ Announced(n, r, listed).listed \subseteq K
           /\ Announced(n, r, listed).sent \subseteq PutMessage
           /\ \A m \in Announced(n, r, listed).sent : m.providers \subseteq K /\ m.record = r
<1>1. {n} \subseteq K
  OBVIOUS
<1>2. WithProviders(r, listed, {n}) \subseteq K
  BY <1>1, ListOfKeepers
<1>3. Announced(n, r, listed).listed \subseteq K
  BY <1>2 DEF Announced
<1>4. ASSUME NEW m \in Announced(n, r, listed).sent
      PROVE  m \in PutMessage /\ m.providers \subseteq K /\ m.record = r
  <2>1. PICK p \in Destination(n, r) : m = Put(n, p, r, {n})
    BY <1>4 DEF Announced
  <2>2. p \in Nodes
    BY <2>1, DestinationType DEF IndexTypeOK
  <2> QED BY <2>1, <2>2, <1>1 DEF Put, PutMessage
<1> QED BY <1>3, <1>4

-----------------------------------------------------------------------------
(* The initial states.                                                     *)

LEMMA IndexInitInv == IndexInit => IndexInv
<1> SUFFICES ASSUME IndexInit PROVE IndexInv
  OBVIOUS
<1>1. PICK s \in Starts :
          /\ running = DOMAIN s.chain
          /\ heads = [n \in Nodes |-> IF n \in running THEN s.chain[n] ELSE 0]
          /\ kept = s.kept
          /\ mishaps = s.troubles
  BY DEF IndexInit
<1>2. /\ DOMAIN s.chain \subseteq DOMAIN s.kept /\ DOMAIN s.kept \subseteq Nodes
      /\ s.chain \in [DOMAIN s.chain -> 0 .. Top]
      /\ s.kept \in [DOMAIN s.kept -> SUBSET RecordIds]
      /\ s.troubles \in Nat
      /\ Top \in Nat
  BY IndexAssumption DEF IndexAssumption
<1>3. heads \in [Nodes -> 0 .. Top]
  <2>1. 0 \in 0 .. Top
    BY <1>2
  <2> QED BY <1>1, <1>2, <2>1
<1>4. knows \in [Nodes -> SUBSET Machines]
  BY <1>1, <1>2 DEF IndexInit, Machines
<1>5. ads \in [Nodes -> SUBSET RecordIds] /\ \A n \in Machines : ads[n] \subseteq kept[n]
  BY <1>1, <1>2 DEF IndexInit, Machines
<1>6. IndexTypeOK
  BY <1>1, <1>2, <1>3, <1>4, <1>5 DEF IndexInit, IndexTypeOK, Machines
<1>7. OwnKept
  BY <1>1, <1>2, <1>5 DEF IndexInit, OwnKept, Machines
<1>8. OnlyKeepersNamed
  BY DEF IndexInit, OnlyKeepersNamed
<1> QED BY <1>6, <1>7, <1>8 DEF IndexInv

-----------------------------------------------------------------------------
(* The steps.                                                              *)

LEMMA MailNames ==
    ASSUME IndexInv, OnlyMoreKept, NEW post, post \subseteq mail
    PROVE  /\ post \subseteq PutMessage \cup AskMessage
           /\ \A m \in post : m.type = "put" => m.providers \subseteq Keepers(kept', m.record)
<1>1. post \subseteq PutMessage \cup AskMessage
  BY DEF IndexInv, IndexTypeOK
<1>2. ASSUME NEW m \in post, m.type = "put", NEW p \in m.providers
      PROVE  p \in Keepers(kept', m.record)
  <2>1. m \in PutMessage
    BY <1>1, <1>2 DEF PutMessage, AskMessage
  <2>2. p \in Machines
    BY <2>1, <1>2 DEF PutMessage
  <2>3. m.record \in kept[p]
    BY <1>2 DEF IndexInv, OnlyKeepersNamed
  <2> QED BY <2>2, <2>3 DEF Keepers, OnlyMoreKept, Machines
<1> QED BY <1>1, <1>2

LEMMA IndexNames ==
    ASSUME IndexInv, OnlyMoreKept, NEW n \in Nodes, NEW r \in RecordIds
    PROVE  index[n][r] \subseteq Keepers(kept', r)
<1>1. index[n][r] \subseteq Machines
  BY DEF IndexInv, IndexTypeOK
<1>2. \A p \in index[n][r] : r \in kept[p]
  BY DEF IndexInv, OnlyKeepersNamed
<1> QED BY <1>1, <1>2 DEF Keepers, OnlyMoreKept, Machines

(* A step that changes one list and the mail, both naming keepers only. *)
LEMMA NamesStep ==
    ASSUME IndexInv, OnlyMoreKept, NEW n \in Nodes, NEW r \in RecordIds, NEW listed, NEW post,
           Names(kept', r, listed, post),
           index' = [index EXCEPT ![n][r] = listed], mail' = post
    PROVE  IndexKept
<1>1. /\ index \in [Nodes -> [RecordIds -> SUBSET Machines]]
      /\ listed \subseteq Machines
  BY DEF IndexInv, IndexTypeOK, Names, Keepers, OnlyMoreKept, Machines
<1>2. index' \in [Nodes -> [RecordIds -> SUBSET Machines]]
  BY <1>1
<1>3. mail' \subseteq PutMessage \cup AskMessage
  BY DEF Names
<1>4. ASSUME NEW k \in Nodes, NEW q \in RecordIds, NEW p \in index'[k][q]
      PROVE  q \in kept'[p]
  <2>1. CASE k = n /\ q = r
    <3>1. p \in listed
      BY <1>1, <1>4, <2>1
    <3> QED BY <3>1, <2>1 DEF Names, Keepers
  <2>2. CASE ~(k = n /\ q = r)
    <3>1. p \in index[k][q]
      BY <1>1, <1>4, <2>2
    <3> QED BY <3>1, IndexNames DEF Keepers
  <2> QED BY <2>1, <2>2
<1>5. ASSUME NEW m \in mail', m.type = "put", NEW p \in m.providers
      PROVE  m.record \in kept'[p]
  BY <1>5 DEF Names, Keepers
<1> QED BY <1>2, <1>3, <1>4, <1>5 DEF OnlyKeepersNamed, IndexKept

(* A step that only loses datagrams or adds requests. *)
LEMMA MailStep ==
    ASSUME IndexInv, OnlyMoreKept, UNCHANGED index, NEW post \in SUBSET mail,
           NEW asks \in SUBSET AskMessage, mail' = post \cup asks
    PROVE  IndexKept
<1>1. index' \in [Nodes -> [RecordIds -> SUBSET Machines]]
  BY DEF IndexInv, IndexTypeOK
<1>2. mail' \subseteq PutMessage \cup AskMessage
  BY MailNames
<1>3. ASSUME NEW k \in Nodes, NEW q \in RecordIds, NEW p \in index'[k][q]
      PROVE  q \in kept'[p]
  BY <1>3, IndexNames DEF Keepers
<1>4. ASSUME NEW m \in mail', m.type = "put", NEW p \in m.providers
      PROVE  m.record \in kept'[p]
  <2>1. m \in post
    BY <1>4 DEF AskMessage
  <2> QED BY <2>1, <1>4, MailNames DEF Keepers
<1> QED BY <1>1, <1>2, <1>3, <1>4 DEF OnlyKeepersNamed, IndexKept

(* A record its announcer keeps. *)
LEMMA AnnounceStep ==
    ASSUME IndexInv, UNCHANGED kept, NEW n \in Machines, NEW r \in RecordIds, r \in kept[n],
           AnnounceRecord(n, r)
    PROVE  IndexKept
<1> DEFINE a == Announced(n, r, index[n][r])
<1>1. OnlyMoreKept /\ n \in Nodes /\ Keepers(kept', r) \subseteq Machines /\ n \in Keepers(kept', r)
  BY DEF IndexInv, IndexTypeOK, OnlyMoreKept, Keepers, Machines
<1>2. index[n][r] \subseteq Keepers(kept', r)
  BY <1>1, IndexNames
<1>3. /\ a.listed \subseteq Keepers(kept', r)
      /\ a.sent \subseteq PutMessage
      /\ \A m \in a.sent : m.providers \subseteq Keepers(kept', r) /\ m.record = r
  BY <1>1, <1>2, AnnouncedSound DEF IndexInv
<1>4. Names(kept', r, a.listed, mail \cup a.sent)
  BY <1>1, <1>3, MailNames DEF Names
<1>5. index' = [index EXCEPT ![n][r] = a.listed] /\ mail' = mail \cup a.sent
  BY DEF AnnounceRecord
<1> HIDE DEF a
<1> QED BY <1>1, <1>4, <1>5, NamesStep

(* A fetch, successful or not. *)
LEMMA FetchStep ==
    ASSUME IndexInv, NEW n \in Machines, NEW r \in RecordIds, NEW listed, NEW succeeds \in BOOLEAN,
           NEW post, Names(kept, r, listed, post), Fetch(n, r, listed, succeeds, post)
    PROVE  OnlyMoreKept /\ IndexKept
<1> DEFINE a == AfterFetch(n, r, listed, succeeds)
<1>1. OnlyMoreKept /\ n \in Nodes
  BY DEF IndexInv, IndexTypeOK, OnlyMoreKept, Machines, Fetch
<1>2. Keepers(kept', r) \subseteq Machines /\ \A q : Keepers(kept, q) \subseteq Keepers(kept', q)
  BY <1>1 DEF Keepers, OnlyMoreKept, Machines
<1>3. listed \subseteq Keepers(kept', r)
  BY <1>2 DEF Names
<1>4. /\ a.listed \subseteq Keepers(kept', r)
      /\ a.sent \subseteq PutMessage
      /\ \A m \in a.sent : m.providers \subseteq Keepers(kept', r) /\ m.record = r
  <2>1. CASE succeeds
    <3>1. n \in Keepers(kept', r)
      BY <2>1, <1>1 DEF IndexInv, IndexTypeOK, Fetch, Keepers, OnlyMoreKept, Machines
    <3>2. a = Announced(n, r, listed)
      BY <2>1 DEF AfterFetch
    <3> QED BY <3>1, <3>2, <1>1, <1>2, <1>3, AnnouncedSound DEF IndexInv
  <2>2. CASE ~succeeds
    BY <2>2, <1>3 DEF AfterFetch
  <2> QED BY <2>1, <2>2
<1>5. Names(kept', r, a.listed, post \cup a.sent)
  BY <1>2, <1>4 DEF Names
<1>6. index' = [index EXCEPT ![n][r] = a.listed] /\ mail' = post \cup a.sent
  BY DEF Fetch
<1> HIDE DEF a
<1>7. IndexKept
  BY <1>1, <1>5, <1>6, NamesStep
<1> QED BY <1>1, <1>7

-----------------------------------------------------------------------------
(* The invariant is kept.                                                  *)

(* The variables besides the records, the index and the mail. *)
RestOK ==
    /\ running' \subseteq Machines
    /\ knows' \in [Nodes -> SUBSET Machines]
    /\ heads' \in [Nodes -> 0 .. Top]
    /\ ads' \in [Nodes -> SUBSET RecordIds]
    /\ announce' \in [Nodes -> (SUBSET RecordIds) \cup {Waiting}]
    /\ asked' \in [Nodes -> BOOLEAN]
    /\ missed' \in BOOLEAN
    /\ mishaps' \in Nat

LEMMA Parts ==
    ASSUME IndexInv, OnlyMoreKept, IndexKept, RestOK, OwnKept'
    PROVE  IndexInv'
<1>1. /\ Machines' \subseteq Nodes /\ kept' \in [Machines' -> SUBSET RecordIds]
      /\ running' \subseteq Machines' /\ knows' \in [Nodes -> SUBSET Machines']
      /\ index' \in [Nodes -> [RecordIds -> SUBSET Machines']]
  BY DEF IndexInv, IndexTypeOK, OnlyMoreKept, IndexKept, RestOK
<1>2. PutMessage' = PutMessage /\ AskMessage' = AskMessage
  BY DEF OnlyMoreKept, PutMessage, AskMessage
<1>3. IndexTypeOK'
  BY <1>1, <1>2 DEF IndexTypeOK, IndexKept, RestOK
<1> QED BY <1>3 DEF IndexInv, IndexKept

(* A node that goes on with fewer records to announce. *)
LEMMA OwnStep ==
    ASSUME IndexInv, OnlyMoreKept,
           \A n \in Machines :
              /\ ads'[n] \subseteq ads[n]
              /\ announce'[n] # Waiting => announce'[n] \subseteq kept[n]
    PROVE  OwnKept'
BY DEF IndexInv, OwnKept, OnlyMoreKept

LEMMA SmoothType ==
    ASSUME IndexTypeOK,
           \/ Smooth
           \/ (Trouble \/ UNCHANGED mishaps) /\ missed' \in BOOLEAN
    PROVE  missed' \in BOOLEAN /\ mishaps' \in Nat
BY DEF IndexTypeOK, Smooth, Trouble

LEMMA NothingKept ==
    ASSUME IndexInv, UNCHANGED kept
    PROVE  OnlyMoreKept
BY DEF IndexInv, IndexTypeOK, OnlyMoreKept, Machines

LEMMA QuietIndex ==
    ASSUME IndexInv, UNCHANGED <<kept, index, mail>>
    PROVE  IndexKept
<1>1. mail' = mail \cup {} /\ OnlyMoreKept
  BY NothingKept
<1>2. mail \in SUBSET mail /\ {} \in SUBSET AskMessage
  OBVIOUS
<1> QED BY <1>1, <1>2, MailStep

LEMMA FlushAdsInv ==
    ASSUME IndexInv, NEW n \in Nodes, NEW r \in RecordIds, FlushAds(n, r)
    PROVE  IndexInv'
<1>1. UNCHANGED kept /\ OnlyMoreKept
  BY NothingKept DEF FlushAds
<1>2. n \in Machines /\ r \in kept[n]
  BY DEF IndexInv, IndexTypeOK, OwnKept, FlushAds
<1>3. IndexKept
  BY <1>1, <1>2, AnnounceStep DEF FlushAds
<1>4. RestOK
  BY SmoothType DEF IndexInv, IndexTypeOK, RestOK, FlushAds
<1>5. OwnKept'
  BY <1>1, OwnStep DEF IndexInv, IndexTypeOK, OwnKept, FlushAds
<1> QED BY <1>1, <1>3, <1>4, <1>5, Parts

LEMMA StartAnnounceInv ==
    ASSUME IndexInv, NEW n \in Nodes, StartAnnounce(n)
    PROVE  IndexInv'
<1>1. OnlyMoreKept /\ IndexKept
  BY NothingKept, QuietIndex DEF StartAnnounce
<1>2. n \in Machines /\ kept[n] \in SUBSET RecordIds
  BY DEF IndexInv, IndexTypeOK, StartAnnounce
<1>3. RestOK
  BY <1>2, SmoothType DEF IndexInv, IndexTypeOK, RestOK, StartAnnounce
<1>4. OwnKept'
  BY <1>1, <1>2, OwnStep DEF IndexInv, IndexTypeOK, OwnKept, StartAnnounce
<1> QED BY <1>1, <1>3, <1>4, Parts

LEMMA AnnounceNextInv ==
    ASSUME IndexInv, NEW n \in Nodes, NEW r \in RecordIds, AnnounceNext(n, r)
    PROVE  IndexInv'
<1>1. UNCHANGED kept /\ OnlyMoreKept
  BY NothingKept DEF AnnounceNext
<1>2. /\ n \in Machines /\ r \in kept[n]
      /\ announce[n] \in SUBSET RecordIds /\ announce[n] \subseteq kept[n]
  BY DEF IndexInv, IndexTypeOK, OwnKept, AnnounceNext
<1>3. IndexKept
  BY <1>1, <1>2, AnnounceStep DEF AnnounceNext
<1>4. announce' = [announce EXCEPT ![n] = announce[n] \ {r}]
  BY DEF AnnounceNext
<1>5. RestOK
  BY <1>2, <1>4, SmoothType DEF IndexInv, IndexTypeOK, RestOK, AnnounceNext
<1>6. OwnKept'
  <2>1. UNCHANGED ads
    BY DEF AnnounceNext
  <2> QED BY <1>1, <1>2, <1>4, <2>1, OwnStep DEF IndexInv, IndexTypeOK, OwnKept
<1> QED BY <1>1, <1>3, <1>5, <1>6, Parts

LEMMA AnnounceErrorInv ==
    ASSUME IndexInv, NEW n \in Nodes, AnnounceError(n)
    PROVE  IndexInv'
<1>1. OnlyMoreKept /\ IndexKept
  BY NothingKept, QuietIndex DEF AnnounceError
<1>2. RestOK
  BY SmoothType DEF IndexInv, IndexTypeOK, RestOK, AnnounceError
<1>3. OwnKept'
  BY <1>1, OwnStep DEF IndexInv, IndexTypeOK, OwnKept, AnnounceError
<1> QED BY <1>1, <1>2, <1>3, Parts

LEMMA LongTermStoreInv ==
    ASSUME IndexInv, NEW n \in Nodes, NEW r \in RecordIds, LongTermStore(n, r)
    PROVE  IndexInv'
<1>1. n \in Machines
  BY DEF IndexInv, IndexTypeOK, LongTermStore
<1>2. UNCHANGED kept => OnlyMoreKept
  BY NothingKept
<1>3. index[n][r] \subseteq Keepers(kept, r)
  BY DEF IndexInv, IndexTypeOK, OnlyKeepersNamed, Keepers, Machines
<1>4. Names(kept, r, index[n][r], mail)
  BY <1>3 DEF IndexInv, IndexTypeOK, OnlyKeepersNamed, Names, Keepers, Machines, PutMessage, AskMessage
<1>5. Fetch(n, r, index[n][r], TRUE, mail)
  BY DEF LongTermStore
<1>6. OnlyMoreKept /\ IndexKept
  BY <1>1, <1>4, <1>5, FetchStep
<1>7. RestOK
  BY SmoothType DEF IndexInv, IndexTypeOK, RestOK, LongTermStore
<1>8. OwnKept'
  BY <1>6, OwnStep DEF IndexInv, IndexTypeOK, OwnKept, LongTermStore
<1> QED BY <1>6, <1>7, <1>8, Parts

LEMMA AskAllInv ==
    ASSUME IndexInv, NEW n \in Nodes, AskAll(n)
    PROVE  IndexInv'
<1> DEFINE asks == {Ask(n, p) : p \in knows[n]}
<1>1. OnlyMoreKept
  BY NothingKept DEF AskAll
<1>2. asks \in SUBSET AskMessage
  BY DEF IndexInv, IndexTypeOK, Ask, AskMessage
<1>3. IndexKept
  <2>1. mail \in SUBSET mail /\ mail' = mail \cup asks /\ UNCHANGED index
    BY DEF AskAll
  <2> HIDE DEF asks
  <2> QED BY <1>1, <1>2, <2>1, MailStep
<1>4. RestOK
  BY SmoothType DEF IndexInv, IndexTypeOK, RestOK, AskAll
<1>5. OwnKept'
  BY <1>1, OwnStep DEF IndexInv, IndexTypeOK, OwnKept, AskAll
<1> QED BY <1>1, <1>3, <1>4, <1>5, Parts

LEMMA AskBranchInv ==
    ASSUME IndexInv, NEW n \in Nodes, AskBranch(n)
    PROVE  IndexInv'
<1> DEFINE asks == {Ask(n, p) : p \in Closest(knows[n], n, Branch)}
<1>1. OnlyMoreKept
  BY NothingKept DEF AskBranch
<1>2. asks \in SUBSET AskMessage
  BY DEF IndexInv, IndexTypeOK, Ask, AskMessage, Closest
<1>3. IndexKept
  <2>1. mail \in SUBSET mail /\ mail' = mail \cup asks /\ UNCHANGED index
    BY DEF AskBranch
  <2> HIDE DEF asks
  <2> QED BY <1>1, <1>2, <2>1, MailStep
<1>4. RestOK
  BY SmoothType DEF IndexInv, IndexTypeOK, RestOK, AskBranch
<1>5. OwnKept'
  BY <1>1, OwnStep DEF IndexInv, IndexTypeOK, OwnKept, AskBranch
<1> QED BY <1>1, <1>3, <1>4, <1>5, Parts

LEMMA DropInv ==
    ASSUME IndexInv, NEW m \in mail, Drop(m), Trouble \/ UNCHANGED mishaps
    PROVE  IndexInv'
<1>1. OnlyMoreKept
  BY NothingKept DEF Drop
<1>2. IndexKept
  <2>1. /\ mail \ {m} \in SUBSET mail /\ {} \in SUBSET AskMessage
        /\ mail' = (mail \ {m}) \cup {} /\ UNCHANGED index
    BY DEF Drop
  <2> QED BY <1>1, <2>1, MailStep
<1>3. RestOK
  <2>1. missed' \in BOOLEAN
    BY DEF IndexInv, IndexTypeOK, Drop
  <2> QED BY <2>1, SmoothType DEF IndexInv, IndexTypeOK, RestOK, Drop
<1>4. OwnKept'
  BY <1>1, OwnStep DEF IndexInv, IndexTypeOK, OwnKept, Drop
<1> QED BY <1>1, <1>2, <1>3, <1>4, Parts

(* Joining, a head, a start. *)
LEMMA NetworkInv ==
    ASSUME IndexInv, NEW n \in Nodes, NEW p \in Nodes, Meet(n, p) \/ Sync(n) \/ Start(n)
    PROVE  IndexInv'
<1>1. UNCHANGED <<kept, index, mail, ads, announce>>
  BY DEF Meet, Sync, Start
<1>2. OnlyMoreKept /\ IndexKept
  BY <1>1, NothingKept, QuietIndex
<1>3. RestOK
  <2>1. missed' \in BOOLEAN /\ mishaps' \in Nat
    BY SmoothType DEF IndexInv, Meet, Sync, Start
  <2>2. running' \subseteq Machines
    BY DEF IndexInv, IndexTypeOK, Meet, Sync, Start, Machines
  <2>3. knows' \in [Nodes -> SUBSET Machines]
    <3>1. knows \in [Nodes -> SUBSET Machines] /\ running \subseteq Machines
      BY DEF IndexInv, IndexTypeOK
    <3>2. CASE Meet(n, p)
      <4>1. knows[n] \cup {p} \in SUBSET Machines /\ knows[p] \cup {n} \in SUBSET Machines
        BY <3>1, <3>2 DEF Meet
      <4> QED BY <3>1, <3>2, <4>1 DEF Meet
    <3> QED BY <3>1, <3>2 DEF Sync, Start
  <2>4. heads' \in [Nodes -> 0 .. Top]
    <3>1. CASE Sync(n)
      <4>1. PICK h \in heads[n] + 1 .. Top : heads' = [heads EXCEPT ![n] = h]
        BY <3>1 DEF Sync
      <4>2. h \in 0 .. Top
        BY <4>1, IndexAssumption DEF IndexInv, IndexTypeOK, IndexAssumption
      <4> QED BY <4>1, <4>2 DEF IndexInv, IndexTypeOK
    <3> QED BY <3>1 DEF IndexInv, IndexTypeOK, Meet, Start
  <2>5. asked' \in [Nodes -> BOOLEAN]
    BY DEF IndexInv, IndexTypeOK, Meet, Sync, Start
  <2> QED BY <1>1, <2>1, <2>2, <2>3, <2>4, <2>5 DEF IndexInv, IndexTypeOK, RestOK
<1>4. OwnKept'
  BY <1>1, <1>2, OwnStep DEF IndexInv, OwnKept
<1> QED BY <1>2, <1>3, <1>4, Parts

(* A restart forgets the lists and keeps the records. *)
LEMMA CrashInv ==
    ASSUME IndexInv, NEW n \in Nodes, Crash(n)
    PROVE  IndexInv'
<1>1. OnlyMoreKept
  BY NothingKept DEF Crash
<1>2. IndexKept
  <2>1. index' \in [Nodes -> [RecordIds -> SUBSET Machines]]
    BY DEF IndexInv, IndexTypeOK, Crash
  <2>2. mail' \subseteq PutMessage \cup AskMessage
    BY DEF IndexInv, IndexTypeOK, Crash
  <2>3. OnlyKeepersNamed'
    <3>1. UNCHANGED <<kept, mail>>
      BY DEF Crash
    <3>2. ASSUME NEW k \in Nodes, NEW r \in RecordIds, NEW p \in index'[k][r]
          PROVE  r \in kept'[p]
      <4>1. k # n /\ p \in index[k][r]
        BY <3>2 DEF IndexInv, IndexTypeOK, Crash
      <4> QED BY <4>1, <3>1 DEF IndexInv, OnlyKeepersNamed
    <3> QED BY <3>1, <3>2 DEF IndexInv, OnlyKeepersNamed
  <2> QED BY <2>1, <2>2, <2>3 DEF IndexKept
<1>3. announce' = [announce EXCEPT ![n] = IF n \in Providers THEN Waiting ELSE {}]
  BY DEF Crash
<1>4. RestOK
  <2>1. heads' \in [Nodes -> 0 .. Top]
    <3>1. 0 \in 0 .. Top
      BY IndexAssumption DEF IndexAssumption
    <3> QED BY <3>1 DEF IndexInv, IndexTypeOK, Crash
  <2>2. missed' \in BOOLEAN /\ mishaps' \in Nat
    BY SmoothType DEF IndexInv, Crash
  <2> QED BY <1>3, <2>1, <2>2 DEF IndexInv, IndexTypeOK, RestOK, Crash
<1>5. OwnKept'
  BY <1>1, <1>3, OwnStep DEF IndexInv, IndexTypeOK, OwnKept, Crash
<1> QED BY <1>1, <1>2, <1>4, <1>5, Parts

(* A node that handles a put or a request. *)
LEMMA HandleStep ==
    ASSUME IndexInv, NEW m \in mail, m.to \in Machines, Handle(m)
    PROVE  OnlyMoreKept /\ IndexKept /\ missed' \in BOOLEAN /\ mishaps' \in Nat
<1> DEFINE n == m.to
           r == m.record
           listed == IF Takes(n, r) THEN WithProviders(r, index[n][r], m.providers)
                                    ELSE index[n][r]
           puts == {Put(n, p, r, m.providers) : p \in Destination(n, r) \ {m.from}}
           post == (mail \ {m}) \cup puts
<1>1. PICK succeeds \in BOOLEAN : Fetch(n, r, listed, succeeds, post)
  BY DEF Handle, Reachable
<1>2. m \in PutMessage /\ n \in Nodes /\ r \in RecordIds
  BY DEF Handle, IndexInv, IndexTypeOK, PutMessage, AskMessage
<1>3. m.providers \subseteq Keepers(kept, r) /\ index[n][r] \subseteq Keepers(kept, r)
  <2>1. m.type = "put" /\ m.providers \subseteq Machines
    BY <1>2 DEF PutMessage
  <2>2. m.providers \subseteq Keepers(kept, r)
    BY <2>1 DEF IndexInv, OnlyKeepersNamed, Keepers, Machines
  <2>3. index[n][r] \subseteq Machines
    BY <1>2 DEF IndexInv, IndexTypeOK
  <2>4. index[n][r] \subseteq Keepers(kept, r)
    BY <1>2, <2>3 DEF IndexInv, OnlyKeepersNamed, Keepers, Machines
  <2> QED BY <2>2, <2>4
<1>4. listed \subseteq Keepers(kept, r)
  BY <1>2, <1>3, ListOfKeepers
<1>5. ASSUME NEW q \in puts
      PROVE  q \in PutMessage /\ q.providers \subseteq Keepers(kept, q.record)
  <2>1. PICK p \in Destination(n, r) : q = Put(n, p, r, m.providers)
    BY <1>5
  <2>2. p \in Nodes /\ m.providers \in SUBSET Machines
    BY <1>2, <2>1, DestinationType DEF IndexInv, IndexTypeOK, PutMessage
  <2> QED BY <1>2, <1>3, <2>1, <2>2 DEF Put, PutMessage
<1>6. /\ mail \subseteq PutMessage \cup AskMessage
      /\ \A q \in mail : q.type = "put" => q.providers \subseteq Keepers(kept, q.record)
  <2>1. mail \subseteq PutMessage \cup AskMessage
    BY DEF IndexInv, IndexTypeOK
  <2>2. ASSUME NEW q \in mail, q.type = "put" PROVE q.providers \subseteq Keepers(kept, q.record)
    BY <2>1, <2>2 DEF IndexInv, OnlyKeepersNamed, Keepers, Machines, PutMessage, AskMessage
  <2> QED BY <2>1, <2>2
<1>7. Names(kept, r, listed, post)
  <2> HIDE DEF listed, puts
  <2> QED BY <1>4, <1>5, <1>6 DEF Names
<1>8. OnlyMoreKept /\ IndexKept
  <2> HIDE DEF n, r, listed, post
  <2> QED BY <1>1, <1>2, <1>7, FetchStep DEF n
<1>9. missed' \in BOOLEAN /\ mishaps' \in Nat
  BY SmoothType DEF IndexInv, IndexTypeOK, Handle
<1> QED BY <1>8, <1>9

LEMMA ServeIndexStep ==
    ASSUME IndexInv, NEW m \in mail, m.to \in Machines, ServeIndex(m)
    PROVE  OnlyMoreKept /\ IndexKept
<1> DEFINE n == m.to
           p == m.from
           rs == {q \in RecordIds : index[n][q] # {} /\ Belongs(n, p, q)}
           puts == IF p \notin knows[n] THEN {} ELSE {Put(n, p, r, index[n][r]) : r \in rs}
<1>1. OnlyMoreKept
  BY NothingKept DEF ServeIndex
<1>2. n \in Nodes /\ p \in Nodes
  BY DEF IndexInv, IndexTypeOK, PutMessage, AskMessage
<1>3. ASSUME NEW q \in puts
      PROVE  q \in PutMessage /\ q.providers \subseteq Keepers(kept', q.record)
  <2>1. PICK r \in RecordIds : q = Put(n, p, r, index[n][r])
    BY <1>3
  <2>2. index[n][r] \subseteq Machines /\ index[n][r] \subseteq Keepers(kept', r)
    BY <1>1, <1>2, <2>1, IndexNames DEF IndexInv, IndexTypeOK
  <2> QED BY <1>2, <2>1, <2>2 DEF Put, PutMessage
<1>4. mail' = (mail \ {m}) \cup puts /\ UNCHANGED index
  BY DEF ServeIndex
<1>5. index' \in [Nodes -> [RecordIds -> SUBSET Machines]]
  BY <1>4 DEF IndexInv, IndexTypeOK
<1> HIDE DEF n, p, puts
<1>6. mail' \subseteq PutMessage \cup AskMessage
  BY <1>3, <1>4 DEF IndexInv, IndexTypeOK
<1>7. ASSUME NEW q \in mail', q.type = "put", NEW k \in q.providers
      PROVE  q.record \in kept'[k]
  <2>1. CASE q \in puts
    BY <2>1, <1>3, <1>7 DEF Keepers
  <2>2. CASE q \in mail
    BY <2>2, <1>1, <1>7, MailNames DEF Keepers
  <2> QED BY <2>1, <2>2, <1>4, <1>7
<1>8. ASSUME NEW k \in Nodes, NEW q \in RecordIds, NEW j \in index'[k][q]
      PROVE  q \in kept'[j]
  BY <1>1, <1>4, <1>8, IndexNames DEF Keepers
<1> QED BY <1>1, <1>5, <1>6, <1>7, <1>8 DEF IndexKept, OnlyKeepersNamed

LEMMA ReceiveInv ==
    ASSUME IndexInv, NEW type, NEW n, NEW p, Receive(type, n, p)
    PROVE  IndexInv'
<1>1. PICK m \in mail : m.to = p /\ (Refuse(m) \/ Handle(m) \/ ServeIndex(m))
  BY DEF Receive
<1>2. m.to \in Machines
  BY <1>1 DEF IndexInv, IndexTypeOK, Receive
<1>3. OnlyMoreKept /\ IndexKept /\ missed' \in BOOLEAN /\ mishaps' \in Nat
  <2>1. CASE Refuse(m)
    <3>1. OnlyMoreKept
      BY <2>1, NothingKept DEF Refuse
    <3>2. /\ mail \ {m} \in SUBSET mail /\ {} \in SUBSET AskMessage
          /\ mail' = (mail \ {m}) \cup {} /\ UNCHANGED index
      BY <2>1 DEF Refuse
    <3> QED BY <2>1, <3>1, <3>2, MailStep DEF IndexInv, IndexTypeOK, Refuse
  <2>2. CASE Handle(m)
    BY <1>2, <2>2, HandleStep
  <2>3. CASE ServeIndex(m)
    BY <1>2, <2>3, ServeIndexStep, SmoothType DEF ServeIndex, IndexInv
  <2> QED BY <1>1, <2>1, <2>2, <2>3
<1>4. RestOK
  BY <1>3 DEF IndexInv, IndexTypeOK, RestOK, Receive
<1>5. OwnKept'
  BY <1>3, OwnStep DEF IndexInv, OwnKept, Receive
<1> QED BY <1>3, <1>4, <1>5, Parts

LEMMA IndexNextInv == IndexInv /\ [IndexNext]_indexVars => IndexInv'
<1> SUFFICES ASSUME IndexInv, [IndexNext]_indexVars PROVE IndexInv'
  OBVIOUS
<1>1. ASSUME NEW n \in Nodes, Job(n) PROVE IndexInv'
  BY <1>1, StartAnnounceInv, AskAllInv, FlushAdsInv, AnnounceNextInv, LongTermStoreInv,
     NetworkInv DEF Job
<1>2. ASSUME NEW n \in Nodes, AskBranch(n) \/ AnnounceError(n) \/ Crash(n) PROVE IndexInv'
  BY <1>2, AskBranchInv, AnnounceErrorInv, CrashInv
<1>3. CASE Delivery \/ Lose
  BY <1>3, ReceiveInv, DropInv DEF Delivery, Lose, Gone
<1>4. CASE UNCHANGED indexVars
  BY <1>4 DEF indexVars, IndexInv, IndexTypeOK, OwnKept, OnlyKeepersNamed, Machines, PutMessage, AskMessage
<1> QED BY <1>1, <1>2, <1>3, <1>4 DEF IndexNext

-----------------------------------------------------------------------------
(* Theorems.                                                               *)

(* Every variable keeps its type: in particular only machines of the       *)
(* network are ever met, listed or named.                                  *)
THEOREM IndexTypeCorrect == IndexSpec => []IndexTypeOK
<1>1. IndexInv => IndexTypeOK
  BY DEF IndexInv
<1> QED BY IndexInitInv, IndexNextInv, <1>1, PTL DEF IndexSpec

(* Whatever is lost, refused, repeated or restarted, an index and a put    *)
(* name nodes that keep the record (records/fetch.py announces after it    *)
(* has stored; the records table survives a restart).                      *)
THEOREM KeepersSafe == IndexSpec => []OnlyKeepersNamed
<1>1. IndexInv => OnlyKeepersNamed
  BY DEF IndexInv
<1> QED BY IndexInitInv, IndexNextInv, <1>1, PTL DEF IndexSpec

(* A node announces what it keeps: what waits in pending_ads and in the    *)
(* startup announcement is in its records table.                           *)
THEOREM AnnouncesOwn == IndexSpec => []OwnKept
<1>1. IndexInv => OwnKept
  BY DEF IndexInv
<1> QED BY IndexInitInv, IndexNextInv, <1>1, PTL DEF IndexSpec
=============================================================================
