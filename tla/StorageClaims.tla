---------------------------- MODULE StorageClaims ----------------------------
(***************************************************************************)
(* How a storage provider is paid for the records it keeps.  A record in   *)
(* the chain has lanes; a valid claim pays its sender for the blocks since *)
(* the last payment of the lane and makes the sender its winner (consensus *)
(* /transaction/storage).  The claim worker of a node queues the records   *)
(* it keeps, plans and builds the claims that are due, sends them in one   *)
(* transaction at a time and reads in the chain whether it got there       *)
(* (storage/workers/claim*.py).                                            *)
(*                                                                         *)
(* A pass of the worker is one step up to the send, since it reads one     *)
(* head; the proof of work takes blocks, so the send is another.  Heights  *)
(* are counted back from the head, and forward to it, up to MaxAge.        *)
(***************************************************************************)
EXTENDS Integers, FiniteSets, Sequences, SequencesExt, FiniteSetsExt, Sorting

CONSTANTS Records,     \* numbers: the storage ids in the order of their bytes
          Rivals, Me, NoOne, Unlisted,
          Near,        \* provider -> record -> shared_prefix_bits
          Size,        \* record -> new_size
          Affordable,  \* held lanes -> the bits the node can search for
          Overhead, PerClaim, MinProfit,   \* the cost of a transaction
          TxLimit,     \* claims in MAX_CLAIM_TX_BYTES
          Cases,       \* the networks there are, see Init
          MaxAge, MaxBand

ASSUME ClaimsAssumption ==
    /\ Records \subseteq Nat /\ IsFiniteSet(Records)
    /\ Me \notin Rivals /\ NoOne \notin Rivals \cup {Me}
    /\ \A r \in Records : Size[r] \in Nat \ {0}
    /\ {TxLimit, MaxAge, MaxBand} \subseteq Nat \ {0}
    /\ \A c \in Cases : c.stored \subseteq Records

VARIABLES lanes,       \* record -> its lanes in the chain, or Unlisted
          difficulty,  \* storage_difficulty of the head
          case,        \* fixed in each behavior: [fair, difficulty, listed,
                       \* stored, kinds, troubles, rivalry]; fair is 0 for None
          stored,      \* the records in cold storage
          news,        \* new_record_ids
          scan,        \* must the records table still be scanned?
          queue,       \* ClaimQueue: [heap, known, released]
          held,        \* the records of which the node holds a lane
          pending,     \* claims that are built and fit no transaction yet
          batch,       \* claims of the transaction being built
          lag,         \* blocks since the head of the batch
          tx,          \* the transaction in flight, or NoTx
          stray,       \* claims of a transaction the worker forgot
          tuning,      \* [band, delay, measured]
          capacity,    \* CapacityLog
          rivalry,     \* transactions of others still to come
          troubles     \* what may still go wrong, of case.kinds

chain  == <<lanes, difficulty>>
disk   == <<stored, news, scan>>
plans  == <<queue, held, pending>>
vars   == <<chain, case, disk, plans, batch, lag, tx, stray, tuning, capacity, rivalry, troubles>>

(* What goes wrong in a step. *)
Wrong(kind, bad) == IF bad THEN {kind} ELSE {}
Goes(kinds) == /\ kinds \subseteq case.kinds /\ troubles >= Cardinality(kinds)
               /\ troubles' = troubles - Cardinality(kinds)

fair == case.fair

Lane == {1, 2}                                     \* PROVIDERS_PER_RECORD

AtMost(n, max) == IF n > max THEN max ELSE n
AtLeast0(n)    == IF n < 0 THEN 0 ELSE n
CeilDiv(a, b)  == (a + b - 1) \div b
Log2(n)        == CHOOSE k \in 0 .. n : 2^k <= n /\ n < 2^(k + 1)

-----------------------------------------------------------------------------
(* The chain.                                                              *)

(* distance_delta *)
Delta(sender, winner, r) ==
    IF winner = NoOne THEN 0 ELSE Near[sender][r] - Near[winner][r]

(* required_bits *)
RequiredBits(sender, winner, r, elapsed) ==
    IF sender = winner THEN 0
    ELSE AtLeast0(difficulty - Log2(IF elapsed = 0 THEN 1 ELSE elapsed)
                             - Delta(sender, winner, r))

(* takeover_vote(takeover_position): was the lane taken before its time? *)
Vote(elapsed, delta) ==
    LET position == IF delta < 0 THEN elapsed \div 2^(-delta) ELSE elapsed * 2^delta IN
    CASE fair = 0 \/ position = fair -> 0
      [] fair # 0 /\ position < fair -> 1
      [] OTHER -> -1

(* next_storage_difficulty *)
NextDifficulty(votes) ==
    AtLeast0(difficulty + (IF votes > 0 THEN 1 ELSE IF votes < 0 THEN -1 ELSE 0))

(* _check_claim.  A claim answers the challenge of the lane's last payment *)
(* with the work it takes to win the lane.                                 *)
Valid(sender, c, table) ==
    /\ table[c.id] # Unlisted
    /\ \A l \in Lane \ {c.lane} : table[c.id][l].winner # sender
    /\ c.fresh
    /\ LET lane == table[c.id][c.lane] IN
       /\ c.bits >= RequiredBits(sender, lane.winner, c.id, lane.age)
       /\ lane.age > 0

(* handle_storage_payment_contract, over what the block did so far: each   *)
(* valid claim rewrites its lane at once.                                  *)
Paid(sender, claims, work) ==
    FoldLeft(LAMBDA w, c :
        IF Valid(sender, c, w.table)
        THEN LET lane == w.table[c.id][c.lane] IN
             [table |-> [w.table EXCEPT ![c.id][c.lane] = [age |-> 0, winner |-> sender]],
              votes |-> w.votes + IF sender = lane.winner THEN 0
                                  ELSE Vote(lane.age, Delta(sender, lane.winner, c.id))]
        ELSE w, work, claims)

(* The lanes one block later. *)
Aged == [r \in Records |->
            IF lanes[r] = Unlisted THEN Unlisted
            ELSE [l \in Lane |-> [lanes[r][l] EXCEPT !.age = AtMost(@ + 1, MaxAge)]]]

(* build_storage_record: lanes of the block before, won by no one *)
NewLanes == [l \in Lane |-> [age |-> 1, winner |-> NoOne]]

(* The claims on a lane that was paid answer an old challenge. *)
Outdated(claims, table) ==
    [i \in DOMAIN claims |->
        [claims[i] EXCEPT !.fresh = @ /\ table[claims[i].id][claims[i].lane].age # 0]]

(* Claims of another provider, on the lanes as they are. *)
RivalClaims ==
    LET one == [id : Records, lane : Lane, bits : {0, MaxAge}, fresh : {TRUE}]
    IN  {<<c>> : c \in one} \cup {<<c, [c EXCEPT !.lane = 3 - @]>> : c \in one}

(* A block with the claims of `first' before those of `second'; each is a  *)
(* sender and its claims.  `new' are the records of the block.             *)
Block(first, second, new) ==
    \E work \in {Paid(second[1], second[2], Paid(first[1], first[2], [table |-> Aged, votes |-> 0]))} :
    /\ lanes' = [r \in Records |-> IF r \in new THEN NewLanes ELSE work.table[r]]
    /\ difficulty' = NextDifficulty(work.votes)
    /\ pending' = Outdated(pending, work.table)
    /\ batch' = Outdated(batch, work.table)
    /\ lag' = IF batch = << >> THEN 0 ELSE AtMost(lag + 1, MaxAge)
    /\ queue' = [queue EXCEPT !.heap = [r \in Records |->
                    [i \in DOMAIN @[r] |-> IF @[r][i] = -MaxAge THEN -MaxAge ELSE @[r][i] - 1]]]
    /\ capacity' = {s \in {[t EXCEPT !.ago = @ + 1] : t \in capacity} : s.ago <= fair}
    /\ UNCHANGED <<case, disk, held, tuning>>

NoTx == [claims |-> << >>, ago |-> -1, live |-> FALSE, mined |-> FALSE]

(* The transaction in flight, or what is left of it, one block later.      *)
Later(t, mined, table) ==
    IF t = NoTx THEN NoTx
    ELSE [claims |-> Outdated(t.claims, table), ago |-> AtMost(t.ago + 1, MaxAge),
          live |-> t.live /\ ~mined, mined |-> t.mined \/ mined]

Mine == {"tx", "stray", "none"}

-----------------------------------------------------------------------------
(* The claim queue.                                                        *)

NoQueue == [heap |-> [r \in Records |-> << >>], known |-> {}, released |-> {}]

NoTuning == [band |-> 1, delay |-> 1, measured |-> FALSE]

(* put_record_in_cold_storage *)
Store(r) ==
    /\ r \notin stored
    /\ stored' = stored \cup {r}
    /\ news' = news \cup {r}
    /\ UNCHANGED <<chain, case, scan, plans, batch, lag, tx, stray, tuning, capacity, rivalry, troubles>>

(* queue_push: due is counted from the head. *)
Pushed(q, due) ==
    [q EXCEPT !.heap = [r \in Records |-> IF r \in DOMAIN due THEN Append(@[r], due[r]) ELSE @[r]]]

(* queue_add, of records that may be known. *)
Added(q, S) ==
    [Pushed(q, [r \in S \ q.known |-> 0]) EXCEPT !.known = @ \cup S]

(* What a pass does first: new and stored records are queued.  A scan that *)
(* fails found some of the records and starts again in the next pass.      *)
Found == IF scan THEN SUBSET stored ELSE {{}}

Drained(found) == Added(queue, news \cup found)

(* Faulty: a scan that failed is not repeated. *)
DrainsOnce(found) == news' = {} /\ scan' = FALSE /\ UNCHANGED stored

Drains(found) ==
    /\ news' = {}
    /\ scan' = (scan /\ found # stored)
    /\ UNCHANGED stored

(* When a record is looked at again after a failure. *)
Retry == IF fair = 0 THEN 1 ELSE fair

Ids(claims) == {claims[i].id : i \in DOMAIN claims}

-----------------------------------------------------------------------------
(* Planning.                                                               *)

(* claim_cost, with the size of the last transaction's claims *)
ClaimCost == (IF tuning.measured THEN PerClaim ELSE 0) + CeilDiv(Overhead, tuning.band)

MinElapsed(r) == CeilDiv(ClaimCost + CeilDiv(MinProfit, tuning.band), Size[r])

HolderDue == IF fair = 0 THEN 0 ELSE AtLeast0(fair - tuning.delay)

TakeoverDue(delta, bits) == 2^(AtLeast0(difficulty - delta - bits))

Later2(a, b) == IF a > b THEN a ELSE b

OwnLanes(r) == {l \in Lane : lanes[r][l].winner = Me}

(* The age of a lane in the next block *)
Elapsed(r, l) == AtMost(lanes[r][l].age + 1, MaxAge)

(* affordable_bits(pow_budget) *)
SearchBits(h) == IF fair = 0 THEN 0 ELSE Affordable[Cardinality(h)]

(* plan_record: the lanes the node may claim now, the best one of them ... *)
Claimable(r, bits) ==
    IF OwnLanes(r) # {}
    THEN {l \in OwnLanes(r) : lanes[r][l].age >= Later2(HolderDue, MinElapsed(r))}
    ELSE {l \in Lane : /\ RequiredBits(Me, lanes[r][l].winner, r, Elapsed(r, l)) <= bits
                       /\ lanes[r][l].age >= MinElapsed(r)}

Better(r, l, m) ==
    LET cost(n) == RequiredBits(Me, lanes[r][n].winner, r, Elapsed(r, n))
    IN  \/ cost(l) < cost(m)
        \/ cost(l) = cost(m) /\ lanes[r][l].age > lanes[r][m].age
        \/ cost(l) = cost(m) /\ lanes[r][l].age = lanes[r][m].age /\ l < m

(* ... and how many blocks from now it may claim one. *)
NextDue(r, bits) ==
    LET due(l) == IF OwnLanes(r) # {} THEN Later2(HolderDue, MinElapsed(r))
                  ELSE Later2(TakeoverDue(Delta(Me, lanes[r][l].winner, r), bits), MinElapsed(r))
        of == IF OwnLanes(r) # {} THEN OwnLanes(r) ELSE Lane
    IN  Min({AtLeast0(due(l) - lanes[r][l].age) : l \in of})

(* The claim _build_claims makes of a lane, *)
Claim(r, l) ==
    [id |-> r, lane |-> l, fresh |-> TRUE, payout |-> Size[r] * lanes[r][l].age,
     bits |-> RequiredBits(Me, lanes[r][l].winner, r, Elapsed(r, l))]

(* and those it makes of the planned records.                              *)
Best(r, bits) ==
    CHOOSE l \in Claimable(r, bits) : \A m \in Claimable(r, bits) \ {l} : Better(r, l, m)

Claims(ids, bits) == [i \in DOMAIN ids |-> Claim(ids[i], Best(ids[i], bits))]

(* The order of the heap, and some of its records in that order.           *)
Sooner(q, a, b) == \/ q.heap[a][1] < q.heap[b][1]
                   \/ q.heap[a][1] = q.heap[b][1] /\ a < b

InOrder(q, S) ==
    {ids \in Injection(1 .. Cardinality(S), S) :
        \A i, j \in DOMAIN ids : i < j => Sooner(q, ids[i], ids[j])}

(* queue_pop_due: the first records that are due; what is released and due *)
(* is thrown away.                                                         *)
DueNow(q) == {r \in Records : q.heap[r] # << >> /\ q.heap[r][1] <= 0}

Popped(q) ==
    LET live == DueNow(q) \ q.released
    IN  {r \in live : Cardinality({s \in live : Sooner(q, s, r)}) < tuning.band}

Without(q, ids) ==
    [q EXCEPT !.heap = [r \in Records |-> IF r \in ids \cup (DueNow(q) \cap q.released)
                                          THEN Tail(@[r]) ELSE @[r]]]

(* lanes_to_release: the worth of a lane, then the prefix of its record.   *)
CanServe(n) == fair = 0 \/ \A s \in capacity : n * s.delay <= s.band * fair

WorthLess(a, b) == \/ Size[a] < Size[b]
                   \/ Size[a] = Size[b] /\ Near[Me][a] <= Near[Me][b]

ToRelease ==
    {R \in SUBSET held :
        /\ CanServe(Cardinality(held \ R)) \/ R = held
        /\ R # {} => ~CanServe(Cardinality(held \ R) + 1)
        /\ \A a \in R, b \in held \ R : WorthLess(a, b)}

(* _split_claims: the first claims go into the batch, the others wait.     *)
Split(claims) ==
    LET n == AtMost(Len(claims), TxLimit) IN
    /\ batch' = SubSeq(claims, 1, n)
    /\ pending' = SubSeq(claims, n + 1, Len(claims))

Absent(ids) == {r \in ids : lanes[r] = Unlisted}

(* What is built goes on, the other records are queued again: those that   *)
(* failed, and those of which no lane can be claimed yet.                  *)
Build(q, ids, claims, failed, bits) ==
    /\ queue' = Pushed(Without(q, ids), [r \in ids \ Ids(claims) |->
                                            IF r \in failed THEN Retry ELSE NextDue(r, bits)])
    /\ Split(claims)

(* _claim_step of the records that were popped.  `unread' are those that   *)
(* are not in the tree or cannot be read, `unbuilt' those of which a slot, *)
(* the proof or the work fails.  What is built stays in the order in which *)
(* it was popped.                                                          *)
Step(q, ids, h, wrong) ==
    \E unread \in {Absent(ids) \cup u : u \in SUBSET ids}, unbuilt \in SUBSET ids :
        /\ Goes(wrong \cup Wrong("read", unread # Absent(ids)) \cup Wrong("build", unbuilt # {}))
        /\ held' = (h \ ids) \cup {r \in ids \ unread : OwnLanes(r) # {}}
        /\ \E bits \in {SearchBits(held')} :
           \E planned \in {{r \in ids \ unread : Claimable(r, bits) # {}}} :
           \E order \in InOrder(q, planned \ unbuilt) :
           \E claims \in {Claims(order, bits)} :
              /\ unbuilt \subseteq planned
              /\ Build(q, ids, claims, unread \cup unbuilt, bits)

(* The exception path of claim_storage *)
PutBack(q, ids) == Pushed(Without(q, ids), [r \in ids |-> Retry])

(* The claims of records that were not given up. *)
Remaining(claims, gone) ==
    LET at == Sorted({i \in DOMAIN claims : claims[i].id \notin gone})
    IN  [i \in DOMAIN at |-> claims[at[i]]]

(* A pass with nothing in flight: lanes the node cannot serve are given up *)
(* and the next batch is built, of the claims that wait or of the records  *)
(* that are due.                                                           *)
Plan ==
    /\ tx = NoTx /\ batch = << >>
    /\ UNCHANGED <<chain, case, tx, stray, tuning, capacity, rivalry>>
    /\ \E found \in Found, R \in ToRelease :
       \E q \in {[Drained(found) EXCEPT !.released = @ \cup R]} :
       \E ids \in {Popped(q)} :
        LET left  == Remaining(pending, q.released)
            wrong == Wrong("scan", scan /\ found # stored)
        IN  /\ Drains(found)
            /\ \/ /\ left # << >>
                  /\ queue' = q /\ held' = held \ R
                  /\ Split(left)
                  /\ Goes(wrong)
               \/ left = << >> /\ Step(q, ids, held \ R, wrong)
               \/ /\ left = << >>
                  /\ Goes(wrong \cup {"raise"})
                  /\ queue' = PutBack(q, ids) /\ held' = held \ R
                  /\ pending' = << >> /\ UNCHANGED batch
    /\ lag' = 0

-----------------------------------------------------------------------------
(* Sending.                                                                *)

Sum(claims) == FoldLeft(LAMBDA n, c : n + c.payout, 0, claims)

Pays(claims) == Sum(claims) - (Overhead + PerClaim * Len(claims)) >= MinProfit

(* Faulty: what a failed send held is not queued again. *)
RequeuedNever(q, claims, blocks) == q

(* The claims of a batch that was not sent. *)
Requeued(q, claims, blocks) ==
    Pushed(q, [r \in Ids(claims) |-> Retry - blocks])

Sent(claims, live, mined) == [claims |-> claims, ago |-> 0, live |-> live, mined |-> mined]

(* _send_batch: a batch that does not pay is dropped.  A transaction may   *)
(* get lost on its way; a send may raise before or after the transaction   *)
(* got out; `mined' says that its counter is an old one.                   *)
SendBatch(q, claims, blocks, mined, wrong) ==
    \/ /\ Pays(claims)
       /\ \E live \in BOOLEAN :
            /\ mined => ~live
            /\ tx' = Sent(claims, live, mined)
            /\ Goes(wrong \cup Wrong("lost", ~live /\ ~mined))
       /\ queue' = q
       /\ UNCHANGED stray
    \/ /\ tx' = NoTx
       /\ queue' = Requeued(q, claims, blocks)
       /\ stray' \in IF tx # NoTx /\ tx.live THEN {claims}
                     ELSE IF mined \/ ~Pays(claims) THEN {stray} ELSE {stray, claims}
       /\ Goes(wrong \cup Wrong("unsent", Pays(claims)))

(* The counter is read when the batch is sent; what cannot be read is 0.   *)
(* A batch that is built says what a claim costs.                          *)
Send ==
    /\ batch # << >>
    /\ UNCHANGED <<chain, case, disk, held, pending, capacity, rivalry>>
    /\ \E old \in BOOLEAN : SendBatch(queue, batch, lag, old, Wrong("counter", old))
    /\ tuning' = [tuning EXCEPT !.measured = TRUE]
    /\ batch' = << >> /\ lag' = 0

(* A pass while the transaction in flight is not in the chain yet.         *)
Await ==
    /\ tx # NoTx /\ tx.ago < 2
    /\ UNCHANGED <<chain, case, held, pending, batch, lag, tx, stray, tuning, capacity, rivalry>>
    /\ \E found \in Found :
        /\ Drains(found)
        /\ queue' = Drained(found)
        /\ Goes(Wrong("scan", scan /\ found # stored) \cup Wrong("counter", tx.mined))

(* in_flight_status: included.  The records are looked at again at once.   *)
Included ==
    /\ tx # NoTx /\ tx.mined
    /\ UNCHANGED <<chain, case, held, pending, batch, lag, stray, rivalry>>
    /\ LET delay == IF tx.ago = 0 THEN 1 ELSE tx.ago IN
       /\ tuning' = [tuning EXCEPT !.delay = delay,
                                   !.band = IF delay = 1 THEN AtMost(@ + 1, MaxBand) ELSE @]
       /\ capacity' = IF fair = 0 THEN {}
                      ELSE capacity \cup {[ago |-> 0, band |-> tuning.band, delay |-> delay]}
    /\ \E found \in Found :
        /\ Drains(found)
        /\ queue' = Pushed(Drained(found), [r \in Ids(tx.claims) |-> 0])
        /\ Goes(Wrong("scan", scan /\ found # stored))
    /\ tx' = NoTx

(* in_flight_status: lost.  The same claims are sent once more with the    *)
(* same counter, which is an old one if the first got there.               *)
Resend ==
    /\ tx # NoTx /\ tx.ago >= 2
    /\ UNCHANGED <<chain, case, held, pending, batch, lag, capacity, rivalry>>
    /\ \E found \in Found :
        /\ Drains(found)
        /\ SendBatch(Drained(found), tx.claims, 0, tx.mined,
                     Wrong("scan", scan /\ found # stored) \cup Wrong("counter", tx.mined))
    /\ tuning' = [tuning EXCEPT !.measured = TRUE, !.band = IF @ = 1 THEN 1 ELSE @ \div 2]

(* The node restarts.  The worker remembers nothing but, after an orderly  *)
(* end, its band and delay; what it sent may still get into the chain.     *)
Restart ==
    /\ Goes({"restart"})
    /\ queue' = NoQueue /\ held' = {} /\ pending' = << >>
    /\ batch' = << >> /\ lag' = 0
    /\ tx' = NoTx
    /\ stray' = IF tx # NoTx /\ tx.live THEN tx.claims ELSE stray
    /\ tuning' \in {[tuning EXCEPT !.measured = FALSE], NoTuning}
    /\ capacity' = {}
    /\ news' = {} /\ scan' = TRUE
    /\ UNCHANGED <<chain, case, stored, rivalry>>

(* The worker has done what it can do before the next block.               *)
AtRest ==
    /\ news = {} /\ ~scan
    /\ IF tx # NoTx THEN ~tx.mined /\ tx.ago < 2
       ELSE batch = << >> /\ pending = << >> /\ DueNow(queue) = {}

(* The next block of the chain.  Two transactions of the worker with one   *)
(* counter cannot both be in the chain: the other one is dropped.  A pass  *)
(* is shorter than a block but for a slow one.                             *)
NextBlock ==
    \E mine \in Mine, new \in SUBSET {r \in Records : lanes[r] = Unlisted} :
        /\ mine = "tx" => tx # NoTx /\ tx.live
        /\ mine = "stray" => stray # << >>
        /\ Goes(Wrong("late", mine = "none" /\ tx # NoTx /\ tx.live) \cup Wrong("slow", ~AtRest))
        /\ LET own == <<Me, CASE mine = "tx" -> tx.claims
                              [] mine = "stray" -> stray
                              [] mine = "none" -> << >> >>
           IN  \/ /\ Block(own, <<NoOne, << >> >>, new)
                  /\ UNCHANGED rivalry
               \/ /\ rivalry > 0
                  /\ rivalry' = rivalry - 1
                  /\ \E sender \in Rivals, claims \in RivalClaims :
                        \/ Block(own, <<sender, claims>>, new)
                        \/ Block(<<sender, claims>>, own, new)
        /\ tx' = Later(tx, mine # "none", lanes')
        /\ stray' = IF mine = "none" THEN Outdated(stray, lanes') ELSE << >>

-----------------------------------------------------------------------------
Init ==
    /\ case \in Cases /\ difficulty = case.difficulty
    /\ lanes = [r \in Records |-> IF r \in case.listed THEN NewLanes ELSE Unlisted]
    /\ stored = case.stored /\ news = {} /\ scan = TRUE
    /\ queue = NoQueue /\ held = {} /\ pending = << >>
    /\ batch = << >> /\ lag = 0
    /\ tx = NoTx /\ stray = << >>
    /\ tuning = NoTuning /\ capacity = {}
    /\ rivalry = case.rivalry /\ troubles = case.troubles

Worker == Plan \/ Send \/ Await \/ Included \/ Resend

Next == NextBlock \/ Worker \/ Restart \/ \E r \in Records : Store(r)

Spec == Init /\ [][Next]_vars

(* Blocks follow one another and the worker makes its passes.              *)
FairSpec == Spec /\ WF_vars(NextBlock) /\ WF_vars(~AtRest /\ Worker)

-----------------------------------------------------------------------------
(* Properties.                                                             *)

(* A record the worker knows is in one place: queued, in a claim that      *)
(* waits, that is built or that is in flight.  It is never in two, and     *)
(* whatever fails in a pass, in none only if its lane was given up         *)
(* (claim.py, claim_storage and its exception path).                       *)
CountOf(claims, r) == Cardinality({i \in DOMAIN claims : claims[i].id = r})

InClaims(r) == CountOf(pending, r) + CountOf(batch, r) + CountOf(tx.claims, r)

InOnePlace ==
    \A r \in Records :
        LET places == Len(queue.heap[r]) + InClaims(r) IN
        /\ places <= 1
        /\ r \in queue.known \ queue.released => places = 1

(* A provider is paid again and again for each record of the chain it      *)
(* keeps, unless it gives the record up because it cannot serve its lanes; *)
(* lost transactions, failures of its storage and a restart only delay it. *)
PaidNow(r) == lanes[r] # Unlisted /\ \E l \in Lane : lanes[r][l] = [age |-> 0, winner |-> Me]

Waits(r) == lanes[r] # Unlisted /\ r \in stored

KeepsClaiming ==
    \A r \in Records : Waits(r) ~> (PaidNow(r) \/ r \in queue.released)

=============================================================================
