---------------------------- MODULE StorageIndex ----------------------------
(***************************************************************************)
(* Who keeps which record.  A node that keeps a record announces it: a     *)
(* STORAGE_PUT that names it goes to the peer nearest to the record, and   *)
(* from there on to ever nearer ones.  The nodes nearest to the record     *)
(* list the nearest of its keepers.  A provider that lists a record        *)
(* fetches it and announces itself.  A node that joins or restarts asks    *)
(* its peers for the entries of its branch, and again after each walk      *)
(* (storage/workers/advertisements.py, storage/providers.py,               *)
(* storage_request/handle.py, consensus/validation/ads.py).                *)
(*                                                                         *)
(* The loop of a node takes one put, request or record at a time: each is  *)
(* a step.  A put of several entries is one put for each.                  *)
(***************************************************************************)
EXTENDS Integers, FiniteSets

CONSTANTS Nodes, RecordIds,
          Distance,    \* node or record -> node -> xor_distance
          Providers,   \* nodes with is_storage_provider
          Makers,      \* record -> the validator that committed it
          Height,      \* record -> the height of the block that commits it
          Top,         \* height of the chain; a node without a head has 0
          Branch,      \* bucket_size: peers asked after a walk
          PerRecord,   \* PROVIDERS_PER_RECORD
          Starts       \* the networks there are at first, see IndexInit

ASSUME IndexAssumption ==
    /\ IsFiniteSet(Nodes) /\ IsFiniteSet(RecordIds)
    /\ \A k \in Nodes \cup RecordIds : \A n, p \in Nodes :
          Distance[k][n] \in Nat /\ (Distance[k][n] = Distance[k][p] => n = p)
    /\ Providers \subseteq Nodes
    /\ \A r \in RecordIds : Makers[r] \in Nodes /\ Height[r] \in 1 .. Top
    /\ {Branch, PerRecord} \subseteq Nat \ {0}
    /\ Top \in Nat
    /\ \A s \in Starts :
          /\ DOMAIN s.chain \subseteq DOMAIN s.kept /\ DOMAIN s.kept \subseteq Nodes
          /\ s.chain \in [DOMAIN s.chain -> 0 .. Top]
          /\ s.kept \in [DOMAIN s.kept -> SUBSET RecordIds]
          /\ s.troubles \in Nat

VARIABLES running,
          knows,     \* node -> the keys in its peer_route
          heads,     \* node -> the height of its latest_block, 0 for None
          kept,      \* node of this network -> the records in its records table
          ads,       \* node -> records in pending_ads
          announce,  \* node -> startup_announce: Waiting, or what is left of it
          asked,     \* node -> index_requested
          index,     \* node -> record -> the providers in its storage_index
          mail,      \* datagrams on their way, and puts and requests queued
          missed,    \* has an announcement been lost, refused or forgotten?
          mishaps    \* bound: datagrams lost, restarts and errors still to come

indexVars == <<running, knows, heads, kept, ads, announce, asked, index, mail, missed, mishaps>>

Waiting == {"wait"}

Trouble == mishaps > 0 /\ mishaps' = mishaps - 1
Smooth  == UNCHANGED <<missed, mishaps>>

(* is_expr_in_latest_block *)
Admits(n, r) == Height[r] <= heads[n]

-----------------------------------------------------------------------------
(* The route and the index.                                                *)

(* Route.count_nearer, of the keys in S *)
CountNearer(S, key, n) == Cardinality({p \in S \ {n} : Distance[key][p] < Distance[key][n]})

(* Route.closest_peers *)
Closest(S, key, count) == {p \in S : CountNearer(S, key, p) < count}

(* Faulty: whoever came first stays. *)
WithProvidersFirst(r, listed, new) ==
    IF Cardinality(listed) >= PerRecord THEN listed ELSE Closest(listed \cup new, r, PerRecord)

(* index_provider of each: the nearest to the record stay. *)
WithProviders(r, listed, new) == Closest(listed \cup new, r, PerRecord)

(* destination_peer: the nearest peer if it is nearer than the node *)
Destination(n, r) == {p \in Closest(knows[n], r, 1) : Distance[r][p] < Distance[r][n]}

(* Is the node one of the nearest it knows of? *)
Takes(n, r) == Destination(n, r) = {} \/ CountNearer(knows[n], r, n) < PerRecord

Put(n, p, r, providers) == [type |-> "put", from |-> n, to |-> p, record |-> r,
                            providers |-> providers]

Ask(n, p) == [type |-> "ask", from |-> n, to |-> p]

(* put_exprs_in_network, of one record *)
Announced(n, r, listed) ==
    [listed |-> IF Takes(n, r) THEN WithProviders(r, listed, {n}) ELSE listed,
     sent   |-> {Put(n, p, r, {n}) : p \in Destination(n, r)}]

Silent(listed) == [listed |-> listed, sent |-> {}]

(* Faulty: the node announces itself before it has the record. *)
AfterFetchEagerly(n, r, listed, succeeds) == Announced(n, r, listed)

(* fetch_and_store_record: the node announces a record it has stored. *)
AfterFetch(n, r, listed, succeeds) ==
    IF succeeds THEN Announced(n, r, listed) ELSE [listed |-> listed, sent |-> {}]

(* What is on its way becomes post, and what the fetch sends. *)
Fetch(n, r, listed, succeeds, post) ==
    LET a == AfterFetch(n, r, listed, succeeds) IN
    /\ kept' = IF succeeds THEN [kept EXCEPT ![n] = @ \cup {r}] ELSE kept
    /\ index' = [index EXCEPT ![n][r] = a.listed]
    /\ mail' = post \cup a.sent

(* The reads of a fetch reach a node that keeps the record. *)
Reachable(n, r) == \E p \in running \ {n} : r \in kept[p]

-----------------------------------------------------------------------------
(* Announcements.                                                          *)

(* put_exprs_in_network, of a record of this node *)
AnnounceRecord(n, r) ==
    LET a == Announced(n, r, index[n][r]) IN
    /\ index' = [index EXCEPT ![n][r] = a.listed]
    /\ mail' = mail \cup a.sent

(* flush_ads: the block that committed the record has been built on, or    *)
(* another took its place. *)
FlushAds(n, r) ==
    /\ n \in running /\ r \in ads[n] /\ Admits(n, r)
    /\ ads' = [ads EXCEPT ![n] = @ \ {r}]
    /\ AnnounceRecord(n, r)
    /\ Smooth
    /\ UNCHANGED <<running, knows, heads, kept, announce, asked>>

(* _startup_announce_step: there is a head, the scan starts. *)
StartAnnounce(n) ==
    /\ n \in running /\ announce[n] = Waiting /\ heads[n] > 0
    /\ announce' = [announce EXCEPT ![n] = kept[n]]
    /\ Smooth
    /\ UNCHANGED <<running, knows, heads, kept, ads, asked, index, mail>>

(* _startup_announce_step: the next record. *)
AnnounceNext(n, r) ==
    /\ n \in running /\ announce[n] # Waiting /\ r \in announce[n]
    /\ announce' = [announce EXCEPT ![n] = @ \ {r}]
    /\ AnnounceRecord(n, r)
    /\ Smooth
    /\ UNCHANGED <<running, knows, heads, kept, ads, asked>>

(* _startup_announce_step: an error ends the job. *)
AnnounceError(n) ==
    /\ n \in running /\ announce[n] # {}
    /\ announce[n] = Waiting => heads[n] > 0
    /\ announce' = [announce EXCEPT ![n] = {}]
    /\ Trouble /\ missed' = TRUE
    /\ UNCHANGED <<running, knows, heads, kept, ads, asked, index, mail>>

(* _long_term_store_one *)
LongTermStore(n, r) ==
    /\ n \in running \cap Providers
    /\ index[n][r] # {} /\ r \notin kept[n] /\ Admits(n, r) /\ Reachable(n, r)
    /\ Fetch(n, r, index[n][r], TRUE, mail)
    /\ Smooth
    /\ UNCHANGED <<running, knows, heads, ads, announce, asked>>

-----------------------------------------------------------------------------
(* Puts and requests.                                                      *)

(* handle_put *)
Refuse(m) ==
    /\ m.type = "put" /\ ~Admits(m.to, m.record)
    /\ mail' = mail \ {m} /\ missed' = TRUE
    /\ UNCHANGED <<kept, index, mishaps>>

(* handle_put, of an entry of the latest block.  A provider that lists the *)
(* record fetches it at once, unless the put has too many entries.         *)
Handle(m) ==
    LET n == m.to
        r == m.record
        listed  == IF Takes(n, r) THEN WithProviders(r, index[n][r], m.providers) ELSE index[n][r]
        post    == (mail \ {m}) \cup {Put(n, p, r, m.providers) : p \in Destination(n, r) \ {m.from}}
        fetches == Takes(n, r) /\ n \in Providers /\ r \notin kept[n] IN
    /\ m.type = "put" /\ Admits(n, r)
    /\ \/ ~fetches /\ Fetch(n, r, listed, FALSE, post) /\ Smooth
       \/ fetches /\ Fetch(n, r, listed, Reachable(n, r), post) /\ Smooth
       \/ fetches /\ Fetch(n, r, listed, FALSE, post) /\ Trouble /\ UNCHANGED missed

(* Faulty: only the nearest node gets the entry. *)
BelongsToNearest(n, p, r) ==
    CountNearer(knows[n] \cup {n} \cup index[n][r], r, p) < PerRecord - 1

(* count_nearer: of the nodes that n knows, is p one of the nearest? *)
Belongs(n, p, r) == CountNearer(knows[n] \cup {n} \cup index[n][r], r, p) < PerRecord

(* _serve_one_index_request: a peer gets what belongs to its branch. *)
ServeIndex(m) ==
    LET n == m.to
        p == m.from IN
    /\ m.type = "ask"
    /\ mail' = (mail \ {m}) \cup
               IF p \notin knows[n] THEN {}
               ELSE {Put(n, p, r, index[n][r]) :
                        r \in {q \in RecordIds : index[n][q] # {} /\ Belongs(n, p, q)}}
    /\ UNCHANGED <<kept, index>> /\ Smooth

(* A node has a queue of puts and one of requests. *)
Receive(type, n, p) ==
    /\ p \in running
    /\ \E m \in mail :
          /\ m.type = type /\ m.from = n /\ m.to = p
          /\ Refuse(m) \/ Handle(m) \/ ServeIndex(m)
    /\ UNCHANGED <<running, knows, heads, ads, announce, asked>>

(* _send_index_requests: the first walk is complete. *)
AskAll(n) ==
    /\ n \in running /\ ~asked[n] /\ heads[n] > 0 /\ knows[n] # {}
    /\ asked' = [asked EXCEPT ![n] = TRUE]
    /\ mail' = mail \cup {Ask(n, p) : p \in knows[n]}
    /\ Smooth
    /\ UNCHANGED <<running, knows, heads, kept, ads, announce, index>>

(* _send_branch_index_requests: a later walk is complete.  The walks of    *)
(* the nodes are far apart: what one of them caused is over.               *)
AskBranch(n) ==
    /\ n \in running /\ asked[n] /\ heads[n] > 0
    /\ mail = {}
    /\ mail' = mail \cup {Ask(n, p) : p \in Closest(knows[n], n, Branch)}
    /\ Smooth
    /\ UNCHANGED <<running, knows, heads, kept, ads, announce, asked, index>>

-----------------------------------------------------------------------------
(* The network, the chain and the machines.                                *)

(* A handshake and its reply. *)
Meet(n, p) ==
    /\ {n, p} \subseteq running /\ n # p /\ p \notin knows[n]
    /\ knows' = [knows EXCEPT ![n] = @ \cup {p}, ![p] = @ \cup {n}]
    /\ Smooth
    /\ UNCHANGED <<running, heads, kept, ads, announce, asked, index, mail>>

(* The node adopts a head. *)
Sync(n) ==
    /\ n \in running
    /\ \E h \in heads[n] + 1 .. Top : heads' = [heads EXCEPT ![n] = h]
    /\ Smooth
    /\ UNCHANGED <<running, knows, kept, ads, announce, asked, index, mail>>

Drop(m) ==
    /\ mail' = mail \ {m} /\ missed' = (missed \/ m.type = "put")
    /\ UNCHANGED <<running, knows, heads, kept, ads, announce, asked, index>>

Lose == Trouble /\ \E m \in mail : m.to \in running /\ Drop(m)

(* The receiver is gone. *)
Gone == UNCHANGED mishaps /\ \E m \in mail : m.to \notin running /\ Drop(m)

(* The records table survives, the rest was in memory. *)
Crash(n) ==
    /\ n \in running
    /\ running' = running \ {n}
    /\ knows' = [knows EXCEPT ![n] = {}]
    /\ heads' = [heads EXCEPT ![n] = 0]
    /\ ads' = [ads EXCEPT ![n] = {}]
    /\ announce' = [announce EXCEPT ![n] = IF n \in Providers THEN Waiting ELSE {}]
    /\ asked' = [asked EXCEPT ![n] = FALSE]
    /\ index' = [index EXCEPT ![n] = [r \in RecordIds |-> {}]]
    /\ Trouble /\ missed' = TRUE
    /\ UNCHANGED <<kept, mail>>

Start(n) ==
    /\ n \in DOMAIN kept \ running
    /\ running' = running \cup {n}
    /\ Smooth
    /\ UNCHANGED <<knows, heads, kept, ads, announce, asked, index, mail>>

(* A network that has been running for a while and has not announced the  *)
(* records, and machines that are off.                                     *)
IndexInit ==
    /\ \E s \in Starts :
          /\ running = DOMAIN s.chain
          /\ knows = [n \in Nodes |-> IF n \in running THEN running \ {n} ELSE {}]
          /\ heads = [n \in Nodes |-> IF n \in running THEN s.chain[n] ELSE 0]
          /\ kept = s.kept
          /\ mishaps = s.troubles
    /\ ads = [n \in Nodes |-> IF n \in running THEN {r \in kept[n] : Makers[r] = n} ELSE {}]
    /\ announce = [n \in Nodes |-> IF n \in Providers THEN Waiting ELSE {}]
    /\ asked = [n \in Nodes |-> knows[n] # {}]
    /\ index = [n \in Nodes |-> [r \in RecordIds |-> {}]]
    /\ mail = {} /\ missed = FALSE

(* What a node does some time and not for ever. *)
Job(n) ==
    \/ StartAnnounce(n) \/ AskAll(n) \/ Sync(n) \/ Start(n)
    \/ \E r \in RecordIds : FlushAds(n, r) \/ AnnounceNext(n, r) \/ LongTermStore(n, r)
    \/ \E p \in Nodes : Meet(n, p)

Delivery ==
    Gone \/ \E n, p \in Nodes, type \in {"put", "ask"} : Receive(type, n, p)

IndexNext ==
    \/ \E n \in Nodes : Job(n) \/ AskBranch(n) \/ AnnounceError(n) \/ Crash(n)
    \/ Delivery \/ Lose

IndexSpec == IndexInit /\ [][IndexNext]_indexVars

(* The loop of a node comes around to each of its jobs and to each entry   *)
(* of its index, handshakes are repeated, blocks come in, machines are     *)
(* started: all of it happens finitely often, so one condition does for    *)
(* it.  The walks of a node go on for ever.                                *)
Fairness ==
    /\ WF_indexVars(\E n \in Nodes : Job(n))
    /\ WF_indexVars(Delivery)
    /\ \A n \in Nodes : SF_indexVars(AskBranch(n))

IndexFairSpec == IndexSpec /\ Fairness

-----------------------------------------------------------------------------
(* What a team wants to rely on.                                           *)

(* Whoever an index or a put names keeps the record: a reply never names   *)
(* a node before it holds the data (records/fetch.py, _announce_record).   *)
OnlyKeepersNamed ==
    /\ \A n \in Nodes, r \in RecordIds : \A p \in index[n][r] : r \in kept[p]
    /\ \A m \in mail : m.type = "put" => \A p \in m.providers : m.record \in kept[p]

Nearest(r) == Closest(DOMAIN kept, r, PerRecord)

(* n lists someone as near to the record as all those in S. *)
ListsAsNear(n, r, S) ==
    S # {} => \E p \in index[n][r] : \A q \in S : Distance[r][p] <= Distance[r][q]

(* Whatever was lost, refused or restarted, the nodes nearest to a record  *)
(* come to list the nearest keeper that any node lists: what a node does   *)
(* not learn from an announcement it learns from its peers after its walks *)
(* (_serve_one_index_request).                                             *)
BranchCatchesUp ==
    <>[](\A r \in RecordIds : \A n \in Nearest(r) :
            ListsAsNear(n, r, UNION {index[p][r] : p \in Nodes}))

(* If no announcement was missed, that is the nearest keeper there is.     *)
KeepersFound ==
    <>[](~missed => \A r \in RecordIds : \A n \in Nearest(r) :
                        ListsAsNear(n, r, {p \in DOMAIN kept : r \in kept[p]}))
=============================================================================
