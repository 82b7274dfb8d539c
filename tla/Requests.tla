------------------------------ MODULE Requests ------------------------------
(***************************************************************************)
(* How a node fetches an expr from other nodes.  Fetching threads put the  *)
(* hash they need into a request buffer and poll their own storage.  One   *)
(* thread takes the buffer, claims each hash in the registry of pending    *)
(* requests and sends the GETs.  Peers answer with the pages of the expr,  *)
(* with providers to ask instead, or with a demand of payment.  The thread *)
(* that receives stages the pages under the claim and stores a reply when  *)
(* all its pages are there; it sends redirected requests through the same  *)
(* buffer, under the claim they have.  A fetch that sees nothing in its    *)
(* window asks a second provider once (storage/requests.py, workers/       *)
(* requests.py, exprs/network.py, communication/storage_request and        *)
(* storage_response).                                                      *)
(*                                                                         *)
(* A step is what one thread does under one hold of a lock.  Time is       *)
(* counted in polls of a fetch.                                            *)
(***************************************************************************)
EXTENDS Integers, FiniteSets, Sequences, SequencesExt

CONSTANTS Fetchers, Peers, Cells,
          Me, NoPeer, NoRequest, NoEntry,
          Inner,       \* cell -> the cells it holds by hash
          Cases,       \* the networks there are and what is fetched, see Init
          Polls,       \* storage_fetch_retries
          Ttl,         \* expr_request_ttl, in polls
          MaxPages     \* storage_found_max_pages

Resolutions == {"single", "full"}

Entry == [to : Peers, res : Resolutions, claimed : BOOLEAN]

(* The pages of a reply that have come. *)
Staging == UNION {[S -> SUBSET Cells] : S \in SUBSET (1 .. MaxPages)}

Request == [res : Resolutions, left : 0 .. Ttl, from : Peers \cup {NoPeer}, total : Nat,
            pages : Staging, next : Peers \cup {NoPeer}]

ASSUME RequestsAssumption ==
    /\ IsFiniteSet(Fetchers) /\ IsFiniteSet(Peers) /\ IsFiniteSet(Cells)
    /\ Me \notin Peers /\ NoPeer \notin Peers
    /\ NoEntry \notin Entry /\ NoRequest \notin Request
    /\ \A c \in Cells : Inner[c] \subseteq Cells \ {c}
    /\ {Polls, Ttl, MaxPages} \subseteq Nat \ {0}
    /\ \A k \in Cases :
          /\ k.index \in [Peers \cup {Me} -> Seq(Peers)]
          /\ k.nearest \in [Peers \cup {Me} -> Peers \cup {NoPeer}]
          /\ k.holds \in [Peers -> SUBSET Cells]
          /\ DOMAIN k.wants \subseteq Fetchers
          /\ \A f \in DOMAIN k.wants : k.wants[f] \in Cells \X Resolutions
          /\ k.mishaps \in Nat

VARIABLES case,      \* fixed in each behavior: [index, nearest, holds, whole,
                     \* broke, keyed, wants, kinds, mishaps]
          hot,       \* the cells in the storage of this node
          buffer,    \* cell -> the GET that waits to be sent, or NoEntry
          taken,     \* cell -> the GET the sender took and has not looked at
          chunk,     \* cell -> the GET that goes into the next datagram
          pending,   \* cell -> its claim in the registry, or NoRequest
          storing,   \* the cells of a complete reply that are still to store
          fetch,     \* fetcher -> [pc, frames, to, claimed, result]
          wire,      \* datagrams on their way
          delayed,   \* datagrams that take longer than a poll
          mishaps    \* datagrams lost, late or repeated, failed sends and
                     \* delayed threads that may still come, of case.kinds

sender == <<taken, chunk>>

requestVars == <<case, hot, buffer, taken, chunk, pending, storing, fetch, wire, delayed, mishaps>>

Mishap(kind) == /\ kind \in case.kinds /\ mishaps > 0
                /\ mishaps' = mishaps - 1

Nothing == [c \in Cells |-> NoEntry]

Queued(queue) == {c \in Cells : queue[c] # NoEntry}

-----------------------------------------------------------------------------
(* The registry of pending requests.                                       *)

NoPages == [n \in {} |-> {}]

(* PendingExprRequest *)
NewClaim(res) == [res |-> res, left |-> Ttl, from |-> NoPeer, total |-> 0,
                  pages |-> NoPages, next |-> NoPeer]

(* has_expr_req, _live_entry *)
Live(c) == pending[c] # NoRequest /\ pending[c].left > 0

(* pop_expr_req: what has expired is removed as well. *)
Popped(reg, S) == [c \in Cells |-> IF c \in S THEN NoRequest ELSE reg[c]]

(* stage_found_page: is the page one of the reply that is being staged? *)
Fits(r, m) ==
    IF r.from = NoPeer THEN m.total <= MaxPages
    ELSE m.from = r.from /\ m.total = r.total /\ m.page \notin DOMAIN r.pages

Staged(r, m) ==
    [r EXCEPT !.from = m.from, !.total = m.total, !.left = Ttl,
              !.pages = [n \in DOMAIN @ \cup {m.page} |-> IF n = m.page THEN m.cells ELSE @[n]]]

IsComplete(r) == Cardinality(DOMAIN r.pages) = r.total

Delivered(r) == UNION {r.pages[n] : n \in DOMAIN r.pages}

(* cull_to_resolution *)
Kept(c, r) == IF r.res = "full" THEN Delivered(r) \cap Inner[c] ELSE {}

(* prune_expired_expr_reqs, of the storage worker *)
Prune ==
    LET expired == {c \in Cells : pending[c] # NoRequest /\ ~Live(c)} IN
    /\ expired # {}
    /\ pending' = Popped(pending, expired)
    /\ UNCHANGED <<case, hot, buffer, sender, storing, fetch, wire, delayed, mishaps>>

-----------------------------------------------------------------------------
(* The request buffer and its sender.                                      *)

(* _resolve_destination: the first provider of the own index, or else the  *)
(* nearest peer.                                                           *)
Destination ==
    IF case.index[Me] # << >> THEN case.index[Me][1] ELSE case.nearest[Me]

(* The second half of queue_storage_get: a hash is buffered once. *)
Buffered(c, to, res, claimed) ==
    IF buffer[c] # NoEntry THEN buffer
    ELSE [buffer EXCEPT ![c] = [to |-> to, res |-> res, claimed |-> claimed]]

(* flush_storage_requests: the whole buffer is taken. *)
Take ==
    /\ Queued(taken) = {} /\ Queued(chunk) = {} /\ Queued(buffer) # {}
    /\ taken' = buffer
    /\ buffer' = Nothing
    /\ UNCHANGED <<case, hot, chunk, pending, storing, fetch, wire, delayed, mishaps>>

(* Faulty: a hash is asked for again while its claim lives. *)
AdmittedAlways(c) == taken[c].claimed => Live(c)

(* A redirected GET needs the claim it had; any other makes its claim now  *)
(* and is dropped when there is one.                                       *)
Admitted(c) == taken[c].claimed <=> Live(c)

(* The GETs of one destination, one after the other. *)
Admit(c) ==
    /\ taken[c] # NoEntry
    /\ \A d \in Queued(chunk) : chunk[d].to = taken[c].to
    /\ taken' = [taken EXCEPT ![c] = NoEntry]
    /\ IF Admitted(c)
       THEN /\ chunk' = [chunk EXCEPT ![c] = taken[c]]
            /\ pending' = IF taken[c].claimed THEN pending
                          ELSE [pending EXCEPT ![c] = NewClaim(taken[c].res)]
       ELSE UNCHANGED <<chunk, pending>>
    /\ UNCHANGED <<case, hot, buffer, storing, fetch, wire, delayed, mishaps>>

(* The GETs of a destination fit one datagram. *)
StorageGet(S) == [code |-> "get", to |-> (chunk[CHOOSE c \in S : TRUE]).to,
                  entries |-> {<<c, chunk[c].res>> : c \in S}]

(* _send_chunk, or its failure, which gives up the claims. *)
Send ==
    LET S == Queued(chunk) IN
    /\ S # {}
    /\ \A c \in S, d \in Queued(taken) : chunk[c].to # taken[d].to
    /\ chunk' = Nothing
    /\ \/ /\ wire' = wire \cup {StorageGet(S)}
          /\ UNCHANGED <<pending, mishaps>>
       \/ /\ Mishap("unsent")
          /\ pending' = Popped(pending, S)
          /\ UNCHANGED wire
    /\ UNCHANGED <<case, hot, buffer, taken, storing, fetch, delayed>>

-----------------------------------------------------------------------------
(* The peers.                                                              *)

(* _collect_for_resolution: a cell that was read from disk or came over    *)
(* the network does not hold its inner cells, whatever else is stored.     *)
Collected(p, c, res) ==
    IF res = "full" /\ p \in case.whole
    THEN <<c>> \o SetToSeq(Inner[c] \cap case.holds[p]) ELSE <<c>>

(* encode_found_pages, with one cell to a page. *)
Pages(p, c, res) ==
    LET cells == Collected(p, c, res) IN
    {[code |-> "found", from |-> p, cell |-> c, page |-> n, total |-> Len(cells),
      cells |-> {cells[n]}] : n \in 1..Len(cells)}

Redirection(p, c, contacts) ==
    {[code |-> "provider", from |-> p, cell |-> c, contacts |-> contacts]}

(* _requires_storage_channel: this node took much from the peer and gave   *)
(* it little.                                                              *)
NeedsPayment(p) == p \in case.broke

PaymentDemand(p, c) == [code |-> "pay", from |-> p, cell |-> c]

(* _serve_get *)
Answer(p, c, res) ==
    IF c \in case.holds[p]
    THEN IF NeedsPayment(p) THEN {PaymentDemand(p, c)}
         ELSE IF Len(Collected(p, c, res)) <= MaxPages THEN Pages(p, c, res) ELSE {}
    ELSE IF case.index[p] # << >> THEN Redirection(p, c, case.index[p])
    ELSE IF case.nearest[p] # NoPeer THEN Redirection(p, c, <<case.nearest[p]>>)
    ELSE {}

(* handle_storage_request *)
Serve(m) ==
    /\ m.code = "get"
    /\ wire' = (wire \ {m}) \cup UNION {Answer(m.to, e[1], e[2]) : e \in m.entries}
    /\ UNCHANGED <<case, hot, buffer, sender, pending, storing, fetch, delayed, mishaps>>

-----------------------------------------------------------------------------
(* The thread that receives: handle_storage_response.                      *)

(* STORAGE_FOUND: the last page takes the claim out of the registry.  The  *)
(* cells that are kept are stored after it, the asked one last.            *)
ReceivePage(m) ==
    LET c == m.cell
        r == Staged(pending[c], m)
    IN  IF ~Fits(pending[c], m) THEN UNCHANGED <<pending, storing>>
        ELSE IF ~IsComplete(r)
        THEN pending' = [pending EXCEPT ![c] = r] /\ UNCHANGED storing
        ELSE /\ pending' = Popped(pending, {c})
             /\ storing' = IF c \in Delivered(r) THEN SetToSeq(Kept(c, r)) \o <<c>>
                           ELSE << >>

(* _retry_pending_storage_get_via_peer_contact *)
Retried(c, contact) == Buffered(c, contact, pending[c].res, TRUE)

(* STORAGE_PROVIDER: the first contact is asked under the claim, the       *)
(* second is kept with it.                                                 *)
ReceiveProviders(m) ==
    LET c == m.cell IN
    /\ buffer' = Retried(c, m.contacts[1])
    /\ pending' = IF Len(m.contacts) > 1 THEN [pending EXCEPT ![c].next = m.contacts[2]]
                  ELSE pending

(* STORAGE_PAYMENT_REQUIRED: a node with a key of its own leaves the       *)
(* request to expire, another gives it up.                                 *)
ReceivePaymentRequired(m) ==
    pending' = IF case.keyed THEN pending ELSE Popped(pending, {m.cell})

ReceiveResponse(m) ==
    /\ m.code # "get" /\ storing = << >>
    /\ wire' = wire \ {m}
    /\ CASE ~Live(m.cell) -> UNCHANGED <<buffer, pending, storing>>
         [] Live(m.cell) /\ m.code = "found" -> ReceivePage(m) /\ UNCHANGED buffer
         [] Live(m.cell) /\ m.code = "provider" -> ReceiveProviders(m) /\ UNCHANGED storing
         [] OTHER -> ReceivePaymentRequired(m) /\ UNCHANGED <<buffer, storing>>
    /\ UNCHANGED <<case, hot, sender, fetch, delayed, mishaps>>

(* put_expr_in_hot_storage *)
Store ==
    /\ storing # << >>
    /\ hot' = hot \cup {Head(storing)}
    /\ storing' = Tail(storing)
    /\ UNCHANGED <<case, buffer, sender, pending, fetch, wire, delayed, mishaps>>

-----------------------------------------------------------------------------
(* The fetching threads: get_exprs_from_network.  A frame is a call; one   *)
(* for a whole expr calls it again for the cells it misses.                *)

Frame(c, res) == [cell |-> c, res |-> res, left |-> Polls, again |-> FALSE]

Top(f) == Head(fetch[f].frames)

(* _collect_missing_hashes *)
Missing(c, res) == IF res = "full" THEN Inner[c] \ hot ELSE {}

(* get_expr_from_local_storage and the reads of lists and whole exprs *)
Arrived(c, res) == c \in hot /\ Missing(c, res) = {}

At(f, pc) == f \in DOMAIN fetch /\ fetch[f].pc = pc

Goto(f, pc) == fetch' = [fetch EXCEPT ![f].pc = pc]

(* _poll_local and _resolve_structured start over. *)
Poll(f, again) ==
    fetch' = [fetch EXCEPT ![f].pc = "poll",
                           ![f].frames = <<[Top(f) EXCEPT !.left = Polls, !.again = again]>>
                                             \o Tail(@)]

OnePollLess(frame) == [frame EXCEPT !.left = @ - 1]

(* A fetch of a missing cell returns into the loop that made it. *)
Return(f) ==
    LET rest == Tail(fetch[f].frames) IN
    fetch' = IF rest = << >>
             THEN [fetch EXCEPT ![f].pc = "done",
                                ![f].result = IF Arrived(Top(f).cell, Top(f).res) THEN "all"
                                              ELSE IF Top(f).cell \in hot THEN "part" ELSE "none"]
             ELSE [fetch EXCEPT ![f].pc = "poll",
                                ![f].frames = <<OnePollLess(Head(rest))>> \o Tail(rest)]

Start(f) ==
    /\ At(f, "idle")
    /\ Goto(f, "begin")
    /\ UNCHANGED <<case, hot, buffer, sender, pending, storing, wire, delayed, mishaps>>

(* queue_storage_get says TRUE for a hash that waits or was asked for. *)
IsUnderWay(c) == buffer[c] # NoEntry \/ Live(c)

Begin(f) ==
    /\ At(f, "begin")
    /\ IF Top(f).res = "single" /\ Top(f).cell \in hot THEN Return(f)
       ELSE IF IsUnderWay(Top(f).cell) THEN Poll(f, FALSE)
       ELSE IF Destination = NoPeer THEN Return(f)
       ELSE fetch' = [fetch EXCEPT ![f].pc = "queue", ![f].to = Destination, ![f].claimed = FALSE]
    /\ UNCHANGED <<case, hot, buffer, sender, pending, storing, wire, delayed, mishaps>>

(* queue_storage_get again has the lock of the buffer. *)
Enqueue(f) ==
    /\ At(f, "queue") \/ At(f, "queue again")
    /\ buffer' = Buffered(Top(f).cell, fetch[f].to, Top(f).res, fetch[f].claimed)
    /\ Poll(f, At(f, "queue again"))
    /\ UNCHANGED <<case, hot, sender, pending, storing, wire, delayed, mishaps>>

(* A poll that finds it all, or the asked cell and some inner one missing. *)
Look(f) ==
    /\ At(f, "poll") /\ Top(f).cell \in hot
    /\ IF Missing(Top(f).cell, Top(f).res) = {} \/ Top(f).left <= 0 THEN Return(f)
       ELSE \E c \in Missing(Top(f).cell, Top(f).res) :
                fetch' = [fetch EXCEPT ![f].pc = "begin",
                                       ![f].frames = <<Frame(c, "single")>> \o @]
    /\ UNCHANGED <<case, hot, buffer, sender, pending, storing, wire, delayed, mishaps>>

(* The second provider of the own index. *)
SecondIndexed == IF Len(case.index[Me]) > 1 THEN case.index[Me][2] ELSE NoPeer

(* Faulty: a redirection leaves no second provider. *)
NextContactIndexed(c) == SecondIndexed

(* take_next_contact, or else the index *)
NextContact(c) == IF Live(c) /\ pending[c].next # NoPeer THEN pending[c].next
                  ELSE SecondIndexed

(* take_next_contact, rearm_expr_req *)
Rearmed(c) == IF Live(c) THEN [pending EXCEPT ![c].next = NoPeer, ![c].left = Ttl]
              ELSE pending

(* Faulty: any fetch without an answer asks again. *)
MayResendAlways(f) == TRUE

MayResend(f) == ~Top(f).again

(* The window is over: _resend_to_next_provider. *)
GiveUp(f) ==
    LET c == Top(f).cell
        contact == NextContact(c)
    IN  /\ At(f, "poll") /\ c \notin hot /\ Top(f).left <= 0
        /\ IF MayResend(f) /\ contact # NoPeer
           THEN /\ pending' = Rearmed(c)
                /\ fetch' = [fetch EXCEPT ![f].pc = "resend", ![f].to = contact,
                                          ![f].claimed = Live(c)]
           ELSE Return(f) /\ UNCHANGED pending
        /\ UNCHANGED <<case, hot, buffer, sender, storing, wire, delayed, mishaps>>

Resend(f) ==
    LET c == Top(f).cell IN
    /\ At(f, "resend")
    /\ IF buffer[c] # NoEntry \/ (~fetch[f].claimed /\ Live(c)) THEN Poll(f, TRUE)
       ELSE Goto(f, "queue again")
    /\ UNCHANGED <<case, hot, buffer, sender, pending, storing, wire, delayed, mishaps>>

Fetch(f) == Begin(f) \/ Enqueue(f) \/ Look(f) \/ GiveUp(f) \/ Resend(f)

-----------------------------------------------------------------------------
(* Time and the network.                                                   *)

IsAtRest(f) == /\ fetch[f].pc \in {"idle", "poll", "done"}
               /\ At(f, "poll") => Top(f).cell \notin hot /\ Top(f).left > 0

(* A poll interval is longer than a round trip and a flush of the buffer:  *)
(* when one is over, every thread has done what it could, or is delayed.   *)
AtRest == /\ wire = {} /\ storing = << >>
          /\ Queued(buffer) \cup Queued(taken) \cup Queued(chunk) = {}
          /\ \A f \in DOMAIN fetch : IsAtRest(f)

IsWaiting(f) == At(f, "poll") /\ Top(f).left > 0

PollPasses ==
    /\ \/ \E f \in DOMAIN fetch : IsWaiting(f)
       \/ \E c \in Cells : Live(c)
    /\ \/ AtRest /\ UNCHANGED mishaps
       \/ ~AtRest /\ Mishap("slow")
    /\ fetch' = [f \in DOMAIN fetch |->
                   IF IsWaiting(f)
                   THEN [fetch[f] EXCEPT !.frames = <<OnePollLess(Head(@))>> \o Tail(@)]
                   ELSE fetch[f]]
    /\ pending' = [c \in Cells |-> IF Live(c) THEN [pending[c] EXCEPT !.left = @ - 1]
                                   ELSE pending[c]]
    /\ UNCHANGED <<case, hot, buffer, sender, storing, wire, delayed>>

Drop(m) ==
    /\ Mishap("lost")
    /\ wire' = wire \ {m}
    /\ UNCHANGED <<case, hot, buffer, sender, pending, storing, fetch, delayed>>

(* A datagram that comes late, or now and once more. *)
Delay(m) ==
    /\ Mishap("late")
    /\ delayed' = delayed \cup {m}
    /\ wire' \in {wire, wire \ {m}}
    /\ UNCHANGED <<case, hot, buffer, sender, pending, storing, fetch>>

Arrive(m) ==
    /\ delayed' = delayed \ {m}
    /\ wire' = wire \cup {m}
    /\ UNCHANGED <<case, hot, buffer, sender, pending, storing, fetch, mishaps>>

-----------------------------------------------------------------------------
RequestsInit ==
    /\ case \in Cases
    /\ hot = {}
    /\ buffer = Nothing /\ taken = Nothing /\ chunk = Nothing
    /\ pending = [c \in Cells |-> NoRequest]
    /\ storing = << >>
    /\ fetch = [f \in DOMAIN case.wants |->
                  [pc |-> "idle", frames |-> <<Frame(case.wants[f][1], case.wants[f][2])>>,
                   to |-> NoPeer, claimed |-> FALSE, result |-> "none"]]
    /\ wire = {} /\ delayed = {}
    /\ mishaps = case.mishaps

Finished == /\ \A f \in DOMAIN fetch : At(f, "done")
            /\ AtRest /\ delayed = {}
            /\ \A c \in Cells : pending[c] = NoRequest
            /\ UNCHANGED requestVars

RequestsNext ==
    \/ \E f \in DOMAIN fetch : Start(f) \/ Fetch(f)
    \/ Take \/ (\E c \in Cells : Admit(c)) \/ Send
    \/ \E m \in wire : Serve(m) \/ ReceiveResponse(m) \/ Drop(m) \/ Delay(m)
    \/ \E m \in delayed : Arrive(m)
    \/ Store \/ Prune \/ PollPasses
    \/ Finished

RequestsSpec == RequestsInit /\ [][RequestsNext]_requestVars

(* Every thread runs, what was not lost arrives, and time goes on.         *)
RequestsFairness ==
    /\ \A f \in Fetchers : WF_requestVars(f \in DOMAIN fetch /\ Fetch(f))
    /\ WF_requestVars(Take) /\ WF_requestVars(\E c \in Cells : Admit(c)) /\ WF_requestVars(Send)
    /\ WF_requestVars(\E m \in wire : Serve(m)) /\ WF_requestVars(\E m \in wire : ReceiveResponse(m))
    /\ WF_requestVars(\E m \in delayed : Arrive(m))
    /\ WF_requestVars(Store) /\ WF_requestVars(Prune) /\ WF_requestVars(PollPasses)

RequestsFairSpec == RequestsSpec /\ RequestsFairness

-----------------------------------------------------------------------------
(* Properties.                                                             *)

Good == {p \in Peers : /\ case.holds[p] = Cells /\ p \notin case.broke
                       /\ \A c \in Cells : Cardinality(Inner[c]) < MaxPages}

Alone == Cardinality(DOMAIN case.wants) = 1

(* The peers that a request comes to in the end, if it is not disturbed.   *)
Providers ==
    IF case.index[Me] # << >> THEN ToSet(case.index[Me])
    ELSE IF case.nearest[Me] = NoPeer THEN {}
    ELSE LET p == case.nearest[Me] IN
         IF case.holds[p] # {} THEN {p}
         ELSE IF case.index[p] # << >> THEN ToSet(case.index[p]) ELSE {case.nearest[p]}

(* Nothing goes wrong, and a redirection meets no other fetch; or one      *)
(* thing goes wrong in the fetch of a cell that has two providers, before  *)
(* the first of them is asked (own index) or after it (redirection).       *)
IsSafe(f) ==
    LET one == Alone /\ case.mishaps = 1 /\ case.wants[f][2] = "single"
        c == case.wants[f][1]
    IN  /\ ~At(f, "idle")
        /\ Providers # {} /\ Providers \subseteq Good
        /\ \/ case.mishaps = 0 /\ (Alone \/ case.index[Me] # << >>)
           \/ one /\ Len(case.index[Me]) > 1
           \/ /\ one /\ case.kinds = {"lost"} /\ At(f, "poll") /\ ~Top(f).again
              /\ Live(c) /\ pending[c].next # NoPeer

(* A fetch ends with all it asked for if that can be had: undisturbed,     *)
(* through a redirection and with cells that come apart, beside another    *)
(* fetch of the same cells; and, when a second provider is known, although *)
(* a datagram is lost, or, with providers of the own index, although one   *)
(* is late or repeated, a send fails or a thread is delayed                *)
(* (get_exprs_from_network and all it waits for).                          *)
Served ==
    \A f \in Fetchers :
        (IF f \in DOMAIN fetch THEN IsSafe(f) ELSE FALSE) ~>
            (IF At(f, "done") THEN fetch[f].result = "all" ELSE FALSE)

(* Nothing goes wrong, those who are asked in the end answer, and a claim  *)
(* outlives the window of a fetch.                                         *)
Calm == case.mishaps = 0 /\ Providers \subseteq Good /\ Polls < Ttl

Gets(c) == {m \in wire : m.code = "get" /\ \E e \in m.entries : e[1] = c}

(* In a calm network no cell is asked for with two GETs at a time, nor is  *)
(* a second one made ready: a second fetch of it waits for the first,      *)
(* whatever the order of the checks of the buffer and the registry, the    *)
(* flush and the claims, and a fetch that asks the second provider under   *)
(* the claim finds that nothing is under way (queue_storage_get,           *)
(* flush_storage_requests, claim_expr_req, _resend_to_next_provider).      *)
SingleFlight ==
    Calm => \A c \in Cells : Cardinality(Gets(c)) <= IF chunk[c] = NoEntry THEN 1 ELSE 0

(* In the end nothing is buffered, asked for or registered: a claim that   *)
(* is renewed by pages and by the second provider still runs out, and what *)
(* ran out is removed (stage_found_page, rearm_expr_req, the worker).      *)
Drained ==
    <>[](/\ wire = {} /\ Queued(buffer) = {}
         /\ \A c \in Cells : pending[c] = NoRequest)

=============================================================================
