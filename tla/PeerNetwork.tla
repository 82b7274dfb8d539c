----------------------------- MODULE PeerNetwork -----------------------------
(***************************************************************************)
(* How nodes find each other over UDP: signed handshakes that carry the    *)
(* relay key of a node, messages sealed with the key that two relay keys   *)
(* give, route requests and replies, the walk to the own branch of the     *)
(* network, keep-alives, eviction, and restarts, after which a node has an *)
(* empty peer table and, unless configured, another relay key              *)
(* (communication/handlers, processors, models and self_lookup.py).        *)
(*                                                                         *)
(* A message handler is one step.  The network may lose, repeat and        *)
(* reorder datagrams.  All nodes read one clock.                           *)
(***************************************************************************)
EXTENDS Integers, FiniteSets, Sequences, SequencesExt

CONSTANTS Nodes,
          NoNode,
          Distance,      \* node -> node -> Nat, xor_distance of the storage keys
          Bucket,        \* node -> node -> Nat, the leading bits they share
          Seeds,         \* node -> set of nodes, node.bootstrap_peers
          FixedKey,      \* nodes with a configured relay_secret_key
          BucketSize,
          WalkRounds,    \* self_lookup_rounds
          Window,        \* message_timestamp_window
          MaxClock,      \* bound: seconds that pass
          MaxTroubles    \* bound: restarts, datagrams lost, late or repeated
                         \* and peers silent for peer_timeout, all together

ASSUME NetworkAssumption ==
    /\ IsFiniteSet(Nodes)
    /\ NoNode \notin Nodes
    /\ \A n, p \in Nodes : /\ Distance[n][p] \in Nat
                           /\ Distance[n][p] = Distance[p][n]
                           /\ Distance[n][p] = 0 <=> n = p
                           /\ Bucket[n][p] \in Nat
    /\ \A n \in Nodes : Seeds[n] \subseteq Nodes \ {n}
    /\ FixedKey \subseteq Nodes
    /\ {BucketSize, WalkRounds} \subseteq Nat \ {0}
    /\ {Window, MaxClock, MaxTroubles} \subseteq Nat

VARIABLES running,   \* the nodes there are, fixed in each behavior
          clock,
          key,       \* node -> its relay key, numbered in the order of its starts
          peers,     \* node -> its peers, each [key, time, seen]
          route,     \* node -> the keys in the buckets of its peer_route
          walk,      \* node -> its SelfLookup: [rounds, asked, done]
          net,       \* from -> to -> datagrams on their way, in order
          late,      \* datagrams that come out of order, or a second time
          troubles   \* those that happened

vars == <<running, clock, key, peers, route, walk, net, late, troubles>>

Trouble == /\ troubles < MaxTroubles
           /\ troubles' = troubles + 1

(* Intervals of the timers are longer than a round trip: when one is over, *)
(* what the node sent and what answers it is there, lost or late.          *)
Rest(n) == \A p \in Nodes : net[n][p] = << >> /\ net[p][n] = << >>

(* What a step sends: to each node some datagrams, in order. *)
Silence == [p \in Nodes |-> << >>]

To(p, sent) == [Silence EXCEPT ![p] = sent]

Posted(mail, n, sent) == [mail EXCEPT ![n] = [p \in Nodes |-> @[p] \o sent[p]]]

(* enqueue_outgoing *)
Post(n, sent) == net' = Posted(net, n, sent)

Known(n) == DOMAIN peers[n]

(* SelfLookup *)
NewWalk == [rounds |-> 0, asked |-> NoNode, done |-> FALSE]

(* build_handshake *)
HandshakeAt(n, p, k, reply) ==
    [type |-> "handshake", from |-> n, to |-> p, key |-> k, time |-> clock, reply |-> reply]

Handshake(n, p, reply) == HandshakeAt(n, p, key[n], reply)

HandshakesAt(n, S, k) ==
    [p \in Nodes |-> IF p \in S THEN <<HandshakeAt(n, p, k, TRUE)>> ELSE << >>]

HandshakesTo(n, S) == HandshakesAt(n, S, key[n])

(* Message.encrypt: whoever has one of the two relay keys and the public   *)
(* half of the other has the shared key of the peer.                       *)
SealedFor(n, p, peerKey, topic, about) ==
    [type |-> "sealed", from |-> n, to |-> p, keys |-> <<key[n], peerKey>>,
     time |-> clock, topic |-> topic, about |-> about]

Sealed(n, p, topic, about) == SealedFor(n, p, peers[n][p].key, topic, about)

(* message_timestamp_window *)
InWindow(m) == Window > 0 => clock - m.time <= Window

(* Message.decrypt with peer.shared_key_bytes. *)
Opens(m) == m.keys = <<peers[m.to][m.from].key, key[m.to]>>

-----------------------------------------------------------------------------
(* The buckets.                                                            *)

InBucket(n, p) == {q \in route[n] : Bucket[n][q] = Bucket[n][p]}

BucketIsFull(n, p) == Cardinality(InBucket(n, p)) >= BucketSize

(* Route.add_peer *)
WithPeer(n, p) == IF BucketIsFull(n, p) THEN route[n] ELSE route[n] \cup {p}

(* Route.remove_peer *)
WithoutPeer(n, p) == route[n] \ {p}

(* xor_distance tells any two keys apart. *)
Closest(S, target) == CHOOSE p \in S : \A q \in S : Distance[target][p] <= Distance[target][q]

(* route_reply_entries: the nearest to the key asked for that fit. *)
Entries(n, asker, target) ==
    {p \in route[n] \ {asker} :
        Cardinality({q \in route[n] \ {asker} :
                        Distance[target][q] < Distance[target][p]}) < BucketSize}

-----------------------------------------------------------------------------
(* Incoming datagrams.  Each handler gives the new peer table, the new     *)
(* route and the datagrams it sends.                                       *)

Outcome(table, buckets, sent) == [peers |-> table, route |-> buckets, sent |-> sent]

Ignored(n) == Outcome(peers[n], route[n], Silence)

(* Faulty: asks for a reply to the reply. *)
GreetingAsking(n, p, peerKey, reply) ==
    To(p, (IF reply THEN <<Handshake(n, p, TRUE)>> ELSE << >>)
              \o <<SealedFor(n, p, peerKey, "ping", {})>>)

(* The reply, and _queue_handshake_ping. *)
Greeting(n, p, peerKey, reply) ==
    To(p, (IF reply THEN <<Handshake(n, p, FALSE)>> ELSE << >>)
              \o <<SealedFor(n, p, peerKey, "ping", {})>>)

(* handle_handshake of a node that is not a peer: it becomes one. *)
MeetNode(n, m) ==
    Outcome([p \in Known(n) \cup {m.from} |->
                IF p = m.from THEN [key |-> m.key, time |-> m.time, seen |-> "fresh"]
                ELSE peers[n][p]],
            WithPeer(n, m.from),
            Greeting(n, m.from, m.key, TRUE))

(* Faulty: takes every relay key that comes. *)
SupersededByNothing(n, m) == FALSE

(* A handshake with another relay key and no newer time. *)
Superseded(n, m) == /\ m.key # peers[n][m.from].key
                    /\ m.time <= peers[n][m.from].time

(* handle_handshake of a peer: set_relay_key, or the newer time. *)
GreetPeer(n, m) ==
    Outcome([peers[n] EXCEPT ![m.from].key  = m.key,
                             ![m.from].time = IF m.time > @ THEN m.time ELSE @],
            route[n],
            Greeting(n, m.from, m.key, m.reply))

(* verify_handshake: handshakes are signed, so all are by their sender. *)
Verified(m) == InWindow(m)

HandleHandshake(n, m) ==
    IF ~Verified(m) THEN Ignored(n)
    ELSE IF m.from \notin Known(n) THEN MeetNode(n, m)
    ELSE IF Superseded(n, m) THEN Ignored(n)
    ELSE GreetPeer(n, m)

(* handle_route_request *)
AnswerAsk(n, m) ==
    LET target == CHOOSE t \in m.about : TRUE
    IN  To(m.from, <<Sealed(n, m.from, "nodes", Entries(n, m.from, target))>>)

(* handle_route_response: a handshake to each node that is new to it and   *)
(* that its bucket has room for.                                           *)
AnswerNodes(n, m) ==
    HandshakesTo(n, {p \in m.about : p \notin Known(n) \cup {n} /\ ~BucketIsFull(n, p)})

Replies(n, m) ==
    CASE m.topic = "ask"   -> AnswerAsk(n, m)
      [] m.topic = "nodes" -> AnswerNodes(n, m)
      [] OTHER -> Silence   \* handle_ping

(* Faulty: only a stranger is asked for a handshake. *)
RekeyNever(n, m) == Ignored(n)

(* A message that cannot be opened: the sender is asked for a handshake. *)
Rekey(n, m) == Outcome(peers[n], route[n], To(m.from, <<Handshake(n, m.from, TRUE)>>))

HandleSealed(n, m) ==
    IF m.from \notin Known(n) \/ ~Opens(m) THEN Rekey(n, m)
    ELSE IF ~InWindow(m) THEN Ignored(n)
    ELSE Outcome([peers[n] EXCEPT ![m.from].seen = "fresh"], route[n], Replies(n, m))

(* process_incoming_messages; mail is what remains on its way. *)
Handle(m, mail) ==
    LET n == m.to
        outcome == IF m.type = "handshake" THEN HandleHandshake(n, m) ELSE HandleSealed(n, m)
    IN  /\ peers' = [peers EXCEPT ![n] = outcome.peers]
        /\ route' = [route EXCEPT ![n] = outcome.route]
        /\ net'   = Posted(mail, n, outcome.sent)
        /\ UNCHANGED <<running, clock, key, walk>>

Taken(n, p) == [net EXCEPT ![p][n] = Tail(@)]

Receive(n, p) ==
    /\ {n, p} \subseteq running
    /\ net[p][n] # << >>
    /\ Handle(Head(net[p][n]), Taken(n, p))
    /\ UNCHANGED <<late, troubles>>

ReceiveLate ==
    /\ \E m \in late : Handle(m, net) /\ late' = late \ {m}
    /\ UNCHANGED troubles

Repeat(n, p) ==
    /\ {n, p} \subseteq running
    /\ Trouble
    /\ net[p][n] # << >>
    /\ Handle(Head(net[p][n]), Taken(n, p))
    /\ late' = late \cup {Head(net[p][n])}

Lose(n, p) ==
    /\ {n, p} \subseteq running
    /\ Trouble
    /\ net[p][n] # << >>
    /\ net' = Taken(n, p)
    /\ late' \in {late, late \cup {Head(net[p][n])}}
    /\ UNCHANGED <<running, clock, key, peers, route, walk>>

-----------------------------------------------------------------------------
(* The walk to the own branch (self_lookup_step, refresh_one_bucket).      *)

Ask(n, p, target) == Sealed(n, p, "ask", {target})

(* closest_peer_for_hash(own), if it is nearer than the peer asked last. *)
Nearer(n) == IF route[n] = {} THEN {}
             ELSE {p \in {Closest(route[n], n)} :
                      walk[n].asked = NoNode \/ Distance[n][p] < Distance[n][walk[n].asked]}

WalkOn(n) ==
    /\ ~walk[n].done
    /\ walk[n].rounds < WalkRounds
    /\ \E p \in Nearer(n) :
           /\ walk' = [walk EXCEPT ![n].rounds = @ + 1, ![n].asked = p]
           /\ Post(n, To(p, <<Ask(n, p, n)>>))
    /\ UNCHANGED <<running, clock, key, peers, route, late, troubles>>

(* refresh_one_bucket: one bucket with room, farther than the nearest      *)
(* peer, that the cursor points at, and a random key in it; the model      *)
(* takes any such bucket and any node's key.                               *)
Refreshes(n) ==
    LET far == {q \in Nodes : /\ Bucket[n][q] < Bucket[n][Closest(route[n], n)]
                              /\ ~BucketIsFull(n, q)}
    IN  IF route[n] = {} THEN {}
        ELSE {To(Closest(route[n], q), <<Ask(n, Closest(route[n], q), q)>>) : q \in far}

(* The walk is complete at the deadline of the last round, or when a       *)
(* nearer peer comes in after the last round allowed.                      *)
WalkDone(n) ==
    /\ ~walk[n].done
    /\ walk[n].asked # NoNode
    /\ IF Nearer(n) = {} THEN Rest(n) ELSE walk[n].rounds = WalkRounds
    /\ walk' = [walk EXCEPT ![n].done = TRUE]
    /\ \/ \E ask \in Refreshes(n) : Post(n, ask)
       \/ Refreshes(n) = {} /\ net' = net
    /\ UNCHANGED <<running, clock, key, peers, route, late, troubles>>

(* self_lookup_interval is over: the first step of a new walk. *)
WalkAgain(n) ==
    /\ walk[n].done
    /\ Rest(n)
    /\ IF route[n] = {}
       THEN walk' = [walk EXCEPT ![n] = NewWalk] /\ net' = net
       ELSE LET p == Closest(route[n], n)
            IN  /\ walk' = [walk EXCEPT ![n] = [rounds |-> 1, asked |-> p, done |-> FALSE]]
                /\ Post(n, To(p, <<Ask(n, p, n)>>))
    /\ UNCHANGED <<running, clock, key, peers, route, late, troubles>>

-----------------------------------------------------------------------------
(* The peer manager, the clock and restarts.                               *)

(* peer_timeout without a message of the peer. *)
Lapse(n, p) ==
    /\ Trouble
    /\ n \in running
    /\ Rest(n)
    /\ p \in Known(n)
    /\ peers[n][p].seen = "fresh"
    /\ peers' = [peers EXCEPT ![n][p].seen = "stale"]
    /\ UNCHANGED <<running, clock, key, route, walk, net, late>>

(* _send_keep_alive *)
KeepAlive(n, p) ==
    /\ p \in Known(n)
    /\ peers[n][p].seen = "stale"
    /\ peers' = [peers EXCEPT ![n][p].seen = "probed"]
    /\ Post(n, To(p, <<Handshake(n, p, FALSE)>>))
    /\ UNCHANGED <<running, clock, key, route, walk, late, troubles>>

(* _remove_stale_peer, two intervals after the keep-alive. *)
Evict(n, p) ==
    /\ p \in Known(n)
    /\ peers[n][p].seen = "probed"
    /\ Rest(n)
    /\ peers' = [peers EXCEPT ![n] = [q \in Known(n) \ {p} |-> @[q]]]
    /\ route' = [route EXCEPT ![n] = WithoutPeer(n, p)]
    /\ UNCHANGED <<running, clock, key, walk, net, late, troubles>>

(* _queue_bootstrap_handshakes, while there is no peer. *)
Bootstrap(n) ==
    /\ Known(n) = {}
    /\ Rest(n)
    /\ Post(n, HandshakesTo(n, Seeds[n] \cap running))
    /\ UNCHANGED <<running, clock, key, peers, route, walk, late, troubles>>

Tick ==
    /\ clock < MaxClock
    /\ clock' = clock + 1
    /\ UNCHANGED <<running, key, peers, route, walk, net, late, troubles>>

(* disconnect_node and communication_setup. *)
Restart(n) ==
    /\ Trouble
    /\ n \in running
    /\ clock < MaxClock
    /\ LET newKey == IF n \in FixedKey THEN key[n] ELSE key[n] + 1
       IN  /\ key' = [key EXCEPT ![n] = newKey]
           /\ Post(n, HandshakesAt(n, Seeds[n] \cap running, newKey))
    /\ peers' = [peers EXCEPT ![n] = << >>]
    /\ route' = [route EXCEPT ![n] = {}]
    /\ walk' = [walk EXCEPT ![n] = NewWalk]
    /\ UNCHANGED <<running, clock, late>>

(* make_routes, node.peers = {}; the handshakes to the bootstrap peers. *)
Init ==
    /\ running \in SUBSET Nodes
    /\ clock \in 0..MaxClock
    /\ key = [n \in Nodes |-> 0]
    /\ peers = [n \in Nodes |-> << >>]
    /\ route = [n \in Nodes |-> {}]
    /\ walk = [n \in Nodes |-> NewWalk]
    /\ net = [n \in Nodes |-> IF n \in running THEN HandshakesTo(n, Seeds[n] \cap running)
                              ELSE Silence]
    /\ late = {}
    /\ troubles \in 0..MaxTroubles

Manage(n) ==
    /\ n \in running
    /\ Bootstrap(n) \/ \E p \in running : KeepAlive(n, p) \/ Evict(n, p)

WalkStep(n) ==
    /\ n \in running
    /\ WalkOn(n) \/ WalkDone(n) \/ WalkAgain(n)

Next ==
    \/ \E n, p \in Nodes : Receive(n, p) \/ Repeat(n, p) \/ Lose(n, p)
    \/ ReceiveLate
    \/ \E n \in Nodes : WalkStep(n) \/ Manage(n) \/ Restart(n)
    \/ \E n, p \in Nodes : Lapse(n, p)
    \/ Tick

Spec == Init /\ [][Next]_vars

(* The queue of a node is taken in order, the threads run, time passes.    *)
(* Nothing is assumed of faults, lapses and restarts.                      *)
Fairness ==
    /\ \A n \in Nodes : \A p \in Nodes \ {n} : WF_vars(Receive(n, p))
    /\ \A n \in Nodes : WF_vars(WalkStep(n)) /\ WF_vars(Manage(n))
    /\ WF_vars(ReceiveLate) /\ WF_vars(Tick)

FairSpec == Spec /\ Fairness

-----------------------------------------------------------------------------
(* Properties.                                                             *)

(* While a peer stays in the table its relay key never goes back to one of *)
(* an earlier start, whatever order, and however often, its handshakes     *)
(* come in (handle_handshake, set_relay_key).                              *)
KeysOnlyNewer ==
    [][\A n \in Nodes : \A p \in Known(n) \cap Known(n)' :
          peers'[n][p].key >= peers[n][p].key]_vars

Paired(n, p) == p \in Known(n) /\ peers[n][p].key = key[p]

(* Once nothing fails any more, every two nodes become peers that can open *)
(* each other's messages, and stay so: restarts with another relay key and *)
(* lost, late or repeated datagrams heal, and a node that is only known to *)
(* the seed is found through it.                                           *)
EventuallyConnected == <>[](\A n \in running : \A p \in running \ {n} : Paired(n, p))

(* Handshakes do not go on for ever: a reply is never answered by another, *)
(* and no peer is greeted again once the keys agree.                       *)
EventuallyQuiet == <>[](\A n, p \in Nodes : \A m \in ToSet(net[n][p]) : m.type # "handshake")
=============================================================================
