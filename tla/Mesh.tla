-------------------------------- MODULE Mesh --------------------------------
(***************************************************************************)
(* The flooding mesh: nodes that hear each other run the router             *)
(* (src/src/meshtastic_router.c), its ROUTING replies and route learning    *)
(* (meshtastic_routing.c, route health in meshtastic_nodedb.c), and one of  *)
(* them, Origin, sends want_ack packets through Reliable.                   *)
(*                                                                          *)
(* A node's egress queue is a bag: the contention windows and the tiers put *)
(* its frames on the air in any order (Outbound has the queue itself), so a *)
(* relay that is kept and one that is deferred look alike here.  A frame is *)
(* heard by some of the neighbours, and each node works through what it     *)
(* heard in order (the receive thread's message queue).                     *)
(*                                                                          *)
(* Named bounds: copies of a packet die out before the duplicate cache      *)
(* forgets it by age (dedup_ttl), routes do not age (route_ttl = 0), and    *)
(* every node has the others' NodeInfo.                                     *)
(***************************************************************************)
EXTENDS Reliable, Sequences, Bags

CONSTANTS
    Node, Origin,
    All,            \* MESHTASTIC_NODE_BROADCAST
    Dest,           \* where each of the Sends goes: a node or All
    NoReq,          \* request_id 0
    Nets,           \* the networks to start in
    HOP_LIMIT,      \* mt.hop_limit
    DUP_CACHE_SIZE, RX_DEPTH,
    ROUTE_HEALTH_MAX_FAIL

ASSUME MeshAssumption ==
    /\ Origin \in Node /\ All \notin Node
    /\ Dest \in [Sends -> (Node \ {Origin}) \cup {All}]
    /\ Broadcasts = {s \in Sends : Dest[s] = All}
    /\ HOP_LIMIT \in 1..7 /\ DUP_CACHE_SIZE \in Nat \ {0} /\ RX_DEPTH \in Nat \ {0}

VARIABLES
    net,            \* the links and each node's settings: fixed
    wire,           \* pend[].wire: the frame of each send as built
    queue,          \* frames waiting to be transmitted
    rx,             \* frames heard and not yet processed
    cache, head,    \* mt.dup_cache, mt.dup_head
    next, strikes,  \* next_hop of each node's NodeDB, fail_count of its route_health
    echoes,         \* relayer_log
    replies,        \* ROUTING packets originated by each node, which numbers them
    delivered,      \* history: how often each node delivered each packet
    acked,          \* history: sends resolved by an explicit ACK
    relayed,        \* history: relays each node queued of each packet
    losses          \* history: receptions lost

routes == <<next, strikes>>
dedup == <<cache, head>>
meshHistory == <<delivered, acked, relayed, losses>>
vars == <<net, wire, queue, rx, dedup, routes, echoes, replies, meshHistory, relVars>>

Neighbours(n) == {m \in Node : <<n, m>> \in net.links}
Low(n) == net.low[n]
Packet(f) == <<f.src, f.id>>
Blank == [src |-> NoReq, id |-> NoReq, hop |-> 0, relayed |-> FALSE]
Count(h, k) == IF k \in DOMAIN h THEN h[k] ELSE 0
Bump(h, k) == [x \in DOMAIN h \cup {k} |-> Count(h, x) + Holds(x, {k})]

Init ==
    /\ net \in Nets
    /\ wire = [s \in Sends |-> NoReq]
    /\ queue = [n \in Node |-> EmptyBag]
    /\ rx = [n \in Node |-> <<>>]
    /\ cache = [n \in Node |-> [i \in 0..DUP_CACHE_SIZE - 1 |-> Blank]]
    /\ head = [n \in Node |-> 0]
    /\ next = net.routes
    /\ strikes = [n \in Node |-> [m \in Node |-> 0]]
    /\ echoes = [n \in Node |-> {}]
    /\ replies = [n \in Node |-> 0]
    /\ delivered = [n \in Node |-> <<>>] /\ relayed = [n \in Node |-> <<>>]
    /\ acked = {} /\ losses = 0
    /\ RelInit

-----------------------------------------------------------------------------
(* Frames.                                                                  *)

\* get_next_hop; 0 floods.  A broadcast has none.
NextHop(n, d) == IF d = All THEN 0 ELSE next[n][d]

\* mt_ws_build_wire_locked: hop_limit 0 asks for the default, and only a unicast is
\* stamped with our byte (meshtastic_router_stamp_originated).
Originate(n, id, kind, req, dest, want, hops) ==
    LET h == IF hops = 0 THEN HOP_LIMIT ELSE hops
    IN [src |-> n, id |-> id, kind |-> kind, req |-> req, dest |-> dest, want |-> want,
        hop |-> h, start |-> h,
        relay |-> IF dest = All THEN 0 ELSE Low(n), next |-> NextHop(n, dest)]

\* routing_hop_limit_for_reply: the hops the request used, and a margin of two.
ReplyHops(f) ==
    LET used == f.start - f.hop
    IN CASE f.start = 0 -> 0
         [] f.start # 0 /\ f.start < f.hop -> HOP_LIMIT
         [] f.start # 0 /\ f.start >= f.hop ->
                IF used > HOP_LIMIT THEN used
                ELSE IF used + 2 < HOP_LIMIT THEN used + 2 ELSE HOP_LIMIT

\* routing_send_reply.
Reply(n, f, kind, want) ==
    Originate(n, <<n, replies[n]>>, kind, f.id, f.src, want, ReplyHops(f))

RouterLike(n) == net.role[n] \in {"ROUTER", "ROUTER_LATE", "CLIENT_BASE"}
Favourite(n, m) == <<n, m>> \in net.favourites

\* resolve_unique_last_byte: the nodes n knows with this byte, if there is just one.
Resolved(n, byte) ==
    LET known == {m \in Node \ {n} : Low(m) = byte}
    IN IF Cardinality(known) = 1 THEN known ELSE {}

\* relay_should_decrement_hop_limit: kept between trusted routers, past the first hop.
KeepsHop(n, f) ==
    /\ f.start > f.hop
    /\ RouterLike(n)
    /\ \E m \in Resolved(n, f.relay) : Favourite(n, m) /\ RouterLike(m)

\* relay_packet.
Relay(n, f) ==
    [f EXCEPT !.hop = IF KeepsHop(n, f) THEN @ ELSE @ - 1,
              !.relay = Low(n), !.next = NextHop(n, f.dest)]

\* Mutant of Relays: whoever hears a frame relays it, the last hop too.
RelaysLast(n, f) ==
    /\ net.role[n] # "CLIENT_MUTE" /\ net.mode[n] \notin {"NONE", "LOCAL_ONLY"}
    /\ f.src # n /\ f.dest # n
    /\ f.next \in {0, Low(n)}

\* The early returns of meshtastic_routing_sniff_rebroadcast.
Relays(n, f) ==
    /\ net.role[n] # "CLIENT_MUTE" /\ net.mode[n] \notin {"NONE", "LOCAL_ONLY"}
    /\ f.src # n /\ f.dest # n
    /\ f.hop > 0
    /\ f.next \in {0, Low(n)}

-----------------------------------------------------------------------------
(* The duplicate cache and what an overheard copy does to our relay.        *)

Slots(n, f) == {i \in DOMAIN cache[n] : <<cache[n][i].src, cache[n][i].id>> = Packet(f)}

\* dup_check_hops.
Verdict(n, f) ==
    IF Slots(n, f) = {} THEN "NEW"
    ELSE IF \E i \in Slots(n, f) : f.hop > cache[n][i].hop THEN "UPGRADE" ELSE "SEEN"

\* dup_add, with the mark dup_mark_relayed leaves when the relay has been queued.
DupAdd(n, f, r) ==
    /\ cache' = [cache EXCEPT ![n][head[n]] =
                    [src |-> f.src, id |-> f.id, hop |-> f.hop, relayed |-> r]]
    /\ head' = [head EXCEPT ![n] = (@ + 1) % DUP_CACHE_SIZE]

\* Mutant of DupUpgrade: the higher hop count is not remembered.
DupUpgradeForgets(n, f, r) ==
    /\ cache' = [cache EXCEPT ![n] = [i \in DOMAIN @ |->
                    IF i \in Slots(n, f) THEN [@[i] EXCEPT !.relayed = @ \/ r] ELSE @[i]]]
    /\ UNCHANGED head

\* The upgrade of an entry: the higher hop count is remembered.
DupUpgrade(n, f, r) ==
    /\ cache' = [cache EXCEPT ![n] = [i \in DOMAIN @ |->
                    IF i \in Slots(n, f) THEN [@[i] EXCEPT !.hop = f.hop, !.relayed = @ \/ r]
                                         ELSE @[i]]]
    /\ UNCHANGED head

\* note_possible_redundant_relay: a peer relayed what we have relayed or queued.
Redundant(n, f) ==
    /\ \E i \in Slots(n, f) : cache[n][i].relayed
    /\ f.relay \notin {0, Low(n)}
    /\ f.start = 0 \/ f.start # f.hop

\* Mutant of Cancels: routers save the air time too.
CancelsAlways(n, f) == Redundant(n, f)

\* relay_dupe_action = RELAY_DUPE_CANCEL.
Cancels(n, f) ==
    /\ Redundant(n, f)
    /\ \/ net.role[n] \in {"CLIENT", "CLIENT_MUTE"}
       \/ net.role[n] = "CLIENT_BASE" /\ ~Favourite(n, f.src) /\ ~Favourite(n, f.dest)

\* meshtastic_outbound_cancel(src, id) on queue q.
Without(q, f) == [g \in {h \in DOMAIN q : Packet(h) # Packet(f)} |-> q[g]]

\* What n's queue is after overhearing f.
Overheard(n, f) == IF Cancels(n, f) THEN Without(queue[n], f) ELSE queue[n]

Only(P, f) == IF P THEN SetToBag({f}) ELSE EmptyBag

-----------------------------------------------------------------------------
(* The sender, at Origin.                                                   *)

\* meshtastic_send_packet of a want_ack packet.
Send(s) ==
    /\ s \in net.sends /\ Submit(s)
    /\ LET f == Originate(Origin, s, "data", NoReq, Dest[s], TRUE, HOP_LIMIT)
       IN /\ wire' = [wire EXCEPT ![s] = f]
          /\ queue' = [queue EXCEPT ![Origin] = @ (+) SetToBag({f})]
    /\ UNCHANGED <<net, rx, dedup, routes, echoes, replies, meshHistory>>

\* retx_work_fn: the due packets that have retries left go out again as they were built.
Retransmit ==
    /\ WorkerScan
    /\ queue' = [queue EXCEPT ![Origin] =
                    @ (+) SetToBag({wire[s] : s \in due \ Exhausted})]
    /\ UNCHANGED <<net, wire, rx, dedup, routes, echoes, replies, meshHistory>>

\* meshtastic_nodedb_note_route_failure: enough strikes, and the route is forgotten.
RouteFailure(d) ==
    IF strikes[Origin][d] + 1 < ROUTE_HEALTH_MAX_FAIL /\ next[Origin][d] # 0
    THEN strikes' = [strikes EXCEPT ![Origin][d] = @ + 1] /\ UNCHANGED next
    ELSE /\ strikes' = [strikes EXCEPT ![Origin][d] = 0]
         /\ next' = [next EXCEPT ![Origin][d] = 0]

\* notify_failure: a strike against the route, unless the packet was a broadcast.
GiveUp(s) ==
    /\ Notify(s)
    /\ IF Dest[s] = All THEN UNCHANGED routes ELSE RouteFailure(Dest[s])
    /\ UNCHANGED <<net, wire, queue, rx, dedup, echoes, replies, meshHistory>>

\* The steps of the table that touch nothing else.
Apart == UNCHANGED <<net, wire, queue, rx, dedup, routes, echoes, replies, meshHistory>>

-----------------------------------------------------------------------------
(* The air, and meshtastic_router_process_rx_meta on each node.             *)

\* n transmits a frame of its queue; the neighbours in H hear it.
Transmit(n) ==
    \E f \in BagToSet(queue[n]), H \in SUBSET Neighbours(n) :
        /\ \A m \in H : Len(rx[m]) < RX_DEPTH
        /\ losses' = losses + Cardinality(Neighbours(n) \ H) /\ losses' <= net.losses
        /\ queue' = [queue EXCEPT ![n] = @ (-) SetToBag({f})]
        /\ rx' = [m \in Node |-> IF m \in H THEN Append(rx[m], f) ELSE rx[m]]
        /\ UNCHANGED <<net, wire, dedup, routes, echoes, replies, delivered, acked, relayed,
                       relVars>>

\* The next frame of n's receive thread.
Pop(n, f) ==
    /\ rx[n] # <<>> /\ f = Head(rx[n])
    /\ rx' = [rx EXCEPT ![n] = Tail(@)]

\* The ingress guard: nothing is kept of a node on the ignore list.
HearIgnored(n, f) ==
    /\ Pop(n, f) /\ <<n, f.src>> \in net.ignored
    /\ UNCHANGED <<net, wire, queue, dedup, routes, echoes, replies, meshHistory, relVars>>

Heeds(n, f) == Pop(n, f) /\ <<n, f.src>> \notin net.ignored

\* Our own frame, relayed: note_own_echo and the implicit ACK.
HearOwn(n, f) ==
    /\ Heeds(n, f) /\ f.src = n
    /\ echoes' = [echoes EXCEPT ![n] =
                    @ \cup (IF f.relay \in {0, Low(n)} THEN {} ELSE {<<f.id, f.relay>>})]
    /\ IF f.id \in Sends THEN Resolve(f.id) ELSE UNCHANGED relVars
    /\ UNCHANGED <<net, wire, queue, dedup, routes, replies, meshHistory>>

\* The copy came straight from its originator, which is repeating itself.
Reacks(n, f) == f.dest = n /\ f.want /\ f.start # 0 /\ f.start = f.hop

\* DUP_SEEN: acknowledge again if need be, and see to our relay.
HearSeen(n, f) ==
    /\ Heeds(n, f) /\ f.src # n /\ Verdict(n, f) = "SEEN"
    /\ queue' = [queue EXCEPT ![n] =
                    Overheard(n, f) (+) Only(Reacks(n, f), Reply(n, f, "ack", FALSE))]
    /\ replies' = [replies EXCEPT ![n] = IF Reacks(n, f) THEN @ + 1 ELSE @]
    /\ UNCHANGED <<net, wire, dedup, routes, echoes, meshHistory, relVars>>

\* The relay of f enters q, n's queue.
Rebroadcast(n, f, q) ==
    /\ queue' = [queue EXCEPT ![n] = q (+) Only(Relays(n, f), Relay(n, f))]
    /\ relayed' = IF Relays(n, f) THEN [relayed EXCEPT ![n] = Bump(@, Packet(f))] ELSE relayed

\* Mutant of HearUpgrade: the better copy is delivered like a new one.
HearUpgradeDelivers(n, f) ==
    /\ Heeds(n, f) /\ f.src # n /\ Verdict(n, f) = "UPGRADE"
    /\ DupUpgrade(n, f, Relays(n, f))
    /\ Rebroadcast(n, f, Overheard(n, f))
    /\ delivered' = [delivered EXCEPT ![n] = Bump(@, Packet(f))]
    /\ UNCHANGED <<net, wire, routes, echoes, replies, acked, losses, relVars>>

\* DUP_UPGRADE: relayed again if policy allows, never delivered again.
HearUpgrade(n, f) ==
    /\ Heeds(n, f) /\ f.src # n /\ Verdict(n, f) = "UPGRADE"
    /\ DupUpgrade(n, f, Relays(n, f))
    /\ Rebroadcast(n, f, Overheard(n, f))
    /\ UNCHANGED <<net, wire, routes, echoes, replies, delivered, acked, losses, relVars>>

\* The node has the key: meshtastic_try_decode_wire_packet_on succeeds.
Reads(n) == n \in net.keys

\* Mutant of Answers: whoever hears the packet acknowledges it.
AnswersAll(n, f) == f.want

\* Who is owed a ROUTING reply: an ACK, or a NAK for what cannot be decoded.
Answers(n, f) == f.want /\ f.dest = n

\* routing_send_ack asks for an ACK itself when it answers a text message.
Answer(n, f) ==
    IF Reads(n) THEN Reply(n, f, "ack", f.kind = "data") ELSE Reply(n, f, "nak", FALSE)

\* The frame is handed to the phone and the modules.
Delivers(n, f) == Reads(n) /\ f.dest \in {n, All}

\* meshtastic_reliable_on_routing: f answers one of Origin's sends.
OnRouting(n, f) == Reads(n) /\ f.dest = n /\ f.kind \in {"ack", "nak"} /\ f.req \in Sends

\* Mutant of Learns: any answer teaches a route.
LearnsAny(n, f) == Reads(n) /\ f.dest = n /\ f.relay \notin {0, Low(n)} /\ f.req # NoReq

\* meshtastic_routing_learn_next_hop: the relayer of an answer also carried the request.
Learns(n, f) ==
    /\ Reads(n) /\ f.dest = n /\ f.relay \notin {0, Low(n)} /\ f.req # NoReq
    /\ <<f.req, f.relay>> \in echoes[n]
    /\ Resolved(n, f.relay) # {}

\* DUP_NEW: remember it, then handle_inbound_impl: deliver, answer, learn, relay.
HearNew(n, f) ==
    /\ Heeds(n, f) /\ f.src # n /\ Verdict(n, f) = "NEW"
    /\ DupAdd(n, f, Relays(n, f))
    /\ replies' = [replies EXCEPT ![n] = IF Answers(n, f) THEN @ + 1 ELSE @]
    /\ delivered' = IF Delivers(n, f) THEN [delivered EXCEPT ![n] = Bump(@, Packet(f))]
                                      ELSE delivered
    /\ IF OnRouting(n, f) THEN Resolve(f.req) ELSE UNCHANGED relVars
    /\ LET resolves == OnRouting(n, f) /\ f.req \in tracked
       IN /\ acked' = acked \cup (IF resolves /\ f.kind = "ack" THEN {f.req} ELSE {})
          /\ strikes' = IF resolves \/ Learns(n, f) THEN [strikes EXCEPT ![n][f.src] = 0]
                                                    ELSE strikes
          /\ next' = IF Learns(n, f) THEN [next EXCEPT ![n][f.src] = f.relay] ELSE next
    /\ Rebroadcast(n, f, queue[n] (+) Only(Answers(n, f), Answer(n, f)))
    /\ UNCHANGED <<net, wire, echoes, losses>>

Hear(n, f) ==
    HearIgnored(n, f) \/ HearOwn(n, f) \/ HearSeen(n, f) \/ HearUpgrade(n, f) \/ HearNew(n, f)

\* Every frame has been transmitted and processed, and every send has had its verdict.
Quiet ==
    /\ \A n \in Node : queue[n] = EmptyBag /\ rx[n] = <<>>
    /\ accepted = {} /\ tracked = {} /\ failed = {}

Next ==
    \/ \E s \in Sends : Send(s) \/ GiveUp(s) \/ (Track(s) /\ Apart) \/ (Elapse(s) /\ Apart)
    \/ (WorkerEnter /\ Apart) \/ Retransmit
    \/ \E n \in Node : Transmit(n) \/ (rx[n] # <<>> /\ Hear(n, Head(rx[n])))

Spec == Init /\ [][Next]_vars

\* Frames are transmitted and processed, time passes, the work queue runs.
FairSpec ==
    /\ Spec
    /\ WF_vars(WorkerEnter /\ Apart) /\ WF_vars(Retransmit)
    /\ \A s \in Sends : /\ WF_vars(GiveUp(s))
                        /\ WF_vars(Track(s) /\ Apart) /\ WF_vars(Elapse(s) /\ Apart)
    /\ \A n \in Node : WF_vars(Transmit(n)) /\ WF_vars(rx[n] # <<>> /\ Hear(n, Head(rx[n])))

-----------------------------------------------------------------------------
Frames(n) == BagToSet(queue[n]) \cup {rx[n][i] : i \in DOMAIN rx[n]}

\* Types, with the hop budget: no frame has more hops left than it started with.
TypeOK ==
    /\ RelTypeOK
    /\ net \in Nets
    /\ \A n \in Node :
          /\ head[n] \in 0..DUP_CACHE_SIZE - 1 /\ Len(rx[n]) <= RX_DEPTH
          /\ \A f \in Frames(n) : f.hop \in 0..f.start /\ f.start \in 1..HOP_LIMIT
          /\ replies[n] \in Nat /\ delivered[n] \in [DOMAIN delivered[n] -> Nat]

\* A packet is handed to a node's phone and modules once, however many copies, relays
\* and retransmissions it hears (dup_check_hops before deliver_packet).
DeliveredOnce == \A n \in Node : \A p \in DOMAIN delivered[n] : delivered[n][p] <= 1

\* The flood dies out: a node relays a packet once, and again only for a copy with more
\* hops left than any before (DUP_UPGRADE, "so this fires once").
RelaysBounded ==
    \A n \in Node : \A i \in DOMAIN cache[n] :
        Count(relayed[n], <<cache[n][i].src, cache[n][i].id>>) <= cache[n][i].hop

\* An explicit ACK is the destination's word: the packet was delivered there.
AckMeansDelivered ==
    \A s \in acked : Dest[s] = All \/ Count(delivered[Dest[s]], <<Origin, s>>) > 0

\* "its relayer must provably have carried our original outbound too"
\* (meshtastic_routing_learn_next_hop): a learned next hop can hear us.
RouteIsTwoWay ==
    \A n, d \in Node : next[n][d] \notin {0, net.routes[n][d]} =>
        \E m \in Neighbours(n) : n \in Neighbours(m) /\ Low(m) = next[n][d]

\* Nodes that can be reached from Origin in k transmissions.
Within[k \in 0..HOP_LIMIT + 1] ==
    IF k = 0 THEN {Origin}
    ELSE Within[k - 1] \cup UNION {Neighbours(n) : n \in Within[k - 1]}

\* Every node relays, and keeps its relay when it overhears another's; links are two-way
\* and a route learned earlier still leads somewhere.
Steadfast ==
    /\ net.ignored = {}
    /\ \A n, d \in Node : net.routes[n][d] \in {0} \cup {Low(m) : m \in Neighbours(n)}
    /\ \A n \in Node : net.role[n] \in {"ROUTER", "ROUTER_LATE"} /\ net.mode[n] = "ALL"
    /\ \A n, m \in Node : m \in Neighbours(n) => n \in Neighbours(m)

\* The reach of a flood and of a learned route: when nothing is lost, a packet reaches
\* every node it is for within HOP_LIMIT relays, in whatever order the copies arrive.
LosslessReach ==
    Quiet /\ losses = 0 /\ Steadfast =>
        \A s \in Sends, n \in Within[HOP_LIMIT + 1] \ {Origin} :
            submits[s] > 0 /\ Dest[s] \in {n, All} /\ Reads(n)
                => Count(delivered[n], <<Origin, s>>) > 0

\* Whatever is sent, the mesh comes to rest: the floods and their answers end, and every
\* packet leaves the sender's table by an answer, an echo or exhaustion.
Settles == []<>Quiet
=============================================================================
