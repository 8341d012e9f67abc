------------------------------ MODULE PhoneApi ------------------------------
(***************************************************************************)
(* The phone's side of the node: the FromRadio queue and the configuration  *)
(* stream of one PhoneAPI instance (src/src/meshtastic_phoneapi.c and       *)
(* meshtastic_phoneapi_config.c), with the transport that serves it.        *)
(*                                                                          *)
(*   ble     the phone reads frames out of a slot in flight, on the         *)
(*           Bluetooth thread, while the work queue stages and handles its  *)
(*           writes (meshtastic_ble.c);                                     *)
(*   tcp     one thread pops frames and sends them, and puts a frame back   *)
(*           when the peer has gone (meshtastic_tcp.c);                     *)
(*   serial  one work queue pops frames into a ring, and puts a frame back  *)
(*           when the ring is full (meshtastic_serial.c).                   *)
(*                                                                          *)
(* A step is what happens under one lock.  The build has no lockdown        *)
(* (meshtastic_phoneapi_authorized is TRUE); the saturation latch only      *)
(* gates a log line and is left out, as is current_valid: it is set with    *)
(* fromradio_ready, which stage_fromradio looks at first.                   *)
(***************************************************************************)
EXTENDS Naturals, Sequences, FiniteSets, SequencesExt

CONSTANTS
    Setups,           \* to start with: records of a transport (kind), a phone.evict policy, and
                      \* the want_config_ids (requests) and the bounds on connections, on
                      \* writes and log lines, and on changes of the NodeDB
    Packets,          \* mesh packets for the phone, numbered as they come
    Rank,             \* fromradio_evict_rank of each
    QUEUE_SIZE,
    Tables,           \* for CHANNELS, CONFIGS and MODULES: the indices that have a frame
    TableSize,        \* and the size of the table
    Self, Nodes,      \* node numbers
    ONLY_CONFIG, ONLY_NODES

STATUS == 0
LOG == 1
KEEP == 4

ASSUME PhoneAssumption ==
    /\ Setups \subseteq [kind : {"ble", "tcp", "serial"}, policy : {"protect", "oldest"},
                        requests : SUBSET (Nat \ {0}),
                        connects : Nat, writes : Nat, changes : Nat]
    /\ Packets \subseteq Nat /\ Rank \in [Packets -> STATUS..KEEP]
    /\ QUEUE_SIZE \in Nat \ {0}
    /\ Nodes \subseteq Nat \ {0} /\ Self \in Nodes

VARIABLES
    setup,            \* fixed
    queue,            \* api->queue, oldest first
    slot, ready, buf, \* ble: api->current (fromradio_staged), fromradio_ready, and fromradio_buf
                      \* or None when its length is 0
    pos, index, cursor, request,   \* config_state, as a place in Path(request); 0 is IDLE
    scratch, building,\* api->from_scratch; between filling and encoding a QueueStatus
    toradio,          \* a ToRadio message not yet handled (ble: to_radio_buf), or NoWrite
    asking,           \* ble: the stream is set up, invalidate_delivery still to run
    work,             \* fromradio_work, tx_work or the wake-up eventfd is pending
    draining, held,   \* tcp, serial: in the sending loop; the frame popped and not yet sent
    ring,             \* serial: the transmit ring is not empty
    conn,             \* "down", "up", or "closing"
    reading,          \* ble: where a read of the phone is: "no", "copy" or "part"
    notified,         \* the phone knows of something to read
    db,               \* numbers in the NodeDB
    mine, shake,      \* history: the phone asked on this connection; how far its handshake is
    seen,             \* history: packets the phone received, in order
    arrived, evicted, \* history: packets that came, that an enqueue or push_front dropped
    resets,           \* history: want_configs and disconnects that may have dropped a frame
    emitted, steady,  \* history: nodes streamed, nodes in the NodeDB all the while
    connects, writes, changes

store == <<queue, scratch, building>>
stream == <<pos, index, cursor, request>>
flight == <<slot, ready, buf>>
link == <<conn, reading, notified, toradio, asking>>
sender == <<draining, held, ring>>
received == <<mine, shake, seen>>
losses == <<evicted, resets>>
nodes == <<db, emitted, steady>>
bounds == <<arrived, connects, writes, changes>>
vars == <<setup, store, stream, flight, link, work, sender, received, losses, nodes, bounds>>

kind == setup.kind
policy == setup.policy

None == [tag |-> "none", id |-> 0, rank |-> 0]
Frame(tag, id, rank) == [tag |-> tag, id |-> id, rank |-> rank]
NoWrite == [tag |-> "none", id |-> 0, conn |-> 0]
Start == [state |-> "whole", at |-> <<0, 0>>]
Pkt(p) == Frame("packet", p, Rank[p])
QueueStatus == Frame("status", 0, STATUS)
Rebooted == Frame("rebooted", 0, KEEP)
Ids(S) == {f.id : f \in {g \in S : g.tag = "packet"}}
Queued == Ids(Range(queue))

\* The states of the configuration stream for a request, in order.
Path(req) ==
    IF req = ONLY_NODES THEN <<"NODE_INFO", "OTHER_NODEINFOS", "COMPLETE">>
    ELSE <<"MY_INFO", "DEVICE_UI", "NODE_INFO", "METADATA", "REGION_PRESETS", "CHANNELS",
           "CONFIGS", "MODULES">>
         \o (IF req = ONLY_CONFIG THEN <<>> ELSE <<"OTHER_NODEINFOS">>)
         \o <<"QUEUE_STATUS", "COMPLETE">>

Init ==
    /\ setup \in Setups
    /\ conn = IF kind = "serial" THEN "up" ELSE "down"
    /\ queue = IF kind = "serial" THEN <<Rebooted>> ELSE <<>>
    /\ work = (kind = "serial")
    /\ slot = None /\ ready = FALSE /\ buf = None
    /\ pos = 0 /\ index = 0 /\ cursor = 0 /\ request = 0
    /\ scratch = None /\ building = FALSE
    /\ toradio = NoWrite /\ asking = FALSE
    /\ draining = FALSE /\ held = None /\ ring = FALSE
    /\ reading = "no" /\ notified = FALSE
    /\ db = Nodes \ {Max(Nodes)}
    /\ mine = FALSE /\ shake = Start /\ seen = <<>>
    /\ arrived = {} /\ evicted = {} /\ resets = 0
    /\ emitted = <<>> /\ steady = {}
    /\ connects = 0 /\ writes = 0 /\ changes = 0

-----------------------------------------------------------------------------
(* The queue.                                                               *)

\* The cheapest frame, the oldest among equals.
Victim(q) == Min({i \in DOMAIN q : \A j \in DOMAIN q : q[i].rank <= q[j].rank})

\* Mutant of Enqueued: the first droppable frame goes, not the cheapest.
EnqueuedFirst(q, f) ==
    LET droppable == {i \in DOMAIN q : q[i].rank < KEEP}
    IN IF Len(q) < QUEUE_SIZE THEN Append(q, f)
       ELSE IF droppable # {} THEN Append(RemoveAt(q, Min(droppable)), f)
       ELSE IF f.rank < KEEP THEN q
       ELSE Append(Tail(q), f)

\* meshtastic_phoneapi_enqueue_fromradio: the queue after f was offered.
Enqueued(q, f) ==
    IF Len(q) < QUEUE_SIZE THEN Append(q, f)
    ELSE IF policy = "oldest" THEN Append(Tail(q), f)
    ELSE LET v == Victim(q)
         IN IF q[v].rank < KEEP /\ q[v].rank <= f.rank THEN Append(RemoveAt(q, v), f)
            ELSE IF f.rank < KEEP THEN q
            ELSE Append(Tail(q), f)

\* f is offered, and data_ready called if it was taken.
Offer(f) ==
    /\ queue' = Enqueued(queue, f)
    /\ evicted' = evicted \cup ((Queued \cup Ids({f})) \ Ids(Range(queue')))
    /\ work' = (work \/ queue' # queue)

\* Mutant of PushFront: the frame goes to the back.
PushFrontBack(f) ==
    /\ queue' = Append(IF Len(queue) = QUEUE_SIZE THEN Front(queue) ELSE queue, f)
    /\ evicted' = evicted \cup (Queued \ Ids(Range(queue')))

\* meshtastic_phoneapi_push_frame_front: a full queue loses its newest frame.
PushFront(f) ==
    /\ queue' = <<f>> \o (IF Len(queue) = QUEUE_SIZE THEN Front(queue) ELSE queue)
    /\ evicted' = evicted \cup (Queued \ Ids(Range(queue')))

\* meshtastic_phoneapi_on_packet, from the router's thread.
OnPacket(p) ==
    /\ p \in Packets \ arrived /\ \A q \in Packets : q < p => q \in arrived
    /\ arrived' = arrived \cup {p}
    /\ Offer(Pkt(p))
    /\ UNCHANGED <<setup, scratch, building, stream, flight, link, sender, received,
                   resets, nodes, connects, writes, changes>>

\* meshtastic_phoneapi_enqueue_log_record: dropped when there is no room.
OnLog ==
    /\ writes < setup.writes /\ writes' = writes + 1
    /\ Len(queue) < QUEUE_SIZE
    /\ queue' = Append(queue, Frame("log", 0, LOG)) /\ work' = TRUE
    /\ UNCHANGED <<setup, scratch, building, stream, flight, link, sender, received,
                   losses, nodes, arrived, connects, changes>>

-----------------------------------------------------------------------------
(* The configuration stream.                                                *)

\* Mutant of Items: the NodeDB is walked by index.
ItemsByIndex(st, i, c) ==
    CASE st = "OTHER_NODEINFOS" -> {n \in db \ {Self} : Len(emitted) = Cardinality({m \in db \ {Self} : m < n})}
      [] st \in DOMAIN Tables -> {k \in Tables[st] : k >= i}
      [] OTHER -> {0}

\* What state st of the stream has still to send.
Items(st, i, c) ==
    CASE st = "OTHER_NODEINFOS" -> {n \in db \ {Self} : n > c}
      [] st \in DOMAIN Tables -> {k \in Tables[st] : k >= i}
      [] OTHER -> {0}

Here(k) == Items(Path(request)[k], IF k = pos THEN index ELSE 0, cursor)

\* The state that meshtastic_phoneapi_next_config_frame comes to, and what it sends there.
Place == Min({k \in pos..Len(Path(request)) : Here(k) # {}})
Item == Min(Here(Place))
ConfigFrame ==
    Frame(Path(request)[Place], IF Path(request)[Place] = "COMPLETE" THEN request ELSE Item, STATUS)

\* emit_frame: one frame on.
Advance ==
    LET st == Path(request)[Place]
        stays == \/ st = "OTHER_NODEINFOS"
                 \/ st \in DOMAIN Tables /\ Item + 1 < TableSize[st]
    IN /\ pos' = IF stays THEN Place ELSE IF st = "COMPLETE" THEN 0 ELSE Place + 1
       /\ index' = IF stays /\ st \in DOMAIN Tables THEN Item + 1 ELSE 0
       /\ cursor' = IF st = "OTHER_NODEINFOS" THEN Item ELSE 0
       /\ emitted' = IF st = "OTHER_NODEINFOS" THEN Append(emitted, Item) ELSE emitted
       /\ UNCHANGED <<request, db, steady>>

\* Nodes come and go while a stream is read out.
NodeAdded(n) ==
    /\ pos # 0 /\ changes < setup.changes /\ changes' = changes + 1
    /\ n \in Nodes \ db /\ db' = db \cup {n}
    /\ UNCHANGED <<setup, store, stream, flight, link, work, sender, received, losses,
                   emitted, steady, arrived, connects, writes>>

NodeGone(n) ==
    /\ pos # 0 /\ changes < setup.changes /\ changes' = changes + 1
    /\ n \in db \ {Self} /\ db' = db \ {n} /\ steady' = steady \ {n}
    /\ UNCHANGED <<setup, store, stream, flight, link, work, sender, received, losses,
                   emitted, arrived, connects, writes>>

\* Mutant of Taken: the queue goes before the configuration stream.
TakenQueueFirst(f) ==
    \/ /\ queue # <<>> /\ f = Head(queue) /\ queue' = Tail(queue)
       /\ UNCHANGED <<scratch, stream, nodes>>
    \/ queue = <<>> /\ pos # 0 /\ f = ConfigFrame /\ Advance /\ UNCHANGED <<queue, scratch>>

\* What pop_frame and current_frame take: the stream's next frame, else the oldest in the queue.
\* A stream frame is built in from_scratch, which a QueueStatus may be being built in meanwhile
\* by the work queue: either may come out as the other.
Taken(f) ==
    \/ /\ pos # 0 /\ Advance
       /\ f \in {ConfigFrame} \cup (IF building THEN {QueueStatus} ELSE {})
       /\ scratch' \in IF building THEN {ConfigFrame, scratch} ELSE {scratch}
       /\ UNCHANGED queue
    \/ /\ pos = 0 /\ queue # <<>> /\ f = Head(queue) /\ queue' = Tail(queue)
       /\ UNCHANGED <<scratch, stream, nodes>>

Takeable == Range(queue) \cup (IF pos = 0 THEN {} ELSE {ConfigFrame, QueueStatus})
NothingToTake == pos = 0 /\ queue = <<>>

\* The frames that a stream always has, as pairs of a place in Path(request) and an index, and
\* where a frame received belongs among them.
Due == UNION {{k} \X (IF Path(request)[k] \in DOMAIN Tables THEN Tables[Path(request)[k]] ELSE {0}) :
              k \in {j \in DOMAIN Path(request) : Path(request)[j] # "OTHER_NODEINFOS"}}
Before(a, b) == a[1] < b[1] \/ (a[1] = b[1] /\ a[2] < b[2])
PlaceOf(f) == <<SelectInSeq(Path(request), LAMBDA t : t = f.tag), IF f.tag = "COMPLETE" THEN 0 ELSE f.id>>

\* The handshake once f is received: broken by a packet or anything else of the stream where the
\* next frame of the stream is due.
Shaken(f) ==
    LET b == PlaceOf(f)
        fits == IF b[1] = 0 THEN f.tag = "packet" => shake.at[1] = Len(Path(request))
                ELSE Before(shake.at, b) /\ ~\E d \in Due : Before(shake.at, d) /\ Before(d, b)
    IN IF request = 0 \/ shake.state # "whole" THEN shake
       ELSE IF ~fits THEN [state |-> "broken", at |-> <<0, 0>>]
       ELSE IF b[1] = 0 THEN shake
       ELSE [shake EXCEPT !.at = b]

\* A read falls into one of the two windows in which it disturbs the stream: want_config half done,
\* and a QueueStatus half built.
Raced == asking \/ building

\* The phone has received f whole.
Receive(f) ==
    /\ shake' = IF Raced THEN [Start EXCEPT !.state = "raced"] ELSE Shaken(f)
    /\ seen' = IF f.tag = "packet" THEN Append(seen, f.id) ELSE seen

-----------------------------------------------------------------------------
(* ToRadio: written by the phone, handled on the transport's own thread.    *)

\* Over BLE a write overwrites one that was not handled yet.
WriteToRadio(tag, id) ==
    /\ writes < setup.writes /\ writes' = writes + 1
    /\ conn = "up" /\ (kind = "ble" \/ toradio = NoWrite)
    /\ toradio' = [tag |-> tag, id |-> id, conn |-> connects]
    /\ notified' = TRUE
    /\ UNCHANGED <<setup, store, stream, flight, conn, reading, asking, work, sender,
                   received, losses, nodes, arrived, connects, changes>>

\* read_fromradio is between staging and copying, with fromradio_lock held.
Locked == reading = "copy"

Handling(tag) ==
    /\ toradio.tag = tag /\ ~asking /\ ~building /\ ~draining
    /\ toradio' = NoWrite

\* A packet or a heartbeat: enqueue_queue_status fills from_scratch,
StatusFill ==
    /\ Handling("packet")
    /\ scratch' = QueueStatus /\ building' = TRUE
    /\ UNCHANGED <<setup, queue, stream, flight, conn, reading, notified, asking, work,
                   sender, received, losses, nodes, bounds>>

\* and then has it ranked, encoded and queued.  What overwrote it since may go out in its place,
\* ranked as either.
StatusEnqueue ==
    /\ building /\ building' = FALSE /\ scratch' = None
    /\ \E r \in {STATUS, IF scratch = QueueStatus THEN STATUS ELSE KEEP} : Offer([scratch EXCEPT !.rank = r])
    /\ UNCHANGED <<setup, stream, flight, link, sender, received, resets, nodes, bounds>>

\* Mutant of Ask: the queue is flushed.
AskFlush ==
    /\ Handling("want_config")
    /\ queue' = <<>>
    /\ pos' = 1 /\ index' = 0 /\ cursor' = 0 /\ request' = toradio.id
    /\ asking' = (kind = "ble")
    /\ work' = TRUE
    /\ emitted' = <<>> /\ steady' = db \ {Self}
    /\ mine' = (conn = "up" /\ toradio.conn = connects) /\ shake' = Start
    /\ resets' = IF kind = "ble" THEN resets + 1 ELSE resets
    /\ UNCHANGED <<setup, scratch, building, slot, ready, buf, conn, reading, notified,
                   sender, seen, evicted, db, bounds>>

\* meshtastic_phoneapi_enqueue_phone_config, under the API's lock: the stream starts.
Ask ==
    /\ Handling("want_config")
    /\ pos' = 1 /\ index' = 0 /\ cursor' = 0 /\ request' = toradio.id
    /\ asking' = (kind = "ble")
    /\ work' = (work \/ kind # "ble")
    /\ emitted' = <<>> /\ steady' = db \ {Self}
    /\ mine' = (conn = "up" /\ toradio.conn = connects) /\ shake' = Start
    /\ resets' = IF kind = "ble" THEN resets + 1 ELSE resets
    /\ UNCHANGED <<setup, store, slot, ready, buf, conn, reading, notified, sender,
                   seen, evicted, db, bounds>>

\* Mutant of AskDone: data_ready is not called.
AskDoneQuiet ==
    /\ asking /\ asking' = FALSE /\ ~Locked
    /\ ready' = FALSE /\ buf' = None
    /\ UNCHANGED <<setup, store, stream, slot, conn, reading, notified, toradio, work,
                   sender, received, losses, nodes, bounds>>

\* Its rest, over BLE: ble_invalidate_delivery, under fromradio_lock, and data_ready.
AskDone ==
    /\ asking /\ asking' = FALSE /\ ~Locked
    /\ ready' = FALSE /\ buf' = None
    /\ work' = TRUE
    /\ UNCHANGED <<setup, store, stream, slot, conn, reading, notified, toradio, sender,
                   received, losses, nodes, bounds>>

\* meshtastic_phoneapi_session_reset: the connection died, the queue did not.
SessionReset ==
    /\ pos' = 0 /\ index' = 0 /\ cursor' = 0 /\ request' = 0
    /\ UNCHANGED store

-----------------------------------------------------------------------------
(* BLE.                                                                     *)

\* stage_fromradio: a frame into the slot unless one is ready.
Stage(full) ==
    \/ full /\ ready' = TRUE /\ UNCHANGED <<slot, queue, scratch, stream, nodes>>
    \/ ~full /\ (\E f \in Takeable : Taken(f) /\ slot' = f) /\ ready' = TRUE
    \/ ~full /\ NothingToTake /\ ready' = FALSE /\ UNCHANGED <<slot, queue, scratch, stream, nodes>>

\* fromradio_work_handler, with a phone there or not.
StageWork ==
    /\ kind = "ble" /\ work /\ ~asking /\ ~building /\ ~Locked
    /\ work' = FALSE
    /\ Stage(ready)
    /\ notified' = (notified \/ (ready' /\ conn = "up"))
    /\ UNCHANGED <<setup, building, buf, conn, reading, toradio, asking, sender, received,
                   losses, bounds>>

\* read_fromradio from offset 0: stage if need be,
ReadBegin ==
    /\ kind = "ble" /\ conn = "up" /\ notified /\ ~Locked
    /\ Stage(ready)
    /\ IF ready' THEN reading' = "copy" /\ UNCHANGED <<notified, buf>>
                 ELSE reading' = "no" /\ notified' = FALSE /\ buf' = None
    /\ shake' = IF Raced THEN [Start EXCEPT !.state = "raced"] ELSE shake
    /\ UNCHANGED <<setup, building, conn, toradio, asking, work, sender, mine, seen,
                   losses, bounds>>

\* a read that reached the end of the frame f: release it, and stage the next.
ReadTo(f) ==
    /\ Receive(f) /\ Stage(FALSE) /\ reading' = "no"
    /\ UNCHANGED <<setup, building, conn, toradio, asking, work, sender, mine, notified,
                   losses, bounds>>

\* then copy, and answer with the whole frame
ReadWhole ==
    /\ Locked
    /\ buf' = slot
    /\ ReadTo(slot)

\* or with its beginning.
ReadPart ==
    /\ Locked
    /\ buf' = slot /\ reading' = "part"
    /\ UNCHANGED <<setup, store, stream, slot, ready, conn, notified, toradio, asking, work,
                   sender, mine, shake, seen, losses, nodes, bounds>>

\* read_fromradio from where the last read ended; an error if the frame was invalidated.
ReadRest ==
    /\ reading = "part" /\ conn = "up"
    /\ \/ buf # None /\ ReadTo(buf) /\ UNCHANGED buf
       \/ /\ buf = None /\ reading' = "no"
          /\ UNCHANGED <<setup, store, stream, flight, conn, notified, toradio, asking, work,
                         sender, received, losses, nodes, bounds>>

\* connected, and the connection classified as the phone's.
BleConnect ==
    /\ kind = "ble" /\ conn = "down" /\ connects < setup.connects
    /\ conn' = "up" /\ connects' = connects + 1
    /\ reading' = "no" /\ notified' = FALSE /\ mine' = FALSE /\ shake' = Start
    /\ UNCHANGED <<setup, store, stream, flight, toradio, asking, work, sender, seen,
                   losses, nodes, arrived, writes, changes>>

\* disconnected: invalidate the delivery,
BleDisconnect ==
    /\ kind = "ble" /\ conn = "up" /\ ~Locked
    /\ conn' = "closing" /\ reading' = "no" /\ mine' = FALSE
    /\ ready' = FALSE /\ buf' = None /\ resets' = resets + 1
    /\ UNCHANGED <<setup, store, stream, slot, toradio, asking, notified, work, sender, shake,
                   seen, evicted, nodes, bounds>>

\* then reset the session and cancel fromradio_work.
BleDisconnected ==
    /\ kind = "ble" /\ conn = "closing"
    /\ conn' = "down" /\ work' = FALSE
    /\ SessionReset
    /\ UNCHANGED <<setup, flight, reading, notified, toradio, asking, sender, received,
                   losses, nodes, bounds>>

-----------------------------------------------------------------------------
(* TCP and serial: one thread pops frames and writes them out.              *)

\* tcp_thread woken by its eventfd, or tx_work_handler started.  Without a client TCP does nothing.
Wake ==
    /\ kind # "ble" /\ work /\ ~draining /\ ~building
    /\ work' = FALSE /\ draining' = (conn = "up")
    /\ UNCHANGED <<setup, store, stream, flight, link, held, ring, received, losses, nodes,
                   bounds>>

Pop ==
    /\ draining /\ held = None
    /\ \/ (\E f \in Takeable : Taken(f) /\ held' = f) /\ UNCHANGED draining
       \/ /\ NothingToTake /\ draining' = FALSE
          /\ UNCHANGED <<held, queue, scratch, stream, nodes>>
    /\ UNCHANGED <<setup, building, flight, link, work, ring, received, losses, bounds>>

Send ==
    /\ held # None /\ held' = None
    /\ ring' = (kind = "serial")
    /\ Receive(held)
    /\ UNCHANGED <<setup, store, stream, flight, link, work, draining, mine, losses, nodes, bounds>>

\* serial: the ring has no room for the frame.  An empty ring has.
Defer ==
    /\ kind = "serial" /\ held # None /\ ring
    /\ PushFront(held)
    /\ held' = None /\ draining' = FALSE
    /\ UNCHANGED <<setup, scratch, building, stream, flight, link, work, ring, received,
                   resets, nodes, bounds>>

\* serial_isr_tx found the ring empty: serial_tx_finish, tx_cont_work and so tx_work.
Drained ==
    /\ ring /\ ring' = FALSE /\ work' = TRUE
    /\ UNCHANGED <<setup, store, stream, flight, link, draining, held, received, losses,
                   nodes, bounds>>

\* tcp_close_client; what the client had written is lost with the socket.
TcpClosed ==
    /\ conn' = "down" /\ toradio' = NoWrite /\ mine' = FALSE
    /\ pos' = 0 /\ index' = 0 /\ cursor' = 0 /\ request' = 0

\* tcp: the write failed.  Only this thread looks at the session, so putting the frame back and
\* closing are one step.
SendFails ==
    /\ kind = "tcp" /\ held # None
    /\ PushFront(held) /\ TcpClosed
    /\ held' = None /\ draining' = FALSE
    /\ UNCHANGED <<setup, scratch, building, flight, reading, notified, asking, work, ring,
                   shake, seen, resets, nodes, bounds>>

\* The client hung up or went idle.
TcpDisconnect ==
    /\ kind = "tcp" /\ conn = "up" /\ ~draining /\ ~building
    /\ TcpClosed
    /\ UNCHANGED <<setup, store, flight, reading, notified, asking, work, sender, shake, seen,
                   losses, nodes, bounds>>

\* tcp_accept_client: the newest client wins, is greeted and gets the backlog.
TcpConnect ==
    /\ kind = "tcp" /\ ~draining /\ ~building /\ connects < setup.connects
    /\ conn' = "up" /\ connects' = connects + 1 /\ toradio' = NoWrite
    /\ pos' = 0 /\ index' = 0 /\ cursor' = 0 /\ request' = 0
    /\ Offer(Rebooted) /\ draining' = TRUE
    /\ mine' = FALSE /\ shake' = Start
    /\ UNCHANGED <<setup, scratch, building, flight, reading, notified, asking, held, ring,
                   seen, resets, nodes, arrived, writes, changes>>

-----------------------------------------------------------------------------
Environment ==
    \/ \E p \in Packets : OnPacket(p)
    \/ OnLog
    \/ \E n \in Nodes : NodeAdded(n) \/ NodeGone(n)
    \/ \E r \in setup.requests : WriteToRadio("want_config", r)
    \/ WriteToRadio("packet", 0)
    \/ BleConnect \/ BleDisconnect
    \/ TcpConnect \/ TcpDisconnect \/ SendFails \/ Defer

Handle == StatusFill \/ StatusEnqueue \/ Ask \/ AskDone \/ BleDisconnected
Read == ReadBegin \/ ReadWhole \/ ReadPart \/ ReadRest
Transmit == Wake \/ Pop \/ Send \/ Drained

Next == Environment \/ Handle \/ StageWork \/ Read \/ Transmit

Spec == Init /\ [][Next]_vars

\* The work queues, the interrupt handler and the threads run, and a phone that was notified
\* reads frames to their end.
Fairness ==
    /\ WF_vars(Handle) /\ WF_vars(StageWork) /\ WF_vars(ReadBegin)
    /\ WF_vars(ReadWhole \/ ReadRest) /\ WF_vars(Wake) /\ WF_vars(Pop \/ Send) /\ WF_vars(Drained)

FairSpec == Spec /\ Fairness

-----------------------------------------------------------------------------
\* The packets that are nowhere: neither with the phone nor on their way, nor given up by an
\* eviction.
Lost ==
    arrived \ (Queued \cup Ids({held}) \cup Ids(IF ready THEN {slot} ELSE {}) \cup ToSet(seen)
               \cup evicted)

\* meshtastic_phoneapi_enqueue_fromradio under the protect policy: a frame, queued or offered, is
\* given up only if none that stays is cheaper.  (meshtastic_phoneapi_push_frame_front drops the
\* newest whatever it is worth: Defer and SendFails are left out.)
RankLadder ==
    [][(policy = "protect" /\ evicted' # evicted /\ held' = held) =>
       \A p \in evicted' \ evicted : \A f \in Range(queue') : Rank[p] <= f.rank]_vars

\* meshtastic_phoneapi_push_frame_front and the two ways out of the queue: the phone gets the
\* packets in the order they came in, each at most once, over reconnections and deferrals.
InOrder == \A i, j \in DOMAIN seen : i < j => seen[i] < seen[j]

\* The queue outlives want_config and disconnection (session_reset, enqueue_phone_config): each of
\* these costs at most the one frame in flight, and over TCP and serial nothing at all.
BacklogKept == Cardinality(Lost) <= resets

\* meshtastic_phoneapi_next_config_frame walks the NodeDB by number: no node is streamed twice,
\* and one that stays in the NodeDB is not passed over, whatever comes and goes meanwhile.
NodesOnce ==
    /\ IsInjective(emitted)
    /\ (request # 0 /\ request # ONLY_CONFIG
        /\ (pos = 0 \/ Path(request)[pos] \in {"QUEUE_STATUS", "COMPLETE"}))
       => steady \subseteq ToSet(emitted)

\* pop_frame and current_frame, config stream first: over TCP, and over BLE unless a read fell
\* into one of the two windows of Raced, the phone gets the stream's frames in order and without a
\* gap, and no packet before the frame that completes it.
HandshakeWhole == (mine /\ kind # "serial") => shake.state # "broken"

\* The same of every transport, with nothing taken out.
Handshake == mine => shake.state = "whole"

\* data_ready, fromradio_work and the restaging in read_fromradio, the eventfd, tx_cont_work: once
\* no more comes and the phone stays, everything gets to it.
Drains == <>[]((conn = "up" /\ mine) => NothingToTake /\ ~ready /\ held = None)
=============================================================================
