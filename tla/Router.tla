------------------------------- MODULE Router -------------------------------
(***************************************************************************)
(* The router thread (router/routing.rs, scheduler.rs, waiters.rs,          *)
(* graveyard.rs) and the links it serves (link/local.rs, link/remote.rs,    *)
(* server/broker.rs).  One link is one accepted socket.  Links talk to the  *)
(* router through the bounded channel `chan` and the shared buffer `ibuf`;  *)
(* the router talks back through the shared buffer `obuf` and the signal    *)
(* channel `sig`.  The router is one thread: while `work` is not Idle it is *)
(* inside a handler, and only links may move besides.                       *)
(*                                                                          *)
(* Left to other modules: packet ids, QoS 2 and retained messages           *)
(* (Outgoing), segments and retention (CommitLog).  A log is its length; a  *)
(* filter exists from the start; shared subscriptions, wills and topic      *)
(* aliases are left out.                                                    *)
(***************************************************************************)
EXTENDS Integers, Sequences, SequencesExt, FiniteSets

CONSTANTS
    Link, Client, Filter,
    ClientOf,         \* [Link -> Client]: the client_id of the CONNECT
    Clean,            \* the links that connect with clean_session
    Sends,            \* [Link -> SUBSET Packet]: what the client may send
    MaxPackets,       \* [Link -> Nat]: bound on how many packets it sends
    Breaks,           \* the links whose network may fail
    MaxConnections,   \* config.max_connections
    MaxInflight,      \* MAX_INFLIGHT (100)
    BufferCapacity,   \* MAX_CHANNEL_CAPACITY (200)
    ReadCount,        \* config.max_outgoing_packet_count
    Iterations,       \* MAX_SCHEDULE_ITERATIONS (100)
    ChannelCapacity,  \* bound of the router channel (1000)
    EventBatch,       \* try_recv per turn of run_inner (500)
    ConsumeBatch,     \* consume per turn of run_inner (100)
    NoLink

\* Without a slot no client is ever accepted; BufferCapacity - 1 is a length
\* at which a buffer counts as full, and an empty buffer must not.
ASSUME RouterAssumption ==
    /\ IsFiniteSet(Filter)
    /\ ClientOf \in [Link -> Client]
    /\ MaxPackets \in [Link -> Nat]
    /\ MaxConnections \in Nat \ {0}
    /\ MaxInflight \in Nat /\ ReadCount \in Nat
    /\ BufferCapacity \in Nat /\ BufferCapacity >= 2
    /\ Iterations \in Nat /\ ChannelCapacity \in Nat
    /\ EventBatch \in Nat /\ ConsumeBatch \in Nat
    /\ NoLink \notin Link

VARIABLES
    chan,              \* router_rx: the events not yet taken by the router
    conns,             \* connections, obufs, ackslog and trackers, by id
    vacant,            \* the free ids of these slabs, the next one first
    connection_map,    \* client_id -> id
    subscription_map,  \* filter -> ids
    readyqueue,        \* scheduler.readyqueue
    waiters,           \* datalog.native[f].waiters
    notifications,     \* waiters taken by an append, not yet tracked
    log,               \* datalog.native[f].log: messages appended
    graveyard,         \* saved sessions
    phase,             \* where run_inner stands, and its loop counter
    work,              \* the handler the router is in
    at, cid,           \* where a link stands, and the id CONNACK gave it
    ibuf, obuf, sig,   \* per link: the two buffers, the pending signals
    unacked, sent      \* per client: QoS 1 publishes to ack, packets sent

datavars == <<subscription_map, waiters, notifications, log, graveyard>>
slabvars == <<conns, vacant, connection_map>>
linkvars == <<at, cid, unacked, sent>>
bufvars  == <<ibuf, obuf, sig>>
vars == <<chan, slabvars, readyqueue, datavars, phase, work, linkvars, bufvars>>

------------------------------------------------------------------------------
Slot   == 0 .. MaxConnections - 1
NoId   == -1
Vacant == [status |-> "Vacant"]
NoSession == [saved |-> FALSE]
Idle   == [op |-> "idle"]

Packet ==
    [type : {"Publish"}, filters : SUBSET Filter, qos : {0, 1}]
        \cup [type : {"Subscribe"}, filter : Filter, qos : {0, 1}]
        \cup [type : {"Unsubscribe"}, filter : Filter]
        \cup [type : {"Malformed", "Denied", "PubAck", "BadAck", "PingReq", "Disconnect"}]

ASSUME SendsAssumption == \A l \in Link : Sends[l] \subseteq Packet

Request == [filter : Filter, qos : {0, 1}, cursor : Nat]
Waiter  == [id : Slot, request : Request]
Notification == {"ConnAck", "DeviceAck", "Forward0", "Forward1", "Unschedule", "Disconnect"}

\* A live connection: what the five slabs hold at its id.
Connection ==
    [link : Link, subs : SUBSET Filter, requests : Seq(Request),
     status : {"Ready", "Caughtup", "InflightFull", "Busy"},
     inflight : Seq([filter : Filter, cursor : Nat]),
     acks : Seq({"ConnAck", "DeviceAck"})]

\* An event names the link it came from; the code has only the id.
Event == [id : Slot, event : {"Connect", "DeviceData", "Disconnect", "Ready"}, link : Link]

Serving == {"serving", "notifying", "waking"}   \* RemoteLink::start is running

Live(id) == conns[id] # Vacant
LiveIds  == {id \in Slot : Live(id)}
Dropped(l) ==   \* the router holds no Outgoing of l: its signals have ended
    /\ \A id \in LiveIds : conns[id].link # l
    /\ \A i \in 1 .. Len(chan) : ~(chan[i].event = "Connect" /\ chan[i].link = l)
    /\ ~(work.op \in {"connect", "disconnect"} /\ work.link = l)

\* handle.try_send(()).ok(): a full signal channel drops the signal.
Signal(l) == sig' = [sig EXCEPT ![l] = IF @ < BufferCapacity THEN @ + 1 ELSE @]
Send(id, event, l) ==
    /\ Len(chan) < ChannelCapacity
    /\ chan' = Append(chan, [id |-> id, event |-> event, link |-> l])

------------------------------------------------------------------------------
\* Tracker::try_ready (debug assertions off): which pauses a reason ends.
Wakes(reason, status) ==
    \/ reason \in {"Init", "Ready"} /\ status # "Ready"
    \/ reason \in {"NewFilter", "FreshData"} /\ status = "Caughtup"
    \/ reason = "IncomingAck" /\ status \in {"Caughtup", "InflightFull"}

\* Slip: the state changes, the queue does not.
RescheduleUnqueued(id, conn, reason) ==
    /\ conns' = [conns EXCEPT ![id] =
                    IF Wakes(reason, conn.status) THEN [conn EXCEPT !.status = "Ready"] ELSE conn]
    /\ UNCHANGED readyqueue

\* Scheduler::reschedule, of a connection that becomes conn.
Reschedule(id, conn, reason) ==
    /\ conns' = [conns EXCEPT ![id] =
                    IF Wakes(reason, conn.status) THEN [conn EXCEPT !.status = "Ready"] ELSE conn]
    /\ readyqueue' = IF Wakes(reason, conn.status) THEN Append(readyqueue, id) ELSE readyqueue

\* Scheduler::pause, of a connection that becomes conn.
Pause(id, conn, reason) ==
    /\ conns' = [conns EXCEPT ![id] = [conn EXCEPT !.status = reason]]
    /\ readyqueue' = Front(readyqueue)

\* VecDeque::swap_remove_back of the first waiter of id.
RemoveWaiter(ws, id) ==
    LET i == SelectInSeq(ws, LAMBDA w : w.id = id)
    IN  IF i = 0 THEN ws
        ELSE IF i = Len(ws) THEN Front(ws)
        ELSE [Front(ws) EXCEPT ![i] = Last(ws)]

\* Slip: the waiters are left alone.
RemoveNoWaiters(ws, id) == ws

\* Waiters::remove: one waiter of id after the other until there is none.
RemoveWaiters(ws, id) ==
    LET left[n \in 0 .. Len(ws)] == IF n = 0 THEN ws ELSE RemoveWaiter(left[n - 1], id)
    IN  left[Len(ws)]

\* The requests of these waiters.  Waiters::remove swaps the last waiter into
\* the gap, so the code may order the requests of one log otherwise.
RequestsOf(ws, id) ==
    LET of[n \in 0 .. Len(ws)] ==
            IF n = 0 THEN <<>>
            ELSE IF ws[n].id = id THEN Append(of[n - 1], ws[n].request) ELSE of[n - 1]
    IN  of[Len(ws)]

\* Tracker::unregister_data_request: the requests for f are taken out.
Unregistered(requests, f) ==
    LET kept[n \in 0 .. Len(requests)] ==
            IF n = 0 THEN <<>>
            ELSE IF requests[n].filter = f THEN kept[n - 1] ELSE Append(kept[n - 1], requests[n])
    IN  kept[Len(requests)]

\* Outgoing::retransmission_map, applied to a request.
Rewind(request, inflight) ==
    LET i == SelectInSeq(inflight, LAMBDA s : s.filter = request.filter)
    IN  IF i = 0 THEN request ELSE [request EXCEPT !.cursor = inflight[i].cursor]

\* Waiters::take, of the logs a message is appended to.  Slip: they stay.
TakenNone(filters) == waiters
Taken(filters) == [f \in Filter |-> IF f \in filters THEN <<>> ELSE waiters[f]]

\* Slip: only what the tracker holds is saved.
SavedRequestsOfTracker(id) == conns[id].requests

\* The requests handle_disconnection saves: those of the tracker, then the
\* parked ones of each log.
SavedRequests(id) ==
    LET fs == SetToSeq(Filter)
    IN  conns[id].requests \o FlattenSeq([i \in 1 .. Len(fs) |-> RequestsOf(waiters[fs[i]], id)])

\* Slip: the map keeps the id.
KeptInMap(id) == subscription_map

\* A connection that goes is taken off the map, under each of its filters.
RemovedFromMap(id) ==
    [f \in Filter |-> IF f \in conns[id].subs THEN subscription_map[f] \ {id}
                      ELSE subscription_map[f]]

\* Graveyard::retrieve takes the saved session out.
Retrieved(c) == [graveyard EXCEPT ![c] = NoSession]

------------------------------------------------------------------------------
\* A link connects: LinkBuilder::build sends the Connect event ...
SendConnect(l) ==
    /\ at[l] = "new"
    /\ Send(0, "Connect", l)
    /\ at' = [at EXCEPT ![l] = "connecting"]
    /\ UNCHANGED <<slabvars, readyqueue, datavars, phase, work, cid, unacked, sent, bufvars>>

\* ... and waits for the signal behind which the CONNACK lies.
TakeConnAck(l) ==
    /\ at[l] = "connecting" /\ sig[l] > 0
    /\ sig' = [sig EXCEPT ![l] = @ - 1]
    /\ obuf' = [obuf EXCEPT ![l] = Tail(@)]

\* The id the CONNACK carries is that of the connection the router gave l.
\* By now that connection may be gone again: its id is still the one sent.
Opened(l) ==
    /\ TakeConnAck(l)
    /\ at' = [at EXCEPT ![l] = "serving"]
    /\ UNCHANGED <<chan, slabvars, readyqueue, datavars, phase, work, cid, unacked, sent, ibuf>>

\* RemoteLink::new fails to write the CONNACK: broker.rs returns from
\* remote() and no Disconnect is sent.
ConnAckLost(l) ==
    /\ l \in Breaks
    /\ TakeConnAck(l)
    /\ at' = [at EXCEPT ![l] = "lost"]
    /\ UNCHANGED <<chan, slabvars, readyqueue, datavars, phase, work, cid, unacked, sent, ibuf>>

\* Slip: build goes on waiting for its CONNACK.
RouterDropUnseen(l) ==
    /\ at[l] = "serving" /\ Dropped(l) /\ sig[l] = 0
    /\ at' = [at EXCEPT ![l] = "gone"]
    /\ UNCHANGED <<chan, slabvars, readyqueue, datavars, phase, work, cid, unacked, sent, bufvars>>

\* The router dropped its half: build, or exchange, sees the channel end.
RouterDrop(l) ==
    /\ at[l] \in {"connecting", "serving"} /\ Dropped(l) /\ sig[l] = 0
    /\ at' = [at EXCEPT ![l] = "gone"]
    /\ UNCHANGED <<chan, slabvars, readyqueue, datavars, phase, work, cid, unacked, sent, bufvars>>

\* RemoteLink::start, first arm: a packet read goes to ibuf under its lock ...
\* A client acks what it was sent.
NetRead(l, p) ==
    /\ at[l] = "serving"
    /\ IF p.type = "PubAck" THEN unacked[l] > 0 ELSE sent[l] < MaxPackets[l]
    /\ ibuf' = [ibuf EXCEPT ![l] = Append(@, p)]
    /\ at' = [at EXCEPT ![l] = "notifying"]
    /\ unacked' = [unacked EXCEPT ![l] = IF p.type = "PubAck" THEN @ - 1 ELSE @]
    /\ sent' = [sent EXCEPT ![l] = IF p.type = "PubAck" THEN @ ELSE @ + 1]
    /\ UNCHANGED <<chan, slabvars, readyqueue, datavars, phase, work, cid, obuf, sig>>

\* ... and then, when the channel has room, a DeviceData event to the router.
NotifyRouter(l) ==
    /\ at[l] = "notifying"
    /\ Send(cid[l], "DeviceData", l)
    /\ at' = [at EXCEPT ![l] = "serving"]
    /\ UNCHANGED <<slabvars, readyqueue, datavars, phase, work, cid, unacked, sent, bufvars>>

\* Second arm: LinkRx::exchange takes all of obuf and writes it; an
\* Unschedule among it is answered by Ready.
Exchange(l) ==
    /\ at[l] = "serving" /\ sig[l] > 0
    /\ sig' = [sig EXCEPT ![l] = @ - 1]
    /\ obuf' = [obuf EXCEPT ![l] = <<>>]
    /\ unacked' = [unacked EXCEPT ![l] = @ +
                       Cardinality({i \in 1 .. Len(obuf[l]) : obuf[l][i] = "Forward1"})]
    /\ at' = [at EXCEPT ![l] = IF Contains(obuf[l], "Unschedule") THEN "waking" ELSE @]
    /\ UNCHANGED <<chan, slabvars, readyqueue, datavars, phase, work, cid, sent, ibuf>>

\* LinkRx::wake.
Wake(l) ==
    /\ at[l] = "waking"
    /\ Send(cid[l], "Ready", l)
    /\ at' = [at EXCEPT ![l] = "serving"]
    /\ UNCHANGED <<slabvars, readyqueue, datavars, phase, work, cid, unacked, sent, bufvars>>

\* Slip: no Disconnect is sent.
NetErrorSilent(l) ==
    /\ l \in Breaks /\ at[l] \in {"serving", "waking"}
    /\ at' = [at EXCEPT ![l] = "gone"]
    /\ UNCHANGED <<chan, slabvars, readyqueue, datavars, phase, work, cid, unacked, sent, bufvars>>

\* A read, a write or the keep-alive fails: remote() sends Disconnect.
NetError(l) ==
    /\ l \in Breaks /\ at[l] \in {"serving", "waking"}
    /\ Send(cid[l], "Disconnect", l)
    /\ at' = [at EXCEPT ![l] = "gone"]
    /\ UNCHANGED <<slabvars, readyqueue, datavars, phase, work, cid, unacked, sent, bufvars>>

------------------------------------------------------------------------------
\* Where run_inner goes after an event, or after a consume that returned some
\* connection.
After == IF phase.at \in {"drain", "sweep"} THEN [phase EXCEPT !.n = @ + 1]
         ELSE [at |-> "drain", n |-> 0]

Consuming ==
    /\ work = Idle
    /\ phase.at = "first" \/ (phase.at = "sweep" /\ phase.n < ConsumeBatch)
Receiving ==
    /\ work = Idle /\ chan # <<>>
    /\ phase.at = "recv" \/ (phase.at = "drain" /\ phase.n < EventBatch)

HeadLive == readyqueue # <<>> /\ Live(Head(readyqueue))

\* Scheduler::poll finds no live connection: the queue is empty, or its head
\* is the id of a connection that is gone.
ConsumeNone ==
    /\ Consuming
    /\ ~HeadLive
    /\ readyqueue' = IF readyqueue = <<>> THEN <<>> ELSE Tail(readyqueue)
    /\ phase' = IF phase.at = "first" THEN [at |-> "recv", n |-> 0]
                ELSE IF readyqueue = <<>> THEN [at |-> "first", n |-> 0] ELSE After
    /\ UNCHANGED <<chan, slabvars, datavars, work, linkvars, bufvars>>

\* poll drains the requests of the connection and puts it back at the end of
\* the queue; ack_device_data moves its acks to obuf.
ConsumeBegin ==
    /\ Consuming
    /\ HeadLive
    /\ LET id == Head(readyqueue)
           c  == conns[id]
       IN  /\ readyqueue' = Append(Tail(readyqueue), id)
           /\ conns' = [conns EXCEPT ![id] = [c EXCEPT !.requests = <<>>, !.acks = <<>>]]
           /\ work' = [op |-> "consume", id |-> id, requests |-> c.requests, count |-> 0]
           /\ IF c.acks = <<>> THEN UNCHANGED <<obuf, sig>>
              ELSE /\ obuf' = [obuf EXCEPT ![c.link] = @ \o c.acks]
                   /\ Signal(c.link)
           /\ cid' = IF Contains(c.acks, "ConnAck") THEN [cid EXCEPT ![c.link] = id] ELSE cid
    /\ phase' = After
    /\ UNCHANGED <<chan, vacant, connection_map, datavars, at, unacked, sent, ibuf>>

\* The end of the two loops of run_inner.
DrainEnd ==
    /\ work = Idle /\ phase.at = "drain"
    /\ chan = <<>> \/ phase.n = EventBatch
    /\ phase' = [at |-> "sweep", n |-> 0]
    /\ UNCHANGED <<chan, slabvars, readyqueue, datavars, work, linkvars, bufvars>>

SweepEnd ==
    /\ work = Idle /\ phase.at = "sweep" /\ phase.n = ConsumeBatch
    /\ phase' = [at |-> "first", n |-> 0]
    /\ UNCHANGED <<chan, slabvars, readyqueue, datavars, work, linkvars, bufvars>>

------------------------------------------------------------------------------
\* consume, after poll: one request at a time.
InConsume == work.op = "consume"
Me        == conns[work.id]

\* No request is left: the connection has caught up.
NoneLeft ==
    /\ InConsume /\ work.count < Iterations /\ work.requests = <<>>
    /\ Pause(work.id, Me, "Caughtup")
    /\ work' = Idle
    /\ UNCHANGED <<chan, vacant, connection_map, datavars, phase, linkvars, bufvars>>

\* The loop ran its course: the requests go back, the connection stays ready.
IterationsDone ==
    /\ InConsume /\ work.count = Iterations
    /\ conns' = [conns EXCEPT ![work.id] = [Me EXCEPT !.requests = @ \o work.requests]]
    /\ work' = Idle
    /\ UNCHANGED <<chan, vacant, connection_map, readyqueue, datavars, phase, linkvars, bufvars>>

\* Outgoing::free_slots.  Slip: one more.
FreeSlotsBeyond(conn) == MaxInflight + 1 - Len(conn.inflight)
FreeSlots(conn) == MaxInflight - Len(conn.inflight)

Requeued(request) == Append(Tail(work.requests), request)

\* forward_device_data: a QoS 1 request meets a full window.
InflightFull ==
    /\ InConsume /\ work.count < Iterations /\ work.requests # <<>>
    /\ LET request == Head(work.requests) IN
        /\ request.qos = 1 /\ FreeSlots(Me) = 0
        /\ Pause(work.id, [Me EXCEPT !.requests = @ \o Requeued(request)], "InflightFull")
    /\ work' = Idle
    /\ UNCHANGED <<chan, vacant, connection_map, datavars, phase, linkvars, bufvars>>

Park(request) ==
    waiters' = [waiters EXCEPT ![request.filter] =
                   Append(@, [id |-> work.id, request |-> request])]

\* A buffer that is full ends with an Unschedule.  Slip: it does not.
FilledOnly(out) == out
Filled(out) == Append(out, "Unschedule")

\* forward_device_data, past the check of the window: a read, what it pushes
\* to obuf, and what becomes of the request.
Forward ==
    /\ InConsume /\ work.count < Iterations /\ work.requests # <<>>
    /\ LET request == Head(work.requests)
           f       == request.filter
           l       == Me.link
           slots   == IF request.qos = 1 THEN FreeSlots(Me) ELSE ReadCount
           unread  == log[f] - request.cursor
           read    == IF unread <= slots THEN unread ELSE slots
           moved   == [request EXCEPT !.cursor = @ + read]
           caughtup == unread <= slots
           out     == obuf[l] \o [i \in 1 .. read |-> IF request.qos = 1 THEN "Forward1" ELSE "Forward0"]
           conn    == IF request.qos = 0 THEN Me
                      ELSE [Me EXCEPT !.inflight = @ \o
                              [i \in 1 .. read |-> [filter |-> f, cursor |-> request.cursor + i - 1]]]
           full    == read > 0 /\ Len(out) >= BufferCapacity - 1
       IN  /\ slots > 0
           /\ obuf' = [obuf EXCEPT ![l] = IF full THEN Filled(out) ELSE out]
           /\ IF read = 0 THEN UNCHANGED sig ELSE Signal(l)
           /\ IF full
              THEN /\ Pause(work.id, [conn EXCEPT !.requests = @ \o Requeued(moved)], "Busy")
                   /\ work' = Idle
                   /\ UNCHANGED waiters
              ELSE /\ conns' = [conns EXCEPT ![work.id] = conn]
                   /\ work' = [work EXCEPT !.count = @ + 1, !.requests =
                                  IF caughtup THEN Tail(@) ELSE Requeued(moved)]
                   /\ IF caughtup THEN Park(moved) ELSE UNCHANGED waiters
                   /\ UNCHANGED readyqueue
    /\ UNCHANGED <<chan, vacant, connection_map, subscription_map, notifications, log,
                   graveyard, phase, linkvars, ibuf>>

------------------------------------------------------------------------------
\* events: the router takes one event off its channel.
Receive(event) ==
    /\ Receiving /\ Head(chan).event = event
    /\ chan' = Tail(chan)

\* handle_new_connection: a live connection of the same client goes first.
OnConnect ==
    /\ Receive("Connect")
    /\ LET l   == Head(chan).link
           old == connection_map[ClientOf[l]]
       IN  work' = IF old = NoId THEN [op |-> "connect", link |-> l]
                   ELSE [op |-> "disconnect", id |-> old, reason |-> FALSE, link |-> l]
    /\ phase' = After
    /\ UNCHANGED <<slabvars, readyqueue, datavars, linkvars, bufvars>>

\* handle_device_payload: Incoming::exchange takes what ibuf holds now.
OnDeviceData ==
    /\ Receive("DeviceData")
    /\ LET id == Head(chan).id IN
        IF ~Live(id) THEN UNCHANGED <<work, ibuf>>
        ELSE /\ work' = [op |-> "packets", id |-> id, packets |-> ibuf[conns[id].link],
                         force_ack |-> FALSE, new_data |-> FALSE, broken |-> FALSE,
                         disconnect |-> FALSE, reason |-> FALSE]
             /\ ibuf' = [ibuf EXCEPT ![conns[id].link] = <<>>]
    /\ phase' = After
    /\ UNCHANGED <<slabvars, readyqueue, datavars, linkvars, obuf, sig>>

OnDisconnect ==
    /\ Receive("Disconnect")
    /\ LET id == Head(chan).id IN
        work' = IF ~Live(id) THEN Idle
                ELSE [op |-> "disconnect", id |-> id, reason |-> FALSE, link |-> NoLink]
    /\ phase' = After
    /\ UNCHANGED <<slabvars, readyqueue, datavars, linkvars, bufvars>>

\* reschedule(id, Ready): of an id that is gone, unwrap panics and the router
\* thread ends.
OnReady ==
    /\ Receive("Ready")
    /\ LET id == Head(chan).id IN
        IF Live(id) THEN Reschedule(id, conns[id], "Ready") /\ phase' = After
        ELSE phase' = [at |-> "panicked", n |-> 0] /\ UNCHANGED <<conns, readyqueue>>
    /\ UNCHANGED <<vacant, connection_map, datavars, work, linkvars, bufvars>>

\* handle_new_connection, past the takeover: no room, or a new id, with the
\* saved session unless the client asked for a clean one.
HandleNewConnection ==
    /\ work.op = "connect"
    /\ work' = Idle
    /\ IF Cardinality(LiveIds) >= MaxConnections
       THEN UNCHANGED <<slabvars, readyqueue, graveyard>>
       ELSE LET l      == work.link
                c      == ClientOf[l]
                id     == Head(vacant)
                resume == l \notin Clean /\ graveyard[c].saved
            IN  /\ conns' = [conns EXCEPT ![id] =
                      [link |-> l, status |-> "Ready", inflight |-> <<>>, acks |-> <<"ConnAck">>,
                       subs     |-> IF resume THEN graveyard[c].subs ELSE {},
                       requests |-> IF resume THEN graveyard[c].requests ELSE <<>>]]
                /\ vacant' = Tail(vacant)
                /\ connection_map' = [connection_map EXCEPT ![c] = id]
                /\ graveyard' = Retrieved(c)
                /\ readyqueue' = Append(readyqueue, id)
    /\ UNCHANGED <<chan, subscription_map, waiters, notifications, log, phase, linkvars, bufvars>>

\* handle_disconnection: the id is free again, nothing waits for it, and the
\* session of a persistent client is saved with its parked requests, every
\* request back at its first message in flight.
HandleDisconnection ==
    /\ work.op = "disconnect"
    /\ LET id  == work.id
           l   == Me.link
           c   == ClientOf[l]
           all == SavedRequests(id)
       IN  /\ conns' = [conns EXCEPT ![id] = Vacant]
           /\ vacant' = <<id>> \o vacant
           /\ connection_map' = [connection_map EXCEPT ![c] = NoId]
           /\ waiters' = [f \in Filter |-> RemoveWaiters(waiters[f], id)]
           /\ subscription_map' = RemovedFromMap(id)
           /\ graveyard' = [graveyard EXCEPT ![c] =
                  IF l \in Clean THEN NoSession
                  ELSE [saved |-> TRUE, subs |-> Me.subs,
                        requests |-> [i \in 1 .. Len(all) |-> Rewind(all[i], Me.inflight)]]]
           /\ IF work.reason
              THEN obuf' = [obuf EXCEPT ![l] = Append(@, "Disconnect")] /\ Signal(l)
              ELSE UNCHANGED <<obuf, sig>>
    /\ work' = IF work.link = NoLink THEN Idle ELSE [op |-> "connect", link |-> work.link]
    /\ UNCHANGED <<chan, readyqueue, notifications, log, phase, linkvars, ibuf>>

------------------------------------------------------------------------------
\* handle_device_payload, one packet after the other.
NextIs(type) ==
    /\ work.op = "packets" /\ ~work.broken
    /\ work.packets # <<>> /\ Head(work.packets).type = type

Current == Head(work.packets)
Rest    == Tail(work.packets)
Acked(conn) == [conn EXCEPT !.acks = Append(@, "DeviceAck")]

\* append_to_commitlog: the message goes to every log whose filter matches,
\* and the waiters of each are taken, in the order of the matches.
Publish ==
    /\ NextIs("Publish")
    /\ LET p == Current IN
        /\ conns' = IF p.qos = 0 THEN conns ELSE [conns EXCEPT ![work.id] = Acked(Me)]
        /\ log' = [f \in Filter |-> IF f \in p.filters THEN log[f] + 1 ELSE log[f]]
        /\ waiters' = Taken(p.filters)
        /\ \E order \in SetToSeqs(p.filters) :
            notifications' = notifications
                \o FlattenSeq([i \in 1 .. Len(order) |-> waiters[order[i]]])
        /\ work' = [work EXCEPT !.packets = Rest, !.new_data = TRUE,
                                !.force_ack = @ \/ p.qos = 1]
    /\ UNCHANGED <<chan, vacant, connection_map, readyqueue, subscription_map, graveyard, phase,
                   linkvars, bufvars>>

\* What ends the loop over the packets: a publish append_to_commitlog refuses
\* (with a reason for the client), or a DISCONNECT.
Refused ==
    /\ \E type \in {"Malformed", "Disconnect"} : NextIs(type)
    /\ work' = [work EXCEPT !.broken = TRUE, !.disconnect = TRUE,
                            !.reason = @ \/ Current.type = "Malformed"]
    /\ UNCHANGED <<chan, slabvars, readyqueue, datavars, phase, linkvars, bufvars>>

\* SUBSCRIBE and prepare_filter: a new subscription gets a request that
\* starts at the end of the log.
Subscribe ==
    /\ NextIs("Subscribe")
    /\ LET f == Current.filter
           q == [filter |-> f, qos |-> Current.qos, cursor |-> log[f]]
       IN  /\ subscription_map' = [subscription_map EXCEPT ![f] = @ \cup {work.id}]
           /\ IF f \in Me.subs
              THEN /\ conns' = [conns EXCEPT ![work.id] = Acked(Me)]
                   /\ UNCHANGED readyqueue
              ELSE Reschedule(work.id,
                       Acked([Me EXCEPT !.subs = @ \cup {f}, !.requests = Append(@, q)]),
                       "NewFilter")
    /\ work' = [work EXCEPT !.packets = Rest, !.force_ack = TRUE]
    /\ UNCHANGED <<chan, vacant, connection_map, waiters, notifications, log, graveyard, phase,
                   linkvars, bufvars>>

\* A SUBSCRIBE validate_subscription refuses is acked all the same, and the
\* packets behind it are handled before the connection is dropped.
Denied ==
    /\ NextIs("Denied")
    /\ conns' = [conns EXCEPT ![work.id] = Acked(Me)]
    /\ work' = [work EXCEPT !.packets = Rest, !.force_ack = TRUE, !.disconnect = TRUE]
    /\ UNCHANGED <<chan, vacant, connection_map, readyqueue, datavars, phase, linkvars, bufvars>>

\* UNSUBSCRIBE of a filter subscription_map has the connection under (its
\* subscriptions then hold the filter too, see SubscriptionMapSound): the
\* request is taken off the tracker and off the waiters.
Unsubscribe ==
    /\ NextIs("Unsubscribe")
    /\ LET f == Current.filter IN
        IF work.id \notin subscription_map[f]
        THEN /\ work' = [work EXCEPT !.packets = Rest]
             /\ UNCHANGED <<conns, subscription_map, waiters>>
        ELSE /\ subscription_map' = [subscription_map EXCEPT ![f] = @ \ {work.id}]
             /\ conns' = [conns EXCEPT ![work.id] =
                   Acked([Me EXCEPT !.subs = @ \ {f},
                                    !.requests = Unregistered(@, f)])]
             /\ waiters' = [waiters EXCEPT ![f] = RemoveWaiter(@, work.id)]
             /\ work' = [work EXCEPT !.packets = Rest, !.force_ack = TRUE]
    /\ UNCHANGED <<chan, vacant, connection_map, readyqueue, notifications, log, graveyard, phase,
                   linkvars, bufvars>>

\* PUBACK: register_ack takes the head of the window.
PubAck ==
    /\ NextIs("PubAck") /\ Me.inflight # <<>>
    /\ Reschedule(work.id, [Me EXCEPT !.inflight = Tail(@)], "IncomingAck")
    /\ work' = [work EXCEPT !.packets = Rest]
    /\ UNCHANGED <<chan, vacant, connection_map, datavars, phase, linkvars, bufvars>>

\* A PUBACK that is not the one expected: the head is lost all the same.
BadAck ==
    /\ NextIs("BadAck") \/ (NextIs("PubAck") /\ Me.inflight = <<>>)
    /\ conns' = [conns EXCEPT ![work.id] =
                    [Me EXCEPT !.inflight = IF @ = <<>> THEN @ ELSE Tail(@)]]
    /\ work' = [work EXCEPT !.broken = TRUE, !.disconnect = TRUE]
    /\ UNCHANGED <<chan, vacant, connection_map, readyqueue, datavars, phase, linkvars, bufvars>>

PingReq ==
    /\ NextIs("PingReq")
    /\ conns' = [conns EXCEPT ![work.id] = Acked(Me)]
    /\ work' = [work EXCEPT !.packets = Rest, !.force_ack = TRUE]
    /\ UNCHANGED <<chan, vacant, connection_map, readyqueue, datavars, phase, linkvars, bufvars>>

\* After the packets: acks are flushed ...
PacketsEnd ==
    /\ work.op = "packets" /\ (work.packets = <<>> \/ work.broken)
    /\ IF work.force_ack THEN Reschedule(work.id, Me, "FreshData")
       ELSE UNCHANGED <<conns, readyqueue>>
    /\ work' = [op |-> "notify", id |-> work.id, new_data |-> work.new_data,
                disconnect |-> work.disconnect, reason |-> work.reason]
    /\ UNCHANGED <<chan, vacant, connection_map, datavars, phase, linkvars, bufvars>>

\* ... waiters taken by the appends become requests of their trackers ...
Notify ==
    /\ work.op = "notify" /\ work.new_data /\ notifications # <<>>
    /\ LET w == Head(notifications)
           c == conns[w.id]
       IN  Reschedule(w.id, [c EXCEPT !.requests = Append(@, w.request)], "FreshData")
    /\ notifications' = Tail(notifications)
    /\ UNCHANGED <<chan, vacant, connection_map, subscription_map, waiters, log, graveyard,
                   phase, work, linkvars, bufvars>>

\* ... and a connection that misbehaved is dropped.
PayloadEnd ==
    /\ work.op = "notify" /\ (work.new_data => notifications = <<>>)
    /\ work' = IF ~work.disconnect THEN Idle
               ELSE [op |-> "disconnect", id |-> work.id, reason |-> work.reason, link |-> NoLink]
    /\ UNCHANGED <<chan, slabvars, readyqueue, datavars, phase, linkvars, bufvars>>

------------------------------------------------------------------------------
Init ==
    /\ chan = <<>>
    /\ conns = [id \in Slot |-> Vacant]
    /\ vacant = [i \in 1 .. MaxConnections |-> i - 1]
    /\ connection_map = [c \in Client |-> NoId]
    /\ subscription_map = [f \in Filter |-> {}]
    /\ readyqueue = <<>>
    /\ waiters = [f \in Filter |-> <<>>]
    /\ notifications = <<>>
    /\ log = [f \in Filter |-> 0]
    /\ graveyard = [c \in Client |-> NoSession]
    /\ phase = [at |-> "first", n |-> 0]
    /\ work = Idle
    /\ at = [l \in Link |-> "new"]
    /\ cid = [l \in Link |-> 0]
    /\ ibuf = [l \in Link |-> <<>>]
    /\ obuf = [l \in Link |-> <<>>]
    /\ sig = [l \in Link |-> 0]
    /\ unacked = [l \in Link |-> 0]
    /\ sent = [l \in Link |-> 0]

Packets == \/ Publish \/ Refused \/ Subscribe \/ Denied \/ Unsubscribe \/ PubAck \/ BadAck \/ PingReq
           \/ PacketsEnd \/ Notify \/ PayloadEnd
Consume == \/ ConsumeNone \/ ConsumeBegin \/ NoneLeft \/ IterationsDone \/ InflightFull \/ Forward
Events  == \/ OnConnect \/ OnDeviceData \/ OnDisconnect \/ OnReady
RouterStep ==
    \/ Consume \/ DrainEnd \/ SweepEnd \/ Events
    \/ HandleNewConnection \/ HandleDisconnection \/ Packets

Serve(l) == Opened(l) \/ RouterDrop(l) \/ Exchange(l) \/ Wake(l) \/ NotifyRouter(l)

Next ==
    \/ RouterStep
    \/ \E l \in Link :
        \/ SendConnect(l) \/ ConnAckLost(l) \/ NetError(l) \/ Serve(l)
        \/ \E p \in Sends[l] : NetRead(l, p)

Spec == Init /\ [][Next]_vars

\* The router thread and the link tasks are scheduled, and a client acks what
\* it received.  Nothing makes a client connect or send anything else.
FairSpec ==
    /\ Spec
    /\ WF_vars(RouterStep)
    /\ \A l \in Link : /\ WF_vars(Serve(l))
                        /\ WF_vars(NetRead(l, [type |-> "PubAck"]))
------------------------------------------------------------------------------
TypeOK ==
    /\ chan \in Seq(Event) /\ Len(chan) <= ChannelCapacity
    /\ conns \in [Slot -> Connection \cup {Vacant}]
    /\ \A id \in LiveIds : Len(conns[id].inflight) <= MaxInflight
    /\ vacant \in Seq(Slot) /\ IsInjective(vacant) /\ Range(vacant) = Slot \ LiveIds
    /\ connection_map \in [Client -> Slot \cup {NoId}]
    /\ subscription_map \in [Filter -> SUBSET Slot]
    /\ readyqueue \in Seq(Slot)
    /\ waiters \in [Filter -> Seq(Waiter)]
    /\ notifications \in Seq(Waiter)
    /\ log \in [Filter -> Nat]
    /\ graveyard \in [Client -> {NoSession} \cup
           [saved : {TRUE}, subs : SUBSET Filter, requests : Seq(Request)]]
    /\ phase \in [at : {"first", "recv", "drain", "sweep", "panicked"}, n : Nat]
    /\ at \in [Link -> {"new", "connecting", "serving", "notifying", "waking", "gone", "lost"}]
    /\ cid \in [Link -> Slot]
    /\ ibuf \in [Link -> Seq(Packet)] /\ obuf \in [Link -> Seq(Notification)]
    /\ sig \in [Link -> 0 .. BufferCapacity]
    /\ unacked \in [Link -> Nat] /\ sent \in [Link -> Nat]

\* Where the requests of a live connection may be.
HeldRequests(id) ==
    Range(conns[id].requests)
        \cup (UNION {Range(RequestsOf(waiters[f], id)) : f \in Filter})
        \cup Range(RequestsOf(notifications, id))
        \cup (IF InConsume /\ work.id = id THEN Range(work.requests) ELSE {})

\* No subscription is forgotten: whatever the tracker, the waiters, the
\* notifications, consume and the graveyard pass among themselves, a live or
\* saved subscription always has a request that reads its log.
SubscriptionsServed ==
    /\ \A id \in LiveIds : \A f \in conns[id].subs :
           \E q \in HeldRequests(id) : q.filter = f
    /\ \A c \in Client : graveyard[c].saved =>
           \A f \in graveyard[c].subs :
               \E q \in Range(graveyard[c].requests) : q.filter = f

\* handle_disconnection leaves no waiter behind: a later owner of the id
\* would be sent messages of a filter it never subscribed to, and a publish
\* in between would make track() unwrap a vacant entry.
WaitersLive ==
    /\ \A f \in Filter : \A w \in Range(waiters[f]) : Live(w.id) /\ w.request.filter = f
    /\ \A w \in Range(notifications) : Live(w.id)

\* No lost wake-up: a request parked in the waiters of a log has read all of
\* it, whenever it parked and whatever was appended meanwhile.
ParkedIsCaughtUp ==
    \A f \in Filter : \A w \in Range(waiters[f]) : w.request.cursor = log[f]

\* A connection in state Ready will be polled, and pause() finds the
\* connection it pauses at the back of the queue (assert_eq in pause).
ReadyIsQueued ==
    /\ \A id \in LiveIds : conns[id].status = "Ready" => Contains(readyqueue, id)
    /\ InConsume => readyqueue # <<>> /\ Last(readyqueue) = work.id

\* The handler under way ends with the disconnection of id.
Doomed(id) ==
    \/ work.op \in {"packets", "notify"} /\ work.id = id /\ work.disconnect
    \/ work.op = "disconnect" /\ work.id = id

\* A connection paused as Busy gets its Ready: an Unschedule is in the buffer
\* its link serves, with a signal pending, or the link is about to send Ready,
\* or the event is in the channel.
BusyWillWake ==
    \A id \in LiveIds :
        LET l == conns[id].link IN
        conns[id].status = "Busy" /\ at[l] \in {"connecting"} \cup Serving =>
            \/ Contains(obuf[l], "Unschedule") /\ sig[l] > 0
            \/ at[l] = "waking"
            \/ \E e \in Range(chan) : e.event = "Ready" /\ e.id = id

\* subscription_map names live connections that do hold the subscription: an
\* id is taken off the map before it is reused.
SubscriptionMapSound ==
    \A f \in Filter : \A id \in subscription_map[f] : Live(id) /\ f \in conns[id].subs

\* No connection outlives its link unnoticed: a link serves it, or the
\* Disconnect of that link is on its way.  The one exception is a link whose
\* CONNACK could not be written.
ConnectionsHaveLinks ==
    \A id \in LiveIds :
        LET l == conns[id].link IN
        \/ at[l] \in {"connecting", "lost"} \cup Serving
        \/ \E e \in Range(chan) : e.event = "Disconnect" /\ e.link = l /\ e.id = id
        \/ Doomed(id)
\* What the code says of the events of run_inner: "All these methods will
\* handle state and errors" (routing.rs:211).
EventsHandled == phase.at # "panicked"

\* handle_disconnection takes a second Disconnect of a link for one of a
\* connection "already gone" (routing.rs:414): a Disconnect ends no connection
\* but that of the link that sent it.
OwnDisconnectOnly ==
    [][OnDisconnect /\ Live(Head(chan).id) => conns[Head(chan).id].link = Head(chan).link]_vars

\* A subscriber does not stay behind: while its link serves it, whatever was
\* appended to the logs it reads is pushed, and what was pushed is taken,
\* through every pause of its tracker and every race of a publish with a park.
Behind(l) ==
    /\ at[l] \in Serving
    /\ \E id \in LiveIds :
        /\ conns[id].link = l
        /\ obuf[l] # <<>> \/ \E q \in HeldRequests(id) : q.cursor < log[q.filter]
Delivery == \A l \in Link : Behind(l) ~> ~Behind(l)

\* A CONNECT does not hang: it is answered, or the link sees the router drop
\* it (takeover, no room).
ConnectAnswered == \A l \in Link : at[l] = "connecting" ~> at[l] # "connecting"
==============================================================================
