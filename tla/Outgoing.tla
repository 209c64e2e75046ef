------------------------------ MODULE Outgoing ------------------------------
(***************************************************************************)
(* What the router keeps for the packets it has sent to one client with     *)
(* QoS 1 or 2 (src/crates/rumqttd/src/router/iobufs.rs) across the          *)
(* disconnections of a persistent session: the window of inflight publishes,*)
(* the packet ids, the PubRels awaiting a PubComp, and the cursors of the   *)
(* session's data requests.  The callers are handle_device_payload (acks),  *)
(* consume / forward_device_data (pushes), handle_disconnection and          *)
(* handle_new_connection in router/routing.rs.                              *)
(*                                                                         *)
(* A log is its length, a cursor the number of a message (ReplayLog shows    *)
(* that segments do not matter).  A request with QoS 0 takes no slot and is *)
(* left out; PubAck and PubRec both free one.                               *)
(***************************************************************************)
EXTENDS Integers, Sequences

CONSTANTS Request,       \* the data requests of the session
          Filter,        \* filter indices
          FilterIdx,     \* FilterIdx[q]: DataRequest::filter_idx of q
          MaxRetained,   \* retained messages a filter may match
          MaxInflight    \* MAX_INFLIGHT = MAX_PKID

ASSUME OutgoingAssumption ==
    /\ FilterIdx \in [Request -> Filter]
    /\ MaxRetained \in Nat
    /\ MaxInflight \in Nat \ {0}

VARIABLES log,              \* log[f]: number of messages appended to f
          up,               \* there is a connection
          subscribed,       \* requests that exist
          from,             \* from[q]: where q's subscription started
          cursor,           \* cursor[q]: DataRequest::cursor
          forward_retained, \* requests with forward_retained still set
          inflight,         \* inflight_buffer
          last_pkid,
          unacked_pubrels,
          committed,        \* PubRels in AckLog::committed, not yet in the send buffer
          acked,            \* acked[f]: messages the client acknowledged
          dropped           \* dropped[f]: messages popped by an ack of another id

reqvars == <<subscribed, from, cursor, forward_retained>>
vars == <<log, up, subscribed, from, cursor, forward_retained, inflight, last_pkid,
          unacked_pubrels, committed, acked, dropped>>

NoCursor == -1                      \* None: the publish was a retained one
Pkid     == 1 .. MaxInflight
Slot     == [pkid : Pkid, filter_idx : Filter, cursor : Nat \cup {NoCursor}]

Init ==
    /\ log = [f \in Filter |-> 0]
    /\ up = TRUE
    /\ subscribed = {}
    /\ from = [q \in Request |-> 0]
    /\ cursor = [q \in Request |-> 0]
    /\ forward_retained = {}
    /\ inflight = <<>>
    /\ last_pkid = 0
    /\ unacked_pubrels = <<>>
    /\ committed = <<>>
    /\ acked = [f \in Filter |-> {}]
    /\ dropped = [f \in Filter |-> {}]

------------------------------------------------------------------------------
\* A publish that matches filter f is appended to its log.
Publish(f) ==
    /\ log' = [log EXCEPT ![f] = @ + 1]
    /\ UNCHANGED <<up, reqvars, inflight, last_pkid, unacked_pubrels, committed,
                   acked, dropped>>

\* prepare_filter: a new request starts at the end of the log.
Subscribe(q) ==
    /\ up
    /\ q \notin subscribed
    /\ subscribed' = subscribed \cup {q}
    /\ forward_retained' = forward_retained \cup {q}
    /\ from' = [from EXCEPT ![q] = log[FilterIdx[q]]]
    /\ cursor' = [cursor EXCEPT ![q] = log[FilterIdx[q]]]
    /\ UNCHANGED <<log, up, inflight, last_pkid, unacked_pubrels, committed, acked, dropped>>

\* ack_device_data: `consume' first moves the pending acks to the send buffer.
AckDeviceData ==
    /\ up
    /\ committed' = <<>>
    /\ UNCHANGED <<log, up, reqvars, inflight, last_pkid, unacked_pubrels, acked, dropped>>

\* Slip: one slot too many.
FreeSlotsOffByOne == MaxInflight + 1 - Len(inflight)

free_slots == MaxInflight - Len(inflight)

\* Slips: the id never starts again, or does one early.
ResetNever(p) == p
ResetEarly(p) == IF p >= MaxInflight - 1 THEN 0 ELSE p

\* push_forwards: packet ids follow last_pkid; the id MAX_PKID is followed by 1.
Wrap(p)  == IF p > MaxInflight THEN p - MaxInflight ELSE p
Reset(p) == IF p = MaxInflight THEN 0 ELSE p

Forward(q, retained, i) ==           \* the i-th one; the retained ones come first
    [pkid       |-> Wrap(last_pkid + i),
     filter_idx |-> FilterIdx[q],
     cursor     |-> IF i <= retained THEN NoCursor ELSE cursor[q] + (i - retained) - 1]

PushForwards(q, retained, read) ==
    /\ inflight' = inflight \o [i \in 1 .. retained + read |-> Forward(q, retained, i)]
    /\ last_pkid' = IF retained + read = 0 THEN last_pkid
                    ELSE Reset(Wrap(last_pkid + (retained + read)))

\* Slip: the acks are moved to the send buffer behind the publishes.
ForwardBeforeAcks(q) ==
    /\ up
    /\ q \in subscribed
    /\ free_slots > 0
    /\ LET unread == log[FilterIdx[q]] - cursor[q]
           read   == IF unread > free_slots THEN free_slots ELSE unread
       IN  /\ PushForwards(q, 0, read)
           /\ cursor' = [cursor EXCEPT ![q] = @ + read]
    /\ UNCHANGED <<log, up, subscribed, from, forward_retained, unacked_pubrels, committed,
                   acked, dropped>>

\* forward_device_data for one request, in a `consume' that has moved the acks:
\* retained messages once, then from the log, into no more than the free slots
\* (InflightFull, and nothing happens, when there is none).
ForwardDeviceData(q) ==
    /\ up
    /\ q \in subscribed
    /\ free_slots > 0
    /\ \E matching \in 0 .. MaxRetained :
          LET retained == IF q \notin forward_retained THEN 0
                          ELSE IF matching > free_slots THEN free_slots ELSE matching
              slots    == free_slots - retained
              unread   == log[FilterIdx[q]] - cursor[q]
              read     == IF unread > slots THEN slots ELSE unread
          IN  /\ PushForwards(q, retained, read)
              /\ cursor' = [cursor EXCEPT ![q] = @ + read]
    /\ forward_retained' = forward_retained \ {q}
    /\ committed' = <<>>
    /\ UNCHANGED <<log, up, subscribed, from, unacked_pubrels, acked, dropped>>

------------------------------------------------------------------------------
\* retransmission_map: for each filter, the first cursor found in `window'.
HasCursor(window, f) ==
    \E i \in 1 .. Len(window) : window[i].filter_idx = f /\ window[i].cursor # NoCursor

LastCursor(window, f) ==             \* Slip: a later entry overwrites the first.
    window[CHOOSE i \in 1 .. Len(window) :
             /\ window[i].filter_idx = f /\ window[i].cursor # NoCursor
             /\ \A j \in i + 1 .. Len(window) : window[j].filter_idx # f \/ window[j].cursor = NoCursor
          ].cursor

FirstCursor(window, f) ==
    window[CHOOSE i \in 1 .. Len(window) :
             /\ window[i].filter_idx = f /\ window[i].cursor # NoCursor
             /\ \A j \in 1 .. i - 1 : window[j].filter_idx # f \/ window[j].cursor = NoCursor
          ].cursor

\* Slip: the window of the old connection is kept.
DisconnectKeepingWindow(window) ==
    /\ up' = FALSE
    /\ cursor' = [q \in Request |->
                    IF q \in subscribed /\ HasCursor(window, FilterIdx[q])
                    THEN FirstCursor(window, FilterIdx[q]) ELSE cursor[q]]
    /\ inflight' = window
    /\ last_pkid' = last_pkid
    /\ committed' = <<>>

\* handle_disconnection of a persistent session whose inflight window is
\* `window': the requests go back to the first message in flight.
Disconnect(window) ==
    /\ up' = FALSE
    /\ cursor' = [q \in Request |->
                    IF q \in subscribed /\ HasCursor(window, FilterIdx[q])
                    THEN FirstCursor(window, FilterIdx[q]) ELSE cursor[q]]
    /\ inflight' = <<>>
    /\ last_pkid' = 0
    /\ committed' = <<>>

LinkLost ==
    /\ up
    /\ Disconnect(inflight)
    /\ UNCHANGED <<log, subscribed, from, forward_retained, unacked_pubrels, acked, dropped>>

\* handle_new_connection, session resumed: PubRels are sent again.
Connect ==
    /\ ~up
    /\ up' = TRUE
    /\ committed' = unacked_pubrels
    /\ UNCHANGED <<log, reqvars, inflight, last_pkid, unacked_pubrels, acked, dropped>>

------------------------------------------------------------------------------
\* register_ack pops the head whatever the id; another id, or an empty window,
\* ends the connection in the same handler.
Settled(sets, slot) ==
    IF slot.cursor = NoCursor THEN sets
    ELSE [sets EXCEPT ![slot.filter_idx] = @ \cup {slot.cursor}]

Solicited(p) == inflight # <<>> /\ p = Head(inflight).pkid
Completes(p) == unacked_pubrels # <<>> /\ p = Head(unacked_pubrels)

Acknowledge(p) ==
    /\ Solicited(p)
    /\ inflight' = Tail(inflight)
    /\ acked' = Settled(acked, Head(inflight))
    /\ UNCHANGED <<log, up, reqvars, last_pkid, dropped>>

BadAck(p) ==
    /\ up
    /\ ~Solicited(p)
    /\ \/ inflight = <<>> /\ UNCHANGED dropped /\ Disconnect(inflight)
       \/ /\ inflight # <<>>
          /\ dropped' = Settled(dropped, Head(inflight))
          /\ Disconnect(Tail(inflight))
    /\ UNCHANGED <<log, subscribed, from, forward_retained, unacked_pubrels, acked>>

PubAck(p) ==
    /\ up
    /\ Acknowledge(p)
    /\ UNCHANGED <<unacked_pubrels, committed>>

PubRec(p) ==
    /\ up
    /\ Acknowledge(p)
    /\ unacked_pubrels' = Append(unacked_pubrels, p)        \* register_pubrec
    /\ committed' = Append(committed, p)                    \* ackslog.pubrel

\* register_pubcomp: the same discipline for the PubRels.
PubComp(p) ==
    /\ up
    /\ Completes(p)
    /\ unacked_pubrels' = Tail(unacked_pubrels)
    /\ UNCHANGED <<log, up, reqvars, inflight, last_pkid, committed, acked, dropped>>

BadPubComp(p) ==
    /\ up
    /\ ~Completes(p)
    /\ unacked_pubrels' = IF unacked_pubrels = <<>> THEN <<>> ELSE Tail(unacked_pubrels)
    /\ Disconnect(inflight)
    /\ UNCHANGED <<log, subscribed, from, forward_retained, acked, dropped>>

Next ==
    \/ \E f \in Filter : Publish(f)
    \/ \E q \in Request : Subscribe(q) \/ ForwardDeviceData(q)
    \/ AckDeviceData
    \/ \E p \in Pkid : PubAck(p) \/ PubRec(p) \/ BadAck(p) \/ PubComp(p) \/ BadPubComp(p)
    \/ LinkLost
    \/ Connect

Spec == Init /\ [][Next]_vars

------------------------------------------------------------------------------
\* Properties

\* The shape of the state.
TypeOK ==
    /\ log \in [Filter -> Nat]
    /\ up \in BOOLEAN
    /\ subscribed \subseteq Request
    /\ from \in [Request -> Nat]
    /\ cursor \in [Request -> Nat]
    /\ forward_retained \subseteq Request
    /\ inflight \in Seq(Slot)
    /\ last_pkid \in 0 .. MaxInflight - 1
    /\ unacked_pubrels \in Seq(Pkid)
    /\ committed \in Seq(Pkid)
    /\ acked \in [Filter -> SUBSET Nat]
    /\ dropped \in [Filter -> SUBSET Nat]

\* No more publishes are in flight than MAX_INFLIGHT ("More inflight publishes
\* than max allowed" is never logged), so free_slots never underflows; and,
\* ids being reused in a ring of the same size, no two carry the same id.
WindowBounded == Len(inflight) <= MaxInflight

PkidsDistinct ==
    \A i, j \in 1 .. Len(inflight) : inflight[i].pkid = inflight[j].pkid => i = j

\* The first cursor of a filter in the window is its least one: the assumption
\* stated on retransmission_map.  It needs one request per filter index.
FirstIsLeast ==
    \A i \in 1 .. Len(inflight) :
        inflight[i].cursor # NoCursor =>
            FirstCursor(inflight, inflight[i].filter_idx) <= inflight[i].cursor

\* Between where its subscription started and its cursor, a request has passed
\* no message that is not acknowledged, in flight, or popped by a bad ack: what
\* is sent with QoS 1 or 2 survives any sequence of disconnections.
InWindow(f) == {inflight[i].cursor : i \in {j \in 1 .. Len(inflight) : inflight[j].filter_idx = f}}

NothingLost ==
    \A q \in subscribed : \A n \in from[q] .. cursor[q] - 1 :
        n \in acked[FilterIdx[q]] \cup dropped[FilterIdx[q]] \cup InWindow(FilterIdx[q])

\* A PubRel not yet handed to the link names no publish in flight: an id is
\* reused only behind the PubRel of its previous use, which a client must see
\* first to tell the new message from a duplicate of the old one.
PubRelBeforeReuse ==
    \A i \in 1 .. Len(committed), j \in 1 .. Len(inflight) :
        committed[i] # inflight[j].pkid
==============================================================================
