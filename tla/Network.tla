------------------------------ MODULE Network ------------------------------
(***************************************************************************)
(* One direction of an MQTT connection: the writing half of a Network      *)
(* (link/network.rs) at one end, at the other end its reading half as      *)
(* RemoteLink::start drives it (link/remote.rs), and the link buffer the   *)
(* router drains.  Both ends can be this code: the broker, and the bridge  *)
(* of another broker.                                                      *)
(*                                                                         *)
(* The reader frames packets out of whatever chunks the socket yields.     *)
(* It is one branch of a select!: whenever the other branch (notifications *)
(* of the router) completes first, the pending read is dropped and started *)
(* again, with the bytes it had gathered but without its counters and its  *)
(* timer.                                                                  *)
(***************************************************************************)
EXTENDS Integers, SequencesExt, Wire

CONSTANTS
  Batches,           \* for "v4" and "v5": the packet sequences a writer may send
  MaxIncomingSize,   \* max_payload_size: the largest remaining length read
  MaxBufferLen,      \* max_connection_buffer_len: packets read in bulk
  KeepAlive,         \* 1.5 times the keep alive of CONNECT, in ticks
  MaxPending,        \* capacity of the router's event channel
  MaxQuiet,          \* bound on the count of silent ticks (not in the code)
  FineBytes          \* bytes of a frame that may arrive one by one (not in the code)

ASSUME NetworkAssumption ==
  /\ KeepAlive \in Nat \ {0} /\ MaxBufferLen \in Nat \ {0} /\ MaxPending \in Nat \ {0}
  /\ MaxQuiet \in Nat /\ MaxQuiet >= KeepAlive /\ FineBytes \in Nat

(* A CONNECT opens its connection: it is the first packet of its batch.     *)
ASSUME BatchesAssumption ==
  \A pr \in DOMAIN Batches : \A batch \in Batches[pr] :
    /\ batch \in Seq(ToSet(batch)) /\ batch # <<>>
    /\ \A i \in DOMAIN batch : batch[i].type = "connect" => i = 1

VARIABLES
  protocol,    \* the codec of both ends
  sender,      \* "up", "closed", "failed" (a write failed) or "panicked"
  sent,        \* packets whose bytes went out whole
  torn,        \* a failed write cut a packet in the middle
  wire,        \* bytes in flight
  read,        \* Network::read, the bytes not framed yet
  status,      \* what the reading task does, or how it ended
  required,    \* bytes read_bytes was asked for
  total_read,  \* bytes it has got
  timer,       \* ticks since this read_bytes began
  quiet,       \* ticks since the last packet was read
  packets,     \* the link's buffer of packets
  pending,     \* DeviceData events of this link the router has not handled
  delivered    \* packets the router has taken

sending == <<protocol, sender, sent, torn>>
reading == <<read, required, total_read, timer, quiet>>
vars    == <<sending, wire, reading, status, packets, pending, delivered>>

V4 == INSTANCE CodecV4
V5 == INSTANCE CodecV5
Protocol == INSTANCE Packets

Write(pr, p) == IF pr = "v4" THEN V4!Write(p) ELSE V5!Write(p)

Unpack(pr, h, type, body) ==
  IF pr = "v4" THEN V4!Unpack(h, type, body) ELSE V5!Unpack(h, type, body)

(* The next packet of a stream, if the stream holds it whole, and the stream *)
(* without its frame, which is gone also when its body cannot be read.       *)
ReadFrame(s, h) ==
  [got |-> IF h.byte1 \div 16 \notin DOMAIN PacketTypes THEN Fail("InvalidPacketType")
           ELSE Unpack(protocol, h, PacketTypes[h.byte1 \div 16],
                       SubSeq(s, h.hlen + 1, FrameLength(h))),
   stream |-> SubSeq(s, FrameLength(h) + 1, Len(s))]

ReadFramed(s, c) == IF c.err # "ok" THEN [got |-> c, stream |-> s] ELSE ReadFrame(s, c.val)

ReadMut(s) == ReadFramed(s, Check(s, MaxIncomingSize))

Init ==
  /\ protocol \in DOMAIN Batches
  /\ sender = "up" /\ sent = <<>> /\ torn = FALSE /\ wire = <<>>
  /\ read = <<>> /\ required = 0 /\ total_read = 0 /\ timer = 0 /\ quiet = 0
  /\ status = "ready" /\ packets = <<>> /\ pending = 0 /\ delivered = <<>>

-----------------------------------------------------------------------------
(* A publish on its way through the router: stored without the publisher's  *)
(* topic alias and retain flag, then handed to a subscriber's link with the *)
(* subscription's QoS, the alias the broker uses for that subscriber and    *)
(* the identifier of the subscription, if there are any.  A topic whose     *)
(* alias the subscriber knows is left out.                                  *)

Stored(p) ==
  [p EXCEPT !.retain = FALSE,
            !.props = {[n \in DOMAIN q \ {"topic_alias"} |-> q[n]] : q \in @}]

Forwarded(p, qos, pkid, alias, known, id) ==
  LET added == (IF alias = {} THEN <<>> ELSE "topic_alias" :> The(alias))
               @@ (IF id = {} THEN <<>> ELSE "subscription_identifiers" :> <<The(id)>>)
  IN [p EXCEPT !.qos = qos, !.pkid = pkid,
               !.topic = IF known THEN <<>> ELSE @,
               !.props = IF DOMAIN added = {} THEN @
                         ELSE {added @@ q : q \in IF @ = {} THEN {<<>>} ELSE @}]

-----------------------------------------------------------------------------
(* The writing end. *)

(* A packet goes to the end of the write buffer; a CONNECT then sets its    *)
(* flags at an index of the whole buffer.                                   *)
Patched(bytes, w) ==
  IF "patch" \in DOMAIN w THEN [bytes EXCEPT ![w.patch[1] + 1] = w.patch[2]] ELSE bytes

PutOne(buffer, w) ==
  IF w.err # "ok" THEN [buffer EXCEPT !.err = w.err]
  ELSE [err |-> "ok", ends |-> Append(buffer.ends, Len(buffer.bytes) + Len(w.bytes)),
        bytes |-> Patched(buffer.bytes \o w.bytes, w)]

Put(buffer, p) == IF buffer.err # "ok" THEN buffer ELSE PutOne(buffer, Write(protocol, p))

PutAll(batch) ==
  LET put[i \in 0 .. Len(batch)] ==
        IF i = 0 THEN [err |-> "ok", ends |-> <<>>, bytes |-> <<>>]
        ELSE Put(put[i - 1], batch[i])
  IN put[Len(batch)]

(* write_all puts n bytes of the buffer on the wire; short of all of them   *)
(* the connection is lost.                                                  *)
Flush(batch, buffer, n) ==
  LET whole == Cardinality({i \in DOMAIN batch : buffer.ends[i] <= n}) IN
  /\ wire' = wire \o SubSeq(buffer.bytes, 1, n)
  /\ sent' = SubSeq(batch, 1, whole)
  /\ torn' = (n # 0 /\ n \notin ToSet(buffer.ends))
  /\ sender' = IF n = Len(buffer.bytes) THEN sender ELSE "failed"

Flushed(batch, buffer) ==
  \/ /\ buffer.err = "ok"
     /\ \E n \in {Len(buffer.bytes), buffer.ends[1], Len(buffer.bytes) \div 2} :
          Flush(batch, buffer, n)
  \/ /\ buffer.err # "ok"
     /\ sender' = IF buffer.err = "unreachable" THEN "panicked" ELSE "failed"
     /\ UNCHANGED <<sent, torn, wire>>

(* A batch is written once: a second one would only lengthen the wire. *)
Writev(batch) ==
  /\ sender = "up" /\ sent = <<>>
  /\ Flushed(batch, PutAll(batch))
  /\ UNCHANGED <<protocol, reading, status, packets, pending, delivered>>

Close ==
  /\ sender = "up"
  /\ sender' = "closed"
  /\ UNCHANGED <<protocol, sent, torn, wire, reading, status, packets, pending, delivered>>

-----------------------------------------------------------------------------
(* The reading end. *)

Failure(err) == IF err = "unreachable" THEN "panicked" ELSE "error"

(* What becomes of a stream and a queue whose next packet r is.  While the   *)
(* loop of readv goes on its status is "more"; at its end it is that of the  *)
(* reader behind it.                                                        *)
PushOn(r, queue) ==
  IF r.got.err = "ok"
  THEN [status |-> IF Len(queue) + 1 < MaxBufferLen THEN "more" ELSE "notify",
        stream |-> r.stream, queue |-> Append(queue, r.got.val)]
  ELSE [status |-> IF r.got.err = "InsufficientBytes" THEN "notify" ELSE Failure(r.got.err),
        stream |-> r.stream, queue |-> queue]

ReadOn(v) == IF v.status # "more" THEN v ELSE PushOn(ReadMut(v.stream), v.queue)

(* readv: more packets of the same bytes, up to the buffer's limit. *)
Readv(stream, queue) ==
  LET turn[i \in 0 .. MaxBufferLen] ==
        IF i = 0 THEN [status |-> "more", stream |-> stream, queue |-> queue]
        ELSE ReadOn(turn[i - 1])
  IN turn[MaxBufferLen]

(* A first packet, and the readv behind it.  A failure of readv ends the    *)
(* link before it announces what it has read.                               *)
PushAll(v) ==
  /\ read' = v.stream /\ packets' = v.queue /\ status' = v.status
  /\ quiet' = 0
  /\ UNCHANGED <<required, total_read, timer>>

(* Slip: the timer of an earlier read runs on. *)
SlipOutcome(r) ==
  \/ r.got.err = "ok" /\ PushAll(Readv(r.stream, Append(packets, r.got.val)))
  \/ /\ r.got.err = "InsufficientBytes"
     /\ read' = r.stream /\ required' = r.got.need /\ total_read' = 0
     /\ status' = "waiting"
     /\ UNCHANGED <<timer, quiet, packets>>
  \/ /\ r.got.err \notin {"ok", "InsufficientBytes"}
     /\ read' = r.stream /\ status' = Failure(r.got.err)
     /\ UNCHANGED <<required, total_read, timer, quiet, packets>>

Outcome(r) ==
  \/ r.got.err = "ok" /\ PushAll(Readv(r.stream, Append(packets, r.got.val)))
  \/ /\ r.got.err = "InsufficientBytes"
     /\ read' = r.stream /\ required' = r.got.need /\ total_read' = 0 /\ timer' = 0
     /\ status' = "waiting"
     /\ UNCHANGED <<quiet, packets>>
  \/ /\ r.got.err \notin {"ok", "InsufficientBytes"}
     /\ read' = r.stream /\ status' = Failure(r.got.err)
     /\ UNCHANGED <<required, total_read, timer, quiet, packets>>

(* Network::read up to its await. *)
Read ==
  /\ status = "ready"
  /\ Outcome(ReadMut(read))
  /\ UNCHANGED <<sending, wire, pending, delivered>>

(* read_bytes: the socket yields n bytes, the first of a frame in every     *)
(* possible way, the others all, or all but the last.                       *)
ChunkSizes == {Len(wire), Len(wire) - 1} \cup (IF Len(read) < FineBytes THEN {1} ELSE {})

Arrive(n) ==
  /\ status = "waiting" /\ n \in 1 .. Len(wire)
  /\ read' = read \o SubSeq(wire, 1, n)
  /\ wire' = SubSeq(wire, n + 1, Len(wire))
  /\ total_read' = total_read + n
  /\ status' = IF total_read + n >= required THEN "ready" ELSE "waiting"
  /\ UNCHANGED <<sending, required, timer, quiet, packets, pending, delivered>>

(* Slip: tells a cut packet by what the last read got. *)
SlipEof ==
  /\ status = "waiting" /\ wire = <<>> /\ sender # "up"
  /\ status' = IF total_read = 0 THEN "aborted" ELSE "reset"
  /\ UNCHANGED <<sending, wire, reading, packets, pending, delivered>>

Eof ==
  /\ status = "waiting" /\ wire = <<>> /\ sender # "up"
  /\ status' = IF read = <<>> THEN "aborted" ELSE "reset"
  /\ UNCHANGED <<sending, wire, reading, packets, pending, delivered>>

(* Slip: the bytes gathered go with the dropped read. *)
SlipCancel ==
  /\ status = "waiting"
  /\ status' = "ready" /\ read' = <<>>
  /\ UNCHANGED <<sending, wire, required, total_read, timer, quiet, packets, pending, delivered>>

(* The other branch of select! wins and its notifications are written.      *)
Cancel ==
  /\ status = "waiting"
  /\ status' = "ready"
  /\ UNCHANGED <<sending, wire, reading, packets, pending, delivered>>

TimeOut ==
  /\ status = "waiting" /\ timer >= KeepAlive
  /\ status' = "keepalive"
  /\ UNCHANGED <<sending, wire, reading, packets, pending, delivered>>

(* Time passes while the task awaits; a timer that is up goes off first. *)
Tick ==
  /\ \/ status = "waiting" /\ timer < KeepAlive /\ timer' = timer + 1
     \/ status = "notify" /\ UNCHANGED timer
  /\ quiet' = IF quiet < MaxQuiet THEN quiet + 1 ELSE quiet
  /\ UNCHANGED <<sending, wire, read, required, total_read, status, packets, pending, delivered>>

(* link_tx.notify().await: blocked while the router's channel is full. *)
Notify ==
  /\ status = "notify" /\ pending < MaxPending
  /\ pending' = pending + 1
  /\ status' = "ready"
  /\ UNCHANGED <<sending, wire, reading, packets, delivered>>

(* Slip: the router copies the buffer instead of swapping it. *)
SlipTake ==
  /\ pending > 0
  /\ pending' = pending - 1
  /\ delivered' = delivered \o packets
  /\ UNCHANGED <<sending, wire, reading, status, packets>>

(* The router handles a DeviceData event: it swaps the buffer for an empty  *)
(* one, which an earlier event may have done already.                       *)
Take ==
  /\ pending > 0
  /\ pending' = pending - 1
  /\ delivered' = delivered \o packets
  /\ packets' = <<>>
  /\ UNCHANGED <<sending, wire, reading, status>>

Next ==
  \/ \E batch \in Batches[protocol] : Writev(batch)
  \/ Close
  \/ Read
  \/ \E n \in ChunkSizes : Arrive(n)
  \/ Eof
  \/ Cancel
  \/ TimeOut
  \/ Tick
  \/ Notify
  \/ Take

Spec == Init /\ [][Next]_vars

-----------------------------------------------------------------------------
(* What the reader of a packet is to see: an empty property list and no     *)
(* list are one and the same on the wire.                                   *)
Seen(p) ==
  [p EXCEPT !.props = IF @ # {} /\ DOMAIN (CHOOSE x \in @ : TRUE) = {} THEN {} ELSE @]

SeenAll(ps) == [i \in DOMAIN ps |-> Seen(ps[i])]

Incoming == delivered \o packets

(* The body of a frame as the reader of its type sees it, also where the    *)
(* broker has no use for the packet and panics.                             *)
BodyRead(pr, h, type, body) ==
  IF pr = "v5" /\ type \in {"connack", "unsuback"} THEN V5!ReadBody(type, h, body)
  ELSE Unpack(pr, h, type, body)

ReadsBack(p, r) == r.err = "ok" /\ r.val = Seen(p)

(* The frame f of p: the header h of f tells its type and its length, and   *)
(* its body reads back as p.                                                *)
FrameAgrees(pr, p, f, h) ==
  /\ h.err = "ok" /\ FrameLength(h.val) = Len(f)
  /\ h.val.byte1 \div 16 \in DOMAIN PacketTypes /\ PacketTypes[h.val.byte1 \div 16] = p.type
  /\ ReadsBack(p, BodyRead(pr, h.val, p.type, SubSeq(f, h.val.hlen + 1, Len(f))))

FrameOf(pr, p, f) == f \in Seq(0 .. 255) /\ FrameAgrees(pr, p, f, ParseFixedHeader(f))

(* What the writer w of p returns: the size it reports is that of its bytes, *)
(* and they are a frame of p.                                               *)
FrameWhole(pr, p, w) ==
  /\ w.size = Len(w.bytes) /\ w.bytes \in Seq(0 .. 255)
  /\ FrameOf(pr, p, Patched(w.bytes, w)) /\ Protocol!IsPacket(Seen(p))

(* Type correctness: the states of the two ends, bytes in flight, and the   *)
(* packets read, which are whole packets of protocol/mod.rs.                *)
TypeOK ==
  /\ sender \in {"up", "closed", "failed", "panicked"}
  /\ status \in {"ready", "waiting", "notify", "aborted", "reset", "keepalive", "error", "panicked"}
  /\ Protocol!IsBytes(wire) /\ Protocol!IsBytes(read)
  /\ \A i \in DOMAIN packets : Protocol!IsPacket(packets[i])
  /\ pending \in 0 .. MaxPending /\ timer \in 0 .. KeepAlive /\ quiet \in 0 .. MaxQuiet

(***************************************************************************)
(* Whatever chunks the socket yields, however often the other branch of     *)
(* select! drops the pending read (link/network.rs:73), packets reach the   *)
(* router whole, in the order written, none lost in between and none twice. *)
(***************************************************************************)
InOrder == IsPrefix(Incoming, SeenAll(sent))

(***************************************************************************)
(* When the reader waits and nothing is in flight, nothing is left behind:  *)
(* unless a failed write tore a packet, every packet sent has been read and *)
(* the read buffer is empty; and a packet in the link's buffer has a        *)
(* DeviceData event still to come (link/remote.rs:138-149).                 *)
(***************************************************************************)
NothingLeftBehind ==
  /\ status = "waiting" /\ wire = <<>> => Incoming = SeenAll(sent) /\ (read = <<>> \/ torn)
  /\ packets # <<>> => pending > 0 \/ status \in {"notify", "error", "panicked"}

(***************************************************************************)
(* A connection that ends is told apart rightly (link/network.rs:77-85):    *)
(* every packet that arrived whole has been read, "reset by peer" means the *)
(* last one was cut, "closed by peer" that none was.                        *)
(***************************************************************************)
EndToldRight ==
  status \in {"aborted", "reset"} =>
    /\ Incoming = SeenAll(sent)
    /\ torn <=> status = "reset"

(***************************************************************************)
(* A keep alive timeout only ends a connection that has been silent for 1.5 *)
(* times its keep alive (link/network.rs:66-69, 109), although the timer is *)
(* restarted by chunks and by the router's notifications.                   *)
(***************************************************************************)
KeepAliveNotEarly == status = "keepalive" => quiet >= KeepAlive

(* What codec pr writes of its batches it reads back, as far as it writes    *)
(* at all.                                                                  *)
FramesOf(pr) ==
  \A batch \in Batches[pr] : \A i \in DOMAIN batch :
    Write(pr, batch[i]).err = "ok" => FrameWhole(pr, batch[i], Write(pr, batch[i]))

(***************************************************************************)
(* The length functions and the writers of the codecs are separate code     *)
(* (protocol/v4, protocol/v5): for every packet of every batch that can     *)
(* still be written, the size returned, the bytes appended and the length   *)
(* in the header are the same, the header names the packet's type, and the  *)
(* packet's reader gets the packet back from its body.                      *)
(***************************************************************************)
FramesReadBack == sender = "up" /\ sent = <<>> => FramesOf(protocol)

(***************************************************************************)
(* Doc claim, protocol/v4/mod.rs:365: the arm of V4::write for packets with *)
(* properties is unreachable, "which is not possible in v4".                *)
(***************************************************************************)
WriterNeverPanics == sender # "panicked"
=============================================================================
