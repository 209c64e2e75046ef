-------------------------------- MODULE Wire --------------------------------
(***************************************************************************)
(* The byte level both MQTT codecs of the broker are built from            *)
(* (rumqttd, protocol/v4/mod.rs and protocol/v5/mod.rs): big endian        *)
(* integers, length-prefixed strings, the variable-length "remaining       *)
(* length", the fixed header, and the property lists of MQTT 5.            *)
(*                                                                         *)
(* A stream is a sequence of bytes.  A reader returns an outcome: Got(v,   *)
(* rest), the value and the bytes it leaves, or Fail(e).  Strings are byte *)
(* sequences; their UTF-8 check is left out.  An Option is a set with at   *)
(* most one element.                                                       *)
(***************************************************************************)
EXTENDS Integers, SequencesExt

None == {}
Some(x) == {x}
The(option) == CHOOSE x \in option : TRUE

Got(v, rest) == [err |-> "ok", val |-> v, rest |-> rest]
Fail(e)      == [err |-> e]
Short(n)     == [err |-> "InsufficientBytes", need |-> n]
(* The `?` of the readers: stop at the first failure. *)
Then(r, Next(_, _)) == IF r.err # "ok" THEN r ELSE Next(r.val, r.rest)

Bit(n, mask) == (n \div mask) % 2 = 1
BitIf(b, mask) == IF b THEN mask ELSE 0

-----------------------------------------------------------------------------
(* Variable-length integers. *)

LenLen(n) == IF n >= 2097152 THEN 4 ELSE IF n >= 16384 THEN 3 ELSE IF n >= 128 THEN 2 ELSE 1

(* Seven bits a byte, the lowest first. *)
Weight == <<1, 128, 16384, 2097152>>

VarInt(n) ==
  [i \in 1 .. LenLen(n) |->
     ((n \div Weight[i]) % 128) + (IF i < LenLen(n) THEN 128 ELSE 0)]

LengthOf(bytes) ==
  LET part(i) == IF i <= Len(bytes) THEN (bytes[i] % 128) * Weight[i] ELSE 0
  IN part(1) + part(2) + part(3) + part(4)

ReadLength(s) ==
  LET ends == {i \in 1 .. Len(s) : i <= 4 /\ s[i] < 128}
      n    == Min(ends)
  IN IF ends # {}
     THEN Got(LengthOf(SubSeq(s, 1, n)), SubSeq(s, n + 1, Len(s)))
     ELSE IF Len(s) >= 4 THEN Fail("MalformedRemainingLength")
     ELSE Short(1)

-----------------------------------------------------------------------------
(* Fields. *)

(* Slip: no carry into the high byte. *)
SlipU16(n) == <<0, n>>

U16(n) == <<(n \div 256) % 256, n % 256>>
U32(n) == <<n \div 16777216, (n \div 65536) % 256, (n \div 256) % 256, n % 256>>
MqttBytes(b) == U16(Len(b)) \o b

UintAt(width, s) ==
  CASE width = 1 -> s[1]
    [] width = 2 -> 256 * s[1] + s[2]
    [] width = 4 -> 16777216 * s[1] + 65536 * s[2] + 256 * s[3] + s[4]

ReadUint(width, s) ==
  IF Len(s) < width THEN Fail("MalformedPacket")
  ELSE Got(UintAt(width, s), SubSeq(s, width + 1, Len(s)))

ReadMqttBytes(s) ==
  LET n == ReadUint(2, s) IN
  IF n.err # "ok" THEN n
  ELSE IF n.val > Len(n.rest) THEN Fail("BoundaryCrossed")
  ELSE Got(SubSeq(n.rest, 1, n.val), SubSeq(n.rest, n.val + 1, Len(n.rest)))

ReadPair(s) ==
  Then(ReadMqttBytes(s), LAMBDA k, t :
    Then(ReadMqttBytes(t), LAMBDA v, u : Got(<<k, v>>, u)))

ReadField(kind, s) ==
  CASE kind = "u8"     -> ReadUint(1, s)
    [] kind = "u16"    -> ReadUint(2, s)
    [] kind = "u32"    -> ReadUint(4, s)
    [] kind = "bytes"  -> ReadMqttBytes(s)
    [] kind = "pair"   -> ReadPair(s)
    [] kind = "varint" -> ReadLength(s)

(* The values of a row of fields. *)
ReadFields(kinds, s) ==
  FoldLeft(LAMBDA r, kind :
             Then(r, LAMBDA vs, t :
               Then(ReadField(kind, t), LAMBDA v, u : Got(Append(vs, v), u))),
           Got(<<>>, s), kinds)

(* The items of a payload that runs to the end of the packet.  Every turn of *)
(* the loop reads a byte at least, so there are no more turns than bytes.   *)
ReadToEnd(Item(_), s) ==
  FoldLeft(LAMBDA r, turn :
             Then(r, LAMBDA items, t :
               IF t = <<>> THEN r
               ELSE Then(Item(t), LAMBDA v, u : Got(Append(items, v), u))),
           Got(<<>>, s), s)

FieldBytes(kind, v) ==
  CASE kind = "u8"     -> <<v>>
    [] kind = "u16"    -> U16(v)
    [] kind = "u32"    -> U32(v)
    [] kind = "bytes"  -> MqttBytes(v)
    [] kind = "pair"   -> MqttBytes(v[1]) \o MqttBytes(v[2])
    [] kind = "varint" -> VarInt(v)

(* Slip: one byte for every subscription identifier. *)
SlipWidth(kind, v) ==
  CASE kind \in {"u8", "varint"} -> 1
    [] kind = "u16"    -> 2
    [] kind = "u32"    -> 4
    [] kind = "bytes"  -> 2 + Len(v)
    [] kind = "pair"   -> 2 + Len(v[1]) + 2 + Len(v[2])

(* The length functions add up widths of their own; they do not look at    *)
(* the bytes written.                                                      *)
Width(kind, v) ==
  CASE kind = "u8"     -> 1
    [] kind = "u16"    -> 2
    [] kind = "u32"    -> 4
    [] kind = "bytes"  -> 2 + Len(v)
    [] kind = "pair"   -> 2 + Len(v[1]) + 2 + Len(v[2])
    [] kind = "varint" -> LenLen(v)

(* A packet as a writer appends it: byte 1, the length it computed, the     *)
(* bytes it emits, and the size it reports.  A body that fails has already *)
(* appended the header.                                                    *)
Frame(byte1, len, body) ==
  IF len > 268435455 THEN Fail("PayloadTooLong")
  ELSE [err |-> "ok", bytes |-> <<byte1>> \o VarInt(len) \o body,
        size |-> 1 + LenLen(len) + len]

-----------------------------------------------------------------------------
(* The fixed header. *)

PacketTypes ==
  <<"connect", "connack", "publish", "puback", "pubrec", "pubrel", "pubcomp",
    "subscribe", "suback", "unsubscribe", "unsuback", "pingreq", "pingresp",
    "disconnect">>

FrameLength(h) == h.hlen + h.rlen

ParseFixedHeader(s) ==
  LET len == ReadLength(Tail(s)) IN
  IF Len(s) < 2 THEN Short(2 - Len(s))
  ELSE IF len.err # "ok" THEN len
  ELSE Got([byte1 |-> s[1], hlen |-> Len(s) - Len(len.rest), rlen |-> len.val], len.rest)

(* Whether the stream holds a whole packet, and its header if so. *)
Check(s, max) ==
  LET h == ParseFixedHeader(s) IN
  IF h.err # "ok" THEN h
  ELSE IF h.val.rlen > max THEN Fail("PayloadSizeLimitExceeded")
  ELSE IF Len(s) < FrameLength(h.val) THEN Short(FrameLength(h.val) - Len(s))
  ELSE h

-----------------------------------------------------------------------------
(* MQTT 5 properties.  A packet's properties are an Option of a record with *)
(* a field for every property that is present.                             *)

Property ==
  [payload_format_indicator |-> <<1, "u8">>,
   message_expiry_interval |-> <<2, "u32">>,
   content_type |-> <<3, "bytes">>,
   response_topic |-> <<8, "bytes">>,
   correlation_data |-> <<9, "bytes">>,
   id |-> <<11, "varint">>,
   subscription_identifiers |-> <<11, "varint">>,
   session_expiry_interval |-> <<17, "u32">>,
   assigned_client_identifier |-> <<18, "bytes">>,
   server_keep_alive |-> <<19, "u16">>,
   authentication_method |-> <<21, "bytes">>,
   authentication_data |-> <<22, "bytes">>,
   request_problem_info |-> <<23, "u8">>,
   delay_interval |-> <<24, "u32">>,
   request_response_info |-> <<25, "u8">>,
   response_information |-> <<26, "bytes">>,
   server_reference |-> <<28, "bytes">>,
   reason_string |-> <<31, "bytes">>,
   receive_maximum |-> <<33, "u16">>,
   topic_alias_max |-> <<34, "u16">>,
   topic_alias |-> <<35, "u16">>,
   max_qos |-> <<36, "u8">>,
   retain_available |-> <<37, "u8">>,
   user_properties |-> <<38, "pair">>,
   max_packet_size |-> <<39, "u32">>,
   wildcard_subscription_available |-> <<40, "u8">>,
   subscription_identifiers_available |-> <<41, "u8">>,
   shared_subscription_available |-> <<42, "u8">>]

Id(name)   == Property[name][1]
Kind(name) == Property[name][2]

(* The properties kept as lists; every other one is single and the last    *)
(* occurrence wins.                                                        *)
Repeated == {"user_properties", "subscription_identifiers"}

(* The occurrences <<name, value>> of the properties p in writing order. *)
Occurrences(order, p) ==
  FlattenSeq([i \in DOMAIN order |->
    LET name == order[i] IN
    IF name \notin DOMAIN p THEN <<>>
    ELSE IF name \notin Repeated THEN <<<<name, p[name]>>>>
    ELSE [j \in DOMAIN p[name] |-> <<name, p[name][j]>>]])

PropsLen(order, p) ==
  FoldLeft(LAMBDA acc, o : acc + 1 + Width(Kind(o[1]), o[2]), 0, Occurrences(order, p))

PropsBytes(order, p) ==
  VarInt(PropsLen(order, p)) \o
  FlattenSeq([i \in DOMAIN Occurrences(order, p) |->
    LET o == Occurrences(order, p)[i] IN <<Id(o[1])>> \o FieldBytes(Kind(o[1]), o[2])])

(* The part of a packet that holds its properties: one byte 0 for None. *)
OptLen(order, props) ==
  IF props = None THEN 1
  ELSE LET n == PropsLen(order, The(props)) IN LenLen(n) + n

OptBytes(order, props) == IF props = None THEN <<0>> ELSE PropsBytes(order, The(props))

(* How far a property moves the reader's cursor: subscription identifiers  *)
(* count one byte more than they take (v5/subscribe.rs:199, "TODO").       *)
CursorStep(name, v) == 1 + Width(Kind(name), v) + (IF Kind(name) = "varint" THEN 1 ELSE 0)

(* One property of a list: `list` has the bytes left and what has been read. *)
ReadProperty(known, list, s) ==
  Then(ReadUint(1, s), LAMBDA id, t :
    LET names == {n \in known : Id(n) = id}
        name  == The(names)
    IN IF names = {} THEN Fail("InvalidPropertyType")
       ELSE Then(ReadField(Kind(name), t), LAMBDA v, u :
         LET old   == IF name \in DOMAIN list.read THEN list.read[name] ELSE <<>>
             value == IF name \in Repeated THEN Append(old, v) ELSE v
         IN Got([left |-> list.left - CursorStep(name, v),
                 read |-> (name :> value) @@ list.read], u)))

(* The loop over a list of `len` bytes; no property is shorter than a byte.  *)
ReadProperties(known, len, s) ==
  Then(FoldLeft(LAMBDA r, turn :
                  Then(r, LAMBDA list, t :
                    IF list.left <= 0 THEN r ELSE ReadProperty(known, list, t)),
                Got([left |-> len, read |-> <<>>], s), [turn \in 1 .. len |-> turn]),
       LAMBDA list, t : Got(Some(list.read), t))

(* An empty list reads as None. *)
ReadProps(order, s) ==
  LET len == ReadLength(s) IN
  IF len.err # "ok" THEN len
  ELSE IF len.val = 0 THEN Got(None, len.rest)
  ELSE ReadProperties(ToSet(order), len.val, len.rest)
=============================================================================
