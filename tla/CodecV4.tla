------------------------------ MODULE CodecV4 ------------------------------
(***************************************************************************)
(* The MQTT 3.1.1 codec of rumqttd (protocol/v4).  It works on the same    *)
(* packet records as CodecV5; what 3.1.1 cannot say (properties, reasons,  *)
(* subscription options) a reader fills in with a fixed value.             *)
(***************************************************************************)
EXTENDS Wire

MQTT == <<77, 81, 84, 84>>

AtMostOnce  == 0
ExactlyOnce == 2

(* A writer that has no arm for what it is given panics. *)
Unreachable == Fail("unreachable")

IfSome(option, F(_), none) == IF option = None THEN none ELSE F(The(option))

SumOf(F(_), items) == FoldLeft(LAMBDA acc, x : acc + F(x), 0, items)
BytesOf(F(_), items) == FlattenSeq([i \in DOMAIN items |-> F(items[i])])

-----------------------------------------------------------------------------
(* CONNECT and CONNACK *)

WillLen(w)   == 2 + Len(w.topic) + 2 + Len(w.message)
WillFlags(w) == 4 + 8 * w.qos + BitIf(w.retain, 32)
WillBytes(w) == MqttBytes(w.topic) \o MqttBytes(w.message)

ReadWill(flags, s) ==
  IF ~Bit(flags, 4)
  THEN IF (flags \div 8) % 8 # 0 THEN Fail("IncorrectPacketFormat") ELSE Got(None, s)
  ELSE Then(ReadFields(<<"bytes", "bytes">>, s), LAMBDA v, t :
         LET qos == (flags \div 8) % 4
         IN IF qos > ExactlyOnce THEN Fail("InvalidQoS")
            ELSE Got(Some([topic |-> v[1], message |-> v[2], qos |-> qos,
                           retain |-> Bit(flags, 32), props |-> None]), t))

Credentials(l) == SelectSeq(<<l.username, l.password>>, LAMBDA c : c # <<>>)
LoginFlags(l)  == BitIf(l.username # <<>>, 128) + BitIf(l.password # <<>>, 64)

ReadLogin(flags, s) ==
  Then(IF Bit(flags, 128) THEN ReadMqttBytes(s) ELSE Got(<<>>, s), LAMBDA user, t :
    Then(IF Bit(flags, 64) THEN ReadMqttBytes(t) ELSE Got(<<>>, t), LAMBDA pass, u :
      Got(IF user = <<>> /\ pass = <<>> THEN None
          ELSE Some([username |-> user, password |-> pass]), u)))

ConnectLen(p) ==
  2 + Len(MQTT) + 1 + 1 + 2 + 2 + Len(p.client_id) + IfSome(p.will, WillLen, 0)
  + IfSome(p.login, LAMBDA l : SumOf(LAMBDA c : 2 + Len(c), Credentials(l)), 0)

WriteConnect(p) ==
  LET clean == BitIf(p.clean_session, 2) IN
  Frame(16, ConnectLen(p),
        MqttBytes(MQTT) \o <<4, clean>> \o U16(p.keep_alive) \o MqttBytes(p.client_id)
        \o IfSome(p.will, WillBytes, <<>>)
        \o IfSome(p.login, LAMBDA l : BytesOf(MqttBytes, Credentials(l)), <<>>))
  @@ [patch |-> <<1 + LenLen(ConnectLen(p)) + 2 + 4 + 1,
                  clean + IfSome(p.will, WillFlags, 0) + IfSome(p.login, LoginFlags, 0)>>]

ReadConnect(s) ==
  Then(ReadFields(<<"bytes", "u8">>, s), LAMBDA protocol, s1 :
    IF protocol[1] # MQTT THEN Fail("InvalidProtocol")
    ELSE IF protocol[2] # 4 THEN Fail("InvalidProtocolLevel")
    ELSE Then(ReadFields(<<"u8", "u16", "bytes">>, s1), LAMBDA v, s2 :
      Then(ReadWill(v[1], s2), LAMBDA will, s3 :
        Then(ReadLogin(v[1], s3), LAMBDA login, s4 :
          Got([type |-> "connect", client_id |-> v[3], keep_alive |-> v[2],
               clean_session |-> Bit(v[1], 2), props |-> None, will |-> will,
               login |-> login], s4)))))

ConnectReturnCode ==
  [Success |-> 0, RefusedProtocolVersion |-> 1, ClientIdentifierNotValid |-> 2,
   ServiceUnavailable |-> 3, BadUserNamePassword |-> 4, NotAuthorized |-> 5]

(* Properties of a CONNACK are dropped; a code of MQTT 5 panics. *)
WriteConnAck(p) ==
  IF p.code \notin DOMAIN ConnectReturnCode THEN Unreachable
  ELSE Frame(32, 1 + 1, <<BitIf(p.session_present, 1), ConnectReturnCode[p.code]>>)

ReadCode(table, n, s, error) ==
  LET names == {r \in DOMAIN table : table[r] = n}
  IN IF names = {} THEN Fail(error) ELSE Got(The(names), s)

ReadConnAck(s) ==
  Then(ReadFields(<<"u8", "u8">>, s), LAMBDA v, t :
    Then(ReadCode(ConnectReturnCode, v[2], t, "InvalidConnectReturnCode"), LAMBDA code, u :
      Got([type |-> "connack", session_present |-> Bit(v[1], 1), code |-> code,
           props |-> None], u)))

-----------------------------------------------------------------------------
(* PUBLISH.  The length written is Publish::len, which counts a packet id   *)
(* for every QoS above 0.                                                   *)

PublishLen(p) == 2 + Len(p.topic) + Len(p.payload) + (IF p.qos = AtMostOnce THEN 0 ELSE 2)

WritePublish(p) ==
  IF p.qos # AtMostOnce /\ p.pkid = 0 THEN Fail("PacketIdZero")
  ELSE Frame(48 + BitIf(p.retain, 1) + 2 * p.qos + BitIf(p.dup, 8), PublishLen(p),
             MqttBytes(p.topic) \o (IF p.qos # AtMostOnce THEN U16(p.pkid) ELSE <<>>)
             \o p.payload)

ReadPublish(h, s) ==
  LET qos   == (h.byte1 \div 2) % 4
      topic == ReadMqttBytes(s)
      pkid  == IF qos = AtMostOnce THEN Got(0, topic.rest) ELSE ReadUint(2, topic.rest)
  IN IF qos > ExactlyOnce THEN Fail("InvalidQoS")
     ELSE IF topic.err # "ok" THEN topic
     ELSE IF pkid.err # "ok" THEN pkid
     ELSE IF qos # AtMostOnce /\ pkid.val = 0 THEN Fail("PacketIdZero")
     ELSE Got([type |-> "publish", dup |-> Bit(h.byte1, 8), retain |-> Bit(h.byte1, 1),
               qos |-> qos, pkid |-> pkid.val, topic |-> topic.val, payload |-> pkid.rest,
               props |-> None], <<>>)

-----------------------------------------------------------------------------
(* Acknowledgements: a packet id and nothing else.  PUBACK insists on the   *)
(* length, the others do not look at what follows the id.                   *)

WriteAck(byte1, p) == Frame(byte1, 2, U16(p.pkid))

ReadAck(type, s) ==
  LET pkid == ReadUint(2, s) IN
  IF pkid.err # "ok" THEN pkid
  ELSE Got([type |-> type, pkid |-> pkid.val, reason |-> "Success", props |-> None], pkid.rest)

WritePubAck(p)   == WriteAck(64, p)
ReadPubAck(h, s) == IF h.rlen # 2 THEN Fail("InvalidRemainingLength") ELSE ReadAck("puback", s)
WritePubRec(p)   == WriteAck(80, p)
ReadPubRec(s)    == ReadAck("pubrec", s)
WritePubRel(p)   == WriteAck(98, p)
ReadPubRel(s)    == ReadAck("pubrel", s)
WritePubComp(p)  == WriteAck(112, p)
ReadPubComp(s)   == ReadAck("pubcomp", s)

-----------------------------------------------------------------------------
(* SUBSCRIBE, SUBACK, UNSUBSCRIBE and UNSUBACK *)

FilterLen(f)   == 2 + Len(f.path) + 1
FilterBytes(f) == MqttBytes(f.path) \o <<f.qos>>

ReadFilter(s) ==
  Then(ReadFields(<<"bytes", "u8">>, s), LAMBDA v, t :
    IF v[2] % 4 > ExactlyOnce THEN Fail("InvalidQoS")
    ELSE Got([path |-> v[1], qos |-> v[2] % 4, nolocal |-> FALSE, preserve_retain |-> FALSE,
              retain_forward_rule |-> "OnEverySubscribe"], t))

WriteSubscribe(p) ==
  Frame(130, 2 + SumOf(FilterLen, p.filters), U16(p.pkid) \o BytesOf(FilterBytes, p.filters))

ReadSubscribe(s) ==
  Then(ReadUint(2, s), LAMBDA pkid, t :
    Then(ReadToEnd(ReadFilter, t), LAMBDA filters, u :
      IF filters = <<>> THEN Fail("EmptySubscription")
      ELSE Got([type |-> "subscribe", pkid |-> pkid, filters |-> filters, props |-> None], u)))

(* The writer knows the codes of MQTT 5 as well, the reader these four. *)
SubscribeReasonCode == [QoS0 |-> 0, QoS1 |-> 1, QoS2 |-> 2, Failure |-> 128]

WriteSubAck(p) ==
  Frame(144, 2 + Len(p.codes),
        U16(p.pkid) \o [i \in DOMAIN p.codes |-> SubscribeReasonCode[p.codes[i]]])

ReadSubAck(s) ==
  Then(ReadUint(2, s), LAMBDA pkid, t :
    IF t = <<>> THEN Fail("MalformedPacket")
    ELSE Then(ReadToEnd(LAMBDA r : Then(ReadUint(1, r), LAMBDA n, r1 :
                ReadCode(SubscribeReasonCode, n, r1, "InvalidSubscribeReasonCode")), t),
           LAMBDA codes, u :
             Got([type |-> "suback", pkid |-> pkid, codes |-> codes, props |-> None], u)))

WriteUnsubscribe(p) ==
  Frame(162, 2 + SumOf(LAMBDA f : Len(f) + 2, p.filters),
        U16(p.pkid) \o BytesOf(MqttBytes, p.filters))

ReadUnsubscribe(s) ==
  Then(ReadUint(2, s), LAMBDA pkid, t :
    Then(ReadToEnd(ReadMqttBytes, t), LAMBDA filters, u :
      Got([type |-> "unsubscribe", pkid |-> pkid, filters |-> filters, props |-> None], u)))

WriteUnsubAck(p) == [err |-> "ok", bytes |-> <<176, 2>> \o U16(p.pkid), size |-> 4]

ReadUnsubAck(h, s) ==
  LET pkid == ReadUint(2, s) IN
  IF h.rlen # 2 THEN Fail("PayloadSizeIncorrect")
  ELSE IF pkid.err # "ok" THEN pkid
  ELSE Got([type |-> "unsuback", pkid |-> pkid.val, codes |-> <<>>, props |-> None], pkid.rest)

-----------------------------------------------------------------------------
(* DISCONNECT and pings: two bytes.  The reason of a DISCONNECT is lost.    *)

WriteDisconnect(p) == [err |-> "ok", bytes |-> <<224, 0>>, size |-> 2]

WritePing(type) ==
  [err |-> "ok", bytes |-> <<IF type = "pingreq" THEN 192 ELSE 208, 0>>, size |-> 2]

Write(p) ==
  IF p.props # None /\ p.type \notin {"connack", "pingreq", "pingresp"} THEN Unreachable
  ELSE CASE p.type = "connect"     -> IF p.will # None /\ The(p.will).props # None
                                      THEN Unreachable ELSE WriteConnect(p)
         [] p.type = "connack"     -> WriteConnAck(p)
         [] p.type = "publish"     -> WritePublish(p)
         [] p.type = "puback"      -> WritePubAck(p)
         [] p.type = "pubrec"      -> WritePubRec(p)
         [] p.type = "pubrel"      -> WritePubRel(p)
         [] p.type = "pubcomp"     -> WritePubComp(p)
         [] p.type = "subscribe"   -> WriteSubscribe(p)
         [] p.type = "suback"      -> WriteSubAck(p)
         [] p.type = "unsubscribe" -> WriteUnsubscribe(p)
         [] p.type = "unsuback"    -> WriteUnsubAck(p)
         [] p.type = "disconnect"  -> WriteDisconnect(p)
         [] p.type \in {"pingreq", "pingresp"} -> WritePing(p.type)

ReadEmpty(type) ==
  CASE type \in {"pingreq", "pingresp"} -> Got([type |-> type, props |-> None], <<>>)
    [] type = "disconnect" ->
         Got([type |-> type, reason |-> "NormalDisconnection", props |-> None], <<>>)
    [] OTHER -> Fail("PayloadRequired")

(* A DISCONNECT with a body is one of MQTT 5. *)
ReadBody(type, h, s) ==
  CASE type = "connect"     -> ReadConnect(s)
    [] type = "connack"     -> ReadConnAck(s)
    [] type = "publish"     -> ReadPublish(h, s)
    [] type = "puback"      -> ReadPubAck(h, s)
    [] type = "pubrec"      -> ReadPubRec(s)
    [] type = "pubrel"      -> ReadPubRel(s)
    [] type = "pubcomp"     -> ReadPubComp(s)
    [] type = "subscribe"   -> ReadSubscribe(s)
    [] type = "suback"      -> ReadSubAck(s)
    [] type = "unsubscribe" -> ReadUnsubscribe(s)
    [] type = "unsuback"    -> ReadUnsubAck(h, s)
    [] type = "disconnect"  -> Fail("InvalidProtocol")
    [] type \in {"pingreq", "pingresp"} -> ReadEmpty(type)

Unpack(h, type, body) ==
  IF h.rlen = 0 THEN ReadEmpty(type)
  ELSE ReadBody(type, h, body)
=============================================================================
