------------------------------ MODULE CodecV5 ------------------------------
(***************************************************************************)
(* The MQTT 5 codec of rumqttd (protocol/v5): for every packet the length  *)
(* function, the writer and the reader, as the broker has them.  The       *)
(* property lists of a packet are given once, in the order its `write`     *)
(* emits them; its `len` adds the same ones up and its `read` accepts      *)
(* exactly those.  A packet is a record with its type and its properties   *)
(* in "props"; reason codes keep the names of the source.                  *)
(***************************************************************************)
EXTENDS Wire

MQTT == <<77, 81, 84, 84>>

AtMostOnce  == 0
ExactlyOnce == 2

(* A code table and its inverse, the pair `code` and `reason`. *)
ReadCode(table, n, s, error) ==
  LET names == {r \in DOMAIN table : table[r] = n}
  IN IF names = {} THEN Fail(error) ELSE Got(The(names), s)

-----------------------------------------------------------------------------
(* CONNECT *)

ConnectProps ==
  <<"session_expiry_interval", "receive_maximum", "max_packet_size", "topic_alias_max",
    "request_response_info", "request_problem_info", "user_properties",
    "authentication_method", "authentication_data">>

WillProps ==
  <<"delay_interval", "payload_format_indicator", "message_expiry_interval",
    "content_type", "response_topic", "correlation_data", "user_properties">>

WillLen(w) == OptLen(WillProps, w.props) + 2 + Len(w.topic) + 2 + Len(w.message)

WillFlags(w) == 4 + 8 * w.qos + BitIf(w.retain, 32)

WillBytes(w) == OptBytes(WillProps, w.props) \o MqttBytes(w.topic) \o MqttBytes(w.message)

ReadWill(flags, s) ==
  IF ~Bit(flags, 4)
  THEN IF (flags \div 8) % 8 # 0 THEN Fail("IncorrectPacketFormat") ELSE Got(None, s)
  ELSE Then(ReadProps(WillProps, s), LAMBDA props, t :
         Then(ReadFields(<<"bytes", "bytes">>, t), LAMBDA v, u :
           LET qos == (flags \div 8) % 4
           IN IF qos > ExactlyOnce THEN Fail("InvalidQoS")
              ELSE Got(Some([topic |-> v[1], message |-> v[2], qos |-> qos,
                             retain |-> Bit(flags, 32), props |-> props]), u)))

(* Only the credentials that are not empty are written. *)
LoginLen(l) ==
  (IF l.username # <<>> THEN 2 + Len(l.username) ELSE 0)
  + (IF l.password # <<>> THEN 2 + Len(l.password) ELSE 0)

LoginFlags(l) == BitIf(l.username # <<>>, 128) + BitIf(l.password # <<>>, 64)

LoginBytes(l) ==
  (IF l.username # <<>> THEN MqttBytes(l.username) ELSE <<>>)
  \o (IF l.password # <<>> THEN MqttBytes(l.password) ELSE <<>>)

ReadLogin(flags, s) ==
  Then(IF Bit(flags, 128) THEN ReadMqttBytes(s) ELSE Got(<<>>, s), LAMBDA user, t :
    Then(IF Bit(flags, 64) THEN ReadMqttBytes(t) ELSE Got(<<>>, t), LAMBDA pass, u :
      Got(IF user = <<>> /\ pass = <<>> THEN None
          ELSE Some([username |-> user, password |-> pass]), u)))

IfSome(option, Len0(_), none) == IF option = None THEN none ELSE Len0(The(option))

ConnectLen(p) ==
  2 + Len(MQTT) + 1 + 1 + 2 + OptLen(ConnectProps, p.props) + 2 + Len(p.client_id)
  + IfSome(p.will, WillLen, 0) + IfSome(p.login, LoginLen, 0)

(* The flags are patched in at an index of the whole write buffer, counted  *)
(* as if CONNECT were its first packet.                                     *)
WriteConnect(p) ==
  LET clean == BitIf(p.clean_session, 2) IN
  Frame(16, ConnectLen(p),
        MqttBytes(MQTT) \o <<5, clean>> \o U16(p.keep_alive) \o OptBytes(ConnectProps, p.props)
        \o MqttBytes(p.client_id)
        \o IfSome(p.will, WillBytes, <<>>) \o IfSome(p.login, LoginBytes, <<>>))
  @@ [patch |-> <<1 + LenLen(ConnectLen(p)) + 2 + 4 + 1,
                  clean + IfSome(p.will, WillFlags, 0) + IfSome(p.login, LoginFlags, 0)>>]

ReadConnect(h, s) ==
  Then(ReadFields(<<"bytes", "u8">>, s), LAMBDA protocol, s1 :
    IF protocol[1] # MQTT THEN Fail("InvalidProtocol")
    ELSE IF protocol[2] # 5 THEN Fail("InvalidProtocolLevel")
    ELSE Then(ReadFields(<<"u8", "u16">>, s1), LAMBDA fixed, s2 :
      Then(ReadProps(ConnectProps, s2), LAMBDA props, s3 :
        Then(ReadMqttBytes(s3), LAMBDA id, s4 :
          Then(ReadWill(fixed[1], s4), LAMBDA will, s5 :
            Then(ReadLogin(fixed[1], s5), LAMBDA login, s6 :
              Got([type |-> "connect", client_id |-> id, keep_alive |-> fixed[2],
                   clean_session |-> Bit(fixed[1], 2), props |-> props,
                   will |-> will, login |-> login], s6)))))))

-----------------------------------------------------------------------------
(* CONNACK *)

ConnAckProps ==
  <<"session_expiry_interval", "receive_maximum", "max_qos", "retain_available",
    "max_packet_size", "assigned_client_identifier", "topic_alias_max", "reason_string",
    "user_properties", "wildcard_subscription_available",
    "subscription_identifiers_available", "shared_subscription_available",
    "server_keep_alive", "response_information", "server_reference",
    "authentication_method", "authentication_data">>

ConnectReturnCode ==
  [Success |-> 0, UnspecifiedError |-> 128, MalformedPacket |-> 129, ProtocolError |-> 130,
   ImplementationSpecificError |-> 131, UnsupportedProtocolVersion |-> 132,
   ClientIdentifierNotValid |-> 133, BadUserNamePassword |-> 134, NotAuthorized |-> 135,
   ServerUnavailable |-> 136, ServerBusy |-> 137, Banned |-> 138,
   BadAuthenticationMethod |-> 140, TopicNameInvalid |-> 144, PacketTooLarge |-> 149,
   QuotaExceeded |-> 151, PayloadFormatInvalid |-> 153, RetainNotSupported |-> 154,
   QoSNotSupported |-> 155, UseAnotherServer |-> 156, ServerMoved |-> 157,
   ConnectionRateExceeded |-> 159]

ConnAckLen(p) == 1 + 1 + OptLen(ConnAckProps, p.props)

WriteConnAck(p) ==
  Frame(32, ConnAckLen(p),
        <<BitIf(p.session_present, 1), ConnectReturnCode[p.code]>> \o OptBytes(ConnAckProps, p.props))

ReadConnAck(h, s) ==
  Then(ReadFields(<<"u8", "u8">>, s), LAMBDA v, t :
    Then(ReadProps(ConnAckProps, t), LAMBDA props, u :
      Then(ReadCode(ConnectReturnCode, v[2], u, "InvalidConnectReturnCode"), LAMBDA code, w :
        Got([type |-> "connack", session_present |-> Bit(v[1], 1), code |-> code,
             props |-> props], w))))

-----------------------------------------------------------------------------
(* PUBLISH *)

PublishProps ==
  <<"payload_format_indicator", "message_expiry_interval", "topic_alias", "response_topic",
    "correlation_data", "user_properties", "subscription_identifiers", "content_type">>

PublishLen(p) ==
  2 + Len(p.topic) + (IF p.qos # AtMostOnce /\ p.pkid # 0 THEN 2 ELSE 0)
  + OptLen(PublishProps, p.props) + Len(p.payload)

PublishByte1(p) == 48 + BitIf(p.retain, 1) + 2 * p.qos + BitIf(p.dup, 8)

WritePublish(p) ==
  IF p.qos # AtMostOnce /\ p.pkid = 0 THEN Fail("PacketIdZero")
  ELSE Frame(PublishByte1(p), PublishLen(p),
             MqttBytes(p.topic) \o (IF p.qos # AtMostOnce THEN U16(p.pkid) ELSE <<>>)
             \o OptBytes(PublishProps, p.props) \o p.payload)

ReadPublish(h, s) ==
  LET qos   == (h.byte1 \div 2) % 4
      topic == ReadMqttBytes(s)
      pkid  == IF qos = AtMostOnce THEN Got(0, topic.rest) ELSE ReadUint(2, topic.rest)
      props == ReadProps(PublishProps, pkid.rest)
  IN IF qos > ExactlyOnce THEN Fail("InvalidQoS")
     ELSE IF topic.err # "ok" THEN topic
     ELSE IF pkid.err # "ok" THEN pkid
     ELSE IF qos # AtMostOnce /\ pkid.val = 0 THEN Fail("PacketIdZero")
     ELSE IF props.err # "ok" THEN props
     ELSE Got([type |-> "publish", dup |-> Bit(h.byte1, 8), retain |-> Bit(h.byte1, 1),
               qos |-> qos, pkid |-> pkid.val, topic |-> topic.val, payload |-> props.rest,
               props |-> props.val], <<>>)

-----------------------------------------------------------------------------
(* The four acknowledgements of a publish differ in their byte 1 and codes. *)

AckLen(order, p) ==
  IF p.reason = "Success" /\ p.props = None THEN 2 ELSE 2 + 1 + OptLen(order, p.props)

WriteAck(byte1, codes, order, p) ==
  Frame(byte1, AckLen(order, p),
        U16(p.pkid) \o
        (IF p.reason = "Success" /\ p.props = None THEN <<>>
         ELSE <<codes[p.reason]>> \o OptBytes(order, p.props)))

ReadAck(type, codes, order, h, s) ==
  LET Ack(pkid, reason, props) ==
        [type |-> type, pkid |-> pkid, reason |-> reason, props |-> props]
      pkid   == ReadUint(2, s)
      code   == ReadUint(1, pkid.rest)
      reason == ReadCode(codes, code.val, code.rest, "InvalidConnectReturnCode")
      props  == ReadProps(order, reason.rest)
  IN IF pkid.err # "ok" THEN pkid
     ELSE IF h.rlen = 2 THEN Got(Ack(pkid.val, "Success", None), pkid.rest)
     ELSE IF code.err # "ok" THEN code
     ELSE IF reason.err # "ok" THEN reason
     ELSE IF h.rlen < 4 THEN Got(Ack(pkid.val, reason.val, None), reason.rest)
     ELSE IF props.err # "ok" THEN props
     ELSE Got(Ack(pkid.val, reason.val, props.val), props.rest)

PubAckReason ==
  [Success |-> 0, NoMatchingSubscribers |-> 16, UnspecifiedError |-> 128,
   ImplementationSpecificError |-> 131, NotAuthorized |-> 135, TopicNameInvalid |-> 144,
   PacketIdentifierInUse |-> 145, QuotaExceeded |-> 151, PayloadFormatInvalid |-> 153]

PubAckProps == <<"reason_string", "user_properties">>

WritePubAck(p)   == WriteAck(64, PubAckReason, PubAckProps, p)
ReadPubAck(h, s) == ReadAck("puback", PubAckReason, PubAckProps, h, s)

PubRecReason ==
  [Success |-> 0, NoMatchingSubscribers |-> 16, UnspecifiedError |-> 128,
   ImplementationSpecificError |-> 131, NotAuthorized |-> 135, TopicNameInvalid |-> 144,
   PacketIdentifierInUse |-> 145, QuotaExceeded |-> 151, PayloadFormatInvalid |-> 153]

PubRecProps == <<"reason_string", "user_properties">>

WritePubRec(p)   == WriteAck(80, PubRecReason, PubRecProps, p)
ReadPubRec(h, s) == ReadAck("pubrec", PubRecReason, PubRecProps, h, s)

PubRelReason == [Success |-> 0, PacketIdentifierNotFound |-> 146]

PubRelProps == <<"reason_string", "user_properties">>

WritePubRel(p)   == WriteAck(98, PubRelReason, PubRelProps, p)
ReadPubRel(h, s) == ReadAck("pubrel", PubRelReason, PubRelProps, h, s)

PubCompReason == [Success |-> 0, PacketIdentifierNotFound |-> 146]

PubCompProps == <<"reason_string", "user_properties">>

WritePubComp(p)   == WriteAck(112, PubCompReason, PubCompProps, p)
ReadPubComp(h, s) == ReadAck("pubcomp", PubCompReason, PubCompProps, h, s)

-----------------------------------------------------------------------------
(* SUBSCRIBE and SUBACK *)

SubscribeProps == <<"id", "user_properties">>

RetainForwardRule == [OnEverySubscribe |-> 0, OnNewSubscribe |-> 1, Never |-> 2]

FilterLen(f) == 2 + Len(f.path) + 1

FilterBytes(f) ==
  MqttBytes(f.path) \o
  <<f.qos + BitIf(f.nolocal, 4) + BitIf(f.preserve_retain, 8)
    + 16 * RetainForwardRule[f.retain_forward_rule]>>

ReadFilter(s) ==
  Then(ReadFields(<<"bytes", "u8">>, s), LAMBDA v, t :
    Then(ReadCode(RetainForwardRule, (v[2] \div 16) % 4, t, "InvalidRetainForwardRule"),
      LAMBDA rule, u :
        IF v[2] % 4 > ExactlyOnce THEN Fail("InvalidQoS")
        ELSE Got([path |-> v[1], qos |-> v[2] % 4, nolocal |-> Bit(v[2], 4),
                  preserve_retain |-> Bit(v[2], 8), retain_forward_rule |-> rule], u)))

SumOf(F(_), items) == FoldLeft(LAMBDA acc, x : acc + F(x), 0, items)
BytesOf(F(_), items) == FlattenSeq([i \in DOMAIN items |-> F(items[i])])

SubscribeLen(p) == 2 + SumOf(FilterLen, p.filters) + OptLen(SubscribeProps, p.props)

WriteSubscribe(p) ==
  Frame(130, SubscribeLen(p),
        U16(p.pkid) \o OptBytes(SubscribeProps, p.props) \o BytesOf(FilterBytes, p.filters))

ReadSubscribe(h, s) ==
  Then(ReadUint(2, s), LAMBDA pkid, t :
    Then(ReadProps(SubscribeProps, t), LAMBDA props, u :
      Then(ReadToEnd(ReadFilter, u), LAMBDA filters, v :
        IF filters = <<>> THEN Fail("EmptySubscription")
        ELSE Got([type |-> "subscribe", pkid |-> pkid, filters |-> filters,
                  props |-> props], v))))

SubAckProps == <<"reason_string", "user_properties">>

SubscribeReasonCode ==
  [QoS0 |-> 0, QoS1 |-> 1, QoS2 |-> 2, Unspecified |-> 128, ImplementationSpecific |-> 131,
   NotAuthorized |-> 135, TopicFilterInvalid |-> 143, PkidInUse |-> 145,
   QuotaExceeded |-> 151, SharedSubscriptionsNotSupported |-> 158,
   SubscriptionIdNotSupported |-> 161, WildcardSubscriptionsNotSupported |-> 162]

(* A list of codes behind a packet id: SUBACK and UNSUBACK. *)
ListAckLen(order, p, codes) == 2 + Len(codes) + OptLen(order, p.props)

ReadListAck(type, table, order, h, s) ==
  Then(ReadUint(2, s), LAMBDA pkid, t :
    Then(ReadProps(order, t), LAMBDA props, u :
      IF u = <<>> THEN Fail("MalformedPacket")
      ELSE Then(ReadToEnd(LAMBDA r : Then(ReadUint(1, r), LAMBDA n, r1 :
                            ReadCode(table, n, r1, "InvalidSubscribeReasonCode")), u),
             LAMBDA codes, v :
               Got([type |-> type, pkid |-> pkid, codes |-> codes, props |-> props], v))))

WriteSubAck(p) ==
  Frame(144, ListAckLen(SubAckProps, p, p.codes),
        U16(p.pkid) \o OptBytes(SubAckProps, p.props)
        \o [i \in DOMAIN p.codes |-> SubscribeReasonCode[p.codes[i]]])

ReadSubAck(h, s) == ReadListAck("suback", SubscribeReasonCode, SubAckProps, h, s)

-----------------------------------------------------------------------------
(* UNSUBSCRIBE and UNSUBACK *)

UnsubscribeProps == <<"user_properties">>

UnsubscribeLen(p) ==
  2 + SumOf(LAMBDA f : 2 + Len(f), p.filters) + OptLen(UnsubscribeProps, p.props)

WriteUnsubscribe(p) ==
  Frame(162, UnsubscribeLen(p),
        U16(p.pkid) \o OptBytes(UnsubscribeProps, p.props) \o BytesOf(MqttBytes, p.filters))

ReadUnsubscribe(h, s) ==
  Then(ReadUint(2, s), LAMBDA pkid, t :
    Then(ReadProps(UnsubscribeProps, t), LAMBDA props, u :
      Then(ReadToEnd(ReadMqttBytes, u), LAMBDA filters, v :
        Got([type |-> "unsubscribe", pkid |-> pkid, filters |-> filters,
             props |-> props], v))))

UnsubAckProps == <<"reason_string", "user_properties">>

UnsubAckReason ==
  [Success |-> 0, NoSubscriptionExisted |-> 17, UnspecifiedError |-> 128,
   ImplementationSpecificError |-> 131, NotAuthorized |-> 135, TopicFilterInvalid |-> 143,
   PacketIdentifierInUse |-> 145]

WriteUnsubAck(p) ==
  Frame(176, ListAckLen(UnsubAckProps, p, p.codes),
        U16(p.pkid) \o OptBytes(UnsubAckProps, p.props)
        \o [i \in DOMAIN p.codes |-> UnsubAckReason[p.codes[i]]])

ReadUnsubAck(h, s) == ReadListAck("unsuback", UnsubAckReason, UnsubAckProps, h, s)

-----------------------------------------------------------------------------
(* DISCONNECT *)

DisconnectProps ==
  <<"session_expiry_interval", "reason_string", "user_properties", "server_reference">>

DisconnectReasonCode ==
  [NormalDisconnection |-> 0, DisconnectWithWillMessage |-> 4, UnspecifiedError |-> 128,
   MalformedPacket |-> 129, ProtocolError |-> 130, ImplementationSpecificError |-> 131,
   NotAuthorized |-> 135, ServerBusy |-> 137, ServerShuttingDown |-> 139,
   KeepAliveTimeout |-> 141, SessionTakenOver |-> 142, TopicFilterInvalid |-> 143,
   TopicNameInvalid |-> 144, ReceiveMaximumExceeded |-> 147, TopicAliasInvalid |-> 148,
   PacketTooLarge |-> 149, MessageRateTooHigh |-> 150, QuotaExceeded |-> 151,
   AdministrativeAction |-> 152, PayloadFormatInvalid |-> 153, RetainNotSupported |-> 154,
   QoSNotSupported |-> 155, UseAnotherServer |-> 156, ServerMoved |-> 157,
   SharedSubscriptionNotSupported |-> 158, ConnectionRateExceeded |-> 159,
   MaximumConnectTime |-> 160, SubscriptionIdentifiersNotSupported |-> 161,
   WildcardSubscriptionsNotSupported |-> 162]

(* Without properties the length leaves out the byte 0 that stands for     *)
(* them, although the writer emits it.                                     *)
DisconnectLen(p) ==
  IF p.props = None
  THEN IF p.reason = "NormalDisconnection" THEN 2 ELSE 1
  ELSE 1 + OptLen(DisconnectProps, p.props)

(* The length 2 means "nothing to say", whatever it came from. *)
WriteDisconnect(p) ==
  IF DisconnectLen(p) = 2
  THEN [err |-> "ok", bytes |-> <<224, 0>>, size |-> 2]
  ELSE Frame(224, DisconnectLen(p),
             <<DisconnectReasonCode[p.reason]>> \o OptBytes(DisconnectProps, p.props))

ReadDisconnect(h, s) ==
  IF h.byte1 % 16 # 0 THEN Fail("MalformedPacket")
  ELSE Then(ReadUint(1, s), LAMBDA n, t :
    Then(ReadCode(DisconnectReasonCode, n, t, "InvalidConnectReturnCode"), LAMBDA reason, u :
      Then(ReadProps(DisconnectProps, u), LAMBDA props, v :
        Got([type |-> "disconnect", reason |-> reason, props |-> props], v))))

-----------------------------------------------------------------------------
(* Pings, and the codec's two entry points. *)

WritePing(type) ==
  [err |-> "ok", bytes |-> <<IF type = "pingreq" THEN 192 ELSE 208, 0>>, size |-> 2]

Write(p) ==
  CASE p.type = "connect"     -> WriteConnect(p)
    [] p.type = "connack"     -> WriteConnAck(p)
    [] p.type = "publish"     -> WritePublish(p)
    [] p.type = "puback"      -> WritePubAck(p)
    [] p.type = "pubrec"      -> WritePubRec(p)
    [] p.type = "pubrel"      -> WritePubRel(p)
    [] p.type = "pubcomp"     -> WritePubComp(p)
    [] p.type = "subscribe"   -> WriteSubscribe(p)
    [] p.type = "suback"      -> WriteSubAck(p)
    [] p.type = "unsubscribe" -> WriteUnsubscribe(p)
    [] p.type = "unsuback"    -> WriteUnsubAck(p)
    [] p.type = "disconnect"  -> WriteDisconnect(p)
    [] p.type \in {"pingreq", "pingresp"} -> WritePing(p.type)

(* A packet without a body. *)
ReadEmpty(type) ==
  CASE type \in {"pingreq", "pingresp"} -> Got([type |-> type, props |-> None], <<>>)
    [] type = "disconnect" ->
         Got([type |-> type, reason |-> "NormalDisconnection", props |-> None], <<>>)
    [] OTHER -> Fail("PayloadRequired")

ReadBody(type, h, s) ==
  CASE type = "connect"     -> ReadConnect(h, s)
    [] type = "connack"     -> ReadConnAck(h, s)
    [] type = "publish"     -> ReadPublish(h, s)
    [] type = "puback"      -> ReadPubAck(h, s)
    [] type = "pubrec"      -> ReadPubRec(h, s)
    [] type = "pubrel"      -> ReadPubRel(h, s)
    [] type = "pubcomp"     -> ReadPubComp(h, s)
    [] type = "subscribe"   -> ReadSubscribe(h, s)
    [] type = "suback"      -> ReadSubAck(h, s)
    [] type = "unsubscribe" -> ReadUnsubscribe(h, s)
    [] type = "unsuback"    -> ReadUnsubAck(h, s)
    [] type = "disconnect"  -> ReadDisconnect(h, s)
    [] type \in {"pingreq", "pingresp"} -> ReadEmpty(type)

(* The broker has no use for CONNACK and UNSUBACK and panics on them.       *)
Unpack(h, type, body) ==
  IF h.rlen = 0 THEN ReadEmpty(type)
  ELSE IF type \in {"connack", "unsuback"} THEN Fail("unreachable")
  ELSE ReadBody(type, h, body)
=============================================================================
