------------------------------ MODULE Packets ------------------------------
(***************************************************************************)
(* The packet types both codecs share (protocol/mod.rs): what a reader may *)
(* hand to the broker.  Every packet has its properties in "props", an     *)
(* Option that MQTT 3.1.1 leaves empty.                                    *)
(***************************************************************************)
EXTENDS CodecV5

U8Range  == 0 .. 255
U16Range == 0 .. 65535
QoS      == 0 .. 2

IsBytes(b) == \A x \in ToSet(b) : x \in U8Range

IsKind(kind, v) ==
  CASE kind = "u8"    -> v \in U8Range
    [] kind = "u16"   -> v \in U16Range
    [] kind \in {"u32", "varint"} -> v \in Nat
    [] kind = "bytes" -> IsBytes(v)
    [] kind = "pair"  -> IsBytes(v[1]) /\ IsBytes(v[2])

(* Properties of a struct with the fields `names`. *)
IsProps(names, props) ==
  \A p \in props :
    /\ DOMAIN p \subseteq ToSet(names)
    /\ \A n \in DOMAIN p :
         IF n \in Repeated THEN \A v \in ToSet(p[n]) : IsKind(Kind(n), v)
         ELSE IsKind(Kind(n), p[n])

Has(p, fields) == DOMAIN p = {"type", "props"} \cup fields

IsWill(w) ==
  /\ IsBytes(w.topic) /\ IsBytes(w.message) /\ w.qos \in QoS /\ w.retain \in BOOLEAN
  /\ IsProps(WillProps, w.props)

IsConnect(p) ==
  /\ Has(p, {"client_id", "keep_alive", "clean_session", "will", "login"})
  /\ IsBytes(p.client_id) /\ p.keep_alive \in U16Range /\ p.clean_session \in BOOLEAN
  /\ \A w \in p.will : IsWill(w)
  /\ \A l \in p.login : IsBytes(l.username) /\ IsBytes(l.password)
  /\ IsProps(ConnectProps, p.props)

IsConnAck(p) ==
  /\ Has(p, {"session_present", "code"}) /\ p.session_present \in BOOLEAN
  /\ p.code \in DOMAIN ConnectReturnCode \cup {"RefusedProtocolVersion", "ServiceUnavailable"}
  /\ IsProps(ConnAckProps, p.props)

(* A packet id where, and only where, the QoS needs one. *)
IsPublish(p) ==
  /\ Has(p, {"dup", "qos", "pkid", "retain", "topic", "payload"})
  /\ {p.dup, p.retain} \subseteq BOOLEAN /\ p.qos \in QoS /\ p.pkid \in U16Range
  /\ p.pkid = 0 <=> p.qos = AtMostOnce
  /\ IsBytes(p.topic) /\ IsBytes(p.payload) /\ IsProps(PublishProps, p.props)

IsAck(p, reasons, order) ==
  /\ Has(p, {"pkid", "reason"}) /\ p.pkid \in U16Range /\ p.reason \in DOMAIN reasons
  /\ IsProps(order, p.props)

IsPubAck(p)  == IsAck(p, PubAckReason, PubAckProps)
IsPubRec(p)  == IsAck(p, PubRecReason, PubRecProps)
IsPubRel(p)  == IsAck(p, PubRelReason, PubRelProps)
IsPubComp(p) == IsAck(p, PubCompReason, PubCompProps)

IsFilter(f) ==
  /\ IsBytes(f.path) /\ f.qos \in QoS /\ {f.nolocal, f.preserve_retain} \subseteq BOOLEAN
  /\ f.retain_forward_rule \in DOMAIN RetainForwardRule

IsSubscribe(p) ==
  /\ Has(p, {"pkid", "filters"}) /\ p.pkid \in U16Range
  /\ p.filters # <<>> /\ \A f \in ToSet(p.filters) : IsFilter(f)
  /\ IsProps(SubscribeProps, p.props)

IsSubAck(p) ==
  /\ Has(p, {"pkid", "codes"}) /\ p.pkid \in U16Range /\ p.codes # <<>>
  /\ ToSet(p.codes) \subseteq DOMAIN SubscribeReasonCode \cup {"Failure"}
  /\ IsProps(SubAckProps, p.props)

IsUnsubscribe(p) ==
  /\ Has(p, {"pkid", "filters"}) /\ p.pkid \in U16Range
  /\ \A f \in ToSet(p.filters) : IsBytes(f)
  /\ IsProps(UnsubscribeProps, p.props)

IsUnsubAck(p) ==
  /\ Has(p, {"pkid", "codes"}) /\ p.pkid \in U16Range
  /\ ToSet(p.codes) \subseteq DOMAIN UnsubAckReason
  /\ IsProps(UnsubAckProps, p.props)

IsDisconnect(p) ==
  /\ Has(p, {"reason"}) /\ p.reason \in DOMAIN DisconnectReasonCode
  /\ IsProps(DisconnectProps, p.props)

IsPacket(p) ==
  CASE p.type = "connect"     -> IsConnect(p)
    [] p.type = "connack"     -> IsConnAck(p)
    [] p.type = "publish"     -> IsPublish(p)
    [] p.type = "puback"      -> IsPubAck(p)
    [] p.type = "pubrec"      -> IsPubRec(p)
    [] p.type = "pubrel"      -> IsPubRel(p)
    [] p.type = "pubcomp"     -> IsPubComp(p)
    [] p.type = "subscribe"   -> IsSubscribe(p)
    [] p.type = "suback"      -> IsSubAck(p)
    [] p.type = "unsubscribe" -> IsUnsubscribe(p)
    [] p.type = "unsuback"    -> IsUnsubAck(p)
    [] p.type = "disconnect"  -> IsDisconnect(p)
    [] p.type \in {"pingreq", "pingresp"} -> Has(p, {})
=============================================================================
