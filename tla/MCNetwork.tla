----------------------------- MODULE MCNetwork -----------------------------
(***************************************************************************)
(* Packets for model checking Network: every packet of both codecs, with   *)
(* and without its properties, every reason code of MQTT 5, and batches of *)
(* several packets.                                                        *)
(***************************************************************************)
EXTENDS Network

T == <<116>>                 \* "t"
U == <<117, 49>>             \* "u1"
N(n, b) == [i \in 1 .. n |-> b]
Pairs == <<<<T, U>>, <<U, <<>>>>>>

Reason == V4!Some([reason_string |-> T, user_properties |-> Pairs])
Empty  == V4!Some(<<>>)

(* A value for each kind of property. *)
Sample(name) ==
  CASE V5!Kind(name) = "u8"     -> 1
    [] V5!Kind(name) = "u16"    -> 258
    [] V5!Kind(name) = "u32"    -> 16909060
    [] V5!Kind(name) = "bytes"  -> U
    [] V5!Kind(name) = "pair"   -> Pairs
    [] V5!Kind(name) = "varint" -> 300
All(order) == V4!Some([name \in ToSet(order) |-> Sample(name)])
One(name)  == V4!Some([n \in {name} |-> Sample(name)])

Connect(props, will, login, clean) ==
  [type |-> "connect", client_id |-> U, keep_alive |-> 300, clean_session |-> clean,
   props |-> props, will |-> will, login |-> login]
Will(qos, retain, props) ==
  V4!Some([topic |-> T, message |-> U, qos |-> qos, retain |-> retain, props |-> props])
Login(user, pass) == V4!Some([username |-> user, password |-> pass])
ConnAck(code, props) ==
  [type |-> "connack", session_present |-> TRUE, code |-> code, props |-> props]
Publish(qos, payload, props) ==
  [type |-> "publish", dup |-> qos = 2, retain |-> qos = 1, qos |-> qos,
   pkid |-> IF qos = 0 THEN 0 ELSE 257, topic |-> T, payload |-> payload, props |-> props]
Ack(type, reason, props) == [type |-> type, pkid |-> 256, reason |-> reason, props |-> props]
Filter(qos, rule, flag) ==
  [path |-> U, qos |-> qos, nolocal |-> flag, preserve_retain |-> flag,
   retain_forward_rule |-> rule]
Subscribe(filters, props) ==
  [type |-> "subscribe", pkid |-> 7, filters |-> filters, props |-> props]
Codes(type, codes, props) == [type |-> type, pkid |-> 7, codes |-> codes, props |-> props]
Unsubscribe(filters, props) ==
  [type |-> "unsubscribe", pkid |-> 7, filters |-> filters, props |-> props]
Disconnect(reason, props) == [type |-> "disconnect", reason |-> reason, props |-> props]
Ping(type) == [type |-> type, props |-> {}]

(* What both codecs can carry. *)
Common ==
  {Connect({}, {}, {}, TRUE), Connect({}, {}, Login(T, <<>>), FALSE),
   Publish(0, <<>>, {}), Publish(1, U, {}), Publish(2, N(130, 7), {}), Publish(0, N(250, 7), {}),
   Unsubscribe(<<T>>, {}), Unsubscribe(<<T, U>>, {}),
   Disconnect("NormalDisconnection", {}), Ping("pingreq"), Ping("pingresp"),
   Subscribe(<<Filter(1, "OnEverySubscribe", FALSE)>>, {})}
  \cup {Ack(type, "Success", {}) : type \in {"puback", "pubrec", "pubrel", "pubcomp"}}

Packets4 ==
  Common
  \cup {Connect({}, Will(q, r, {}), Login(T, U), TRUE) : q \in 0 .. 2, r \in BOOLEAN}
  \cup {ConnAck(code, {}) : code \in DOMAIN V4!ConnectReturnCode}
  \cup {Codes("suback", <<"QoS0", "QoS2", "Failure">>, {}), Codes("unsuback", <<>>, {})}

Packets5 ==
  Common
  \cup {Connect(All(V5!ConnectProps), Will(1, TRUE, All(V5!WillProps)), Login(T, U), FALSE),
        Connect(Empty, Will(0, FALSE, {}), {}, TRUE)}
  \cup {Publish(1, U, One(name)) : name \in ToSet(V5!PublishProps) \ {"subscription_identifiers"}}
  \cup {Publish(0, U, V4!Some([subscription_identifiers |-> <<1, 300>>])), Publish(0, U, Empty)}
  \cup {Forwarded(Stored(Publish(1, U, props)), 1, 9, alias, alias # {}, id) :
          props \in {{}, One("topic_alias")}, alias \in {{}, {5}}, id \in {{}, {300}}}
  \cup {Ack("puback", r, props) : r \in DOMAIN V5!PubAckReason, props \in {{}, Reason}}
  \cup {Ack("pubrec", r, props) : r \in DOMAIN V5!PubRecReason, props \in {Reason}}
  \cup {Ack(type, "PacketIdentifierNotFound", props) :
          type \in {"pubrel", "pubcomp"}, props \in {{}, Reason, Empty}}
  \cup {Subscribe(<<Filter(q, rule, TRUE), Filter(0, "Never", FALSE)>>, All(V5!SubscribeProps)) :
          q \in 0 .. 2, rule \in DOMAIN V5!RetainForwardRule}
  \cup {Unsubscribe(<<T, U>>, V4!Some([user_properties |-> Pairs]))}
  \cup {Codes("suback", <<code, "QoS1">>, Reason) : code \in DOMAIN V5!SubscribeReasonCode}
  \cup {Codes("unsuback", <<code, "Success">>, Reason) : code \in DOMAIN V5!UnsubAckReason}
  \cup {ConnAck(code, {}) : code \in DOMAIN V5!ConnectReturnCode}
  \cup {ConnAck("Success", All(V5!ConnAckProps))}
  \cup {Disconnect(r, One("reason_string")) : r \in DOMAIN V5!DisconnectReasonCode}
  \cup {Disconnect("ServerBusy", All(V5!DisconnectProps))}

(* Several packets in one write, one of them refused for its size. *)
Several ==
  {<<Connect({}, {}, Login(T, U), TRUE), Publish(1, U, {}), Ping("pingreq")>>,
   <<Ping("pingreq"), Publish(0, U, {}), Ack("puback", "Success", {}), Ping("pingresp")>>,
   <<Publish(0, U, {}), Publish(0, N(250, 7), {}), Ping("pingreq")>>}

MCBatches ==
  [v4 |-> {<<p>> : p \in Packets4} \cup Several, v5 |-> {<<p>> : p \in Packets5} \cup Several]

(* A publish that came in over MQTT 5 with a topic alias, forwarded to a    *)
(* subscriber that speaks 3.1.1.                                            *)
MixedBatches ==
  [v4 |-> {<<Forwarded(Stored(Publish(1, U, One("topic_alias"))), 0, 0, {}, FALSE, {})>>}]
=============================================================================
