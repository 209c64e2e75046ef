----------------------------- MODULE MCDelivery -----------------------------
(***************************************************************************)
(* Delivery with a subscriber of an exact and a wildcard filter, who may    *)
(* use one alias, and a publisher on two topics at every quality.           *)
(***************************************************************************)
EXTENDS Delivery

CONSTANTS sub, pub

a == <<"a">>
b == <<"b">>
any == <<"+">>

MCTopics  == {a, b}
MCFilters == {a, any}
MCSubscribes == [c \in Clients |->
  IF c = sub THEN {[filter |-> a, qos |-> 1], [filter |-> any, qos |-> 0]} ELSE {}]
Message1(t, retain, empty, qos) == [topic |-> t, retain |-> retain, empty |-> empty, qos |-> qos]
MCUnsubscribes == [c \in Clients |-> {any}]
MCPublishes == [c \in Clients |->
  IF c = sub THEN {Message1(a, FALSE, FALSE, 2), Message1(b, TRUE, FALSE, 2)}
  ELSE {Message1(a, TRUE, FALSE, 0), Message1(a, FALSE, TRUE, 0)}]
MCCleans == [c \in Clients |-> IF c = sub THEN BOOLEAN ELSE {FALSE}]
MCTopicAliasMax == [c \in Clients |-> IF c = sub THEN 1 ELSE 0]
MCWarmupFilters == <<>>
MCMaxConnects   == [c \in Clients |-> IF c = sub THEN 2 ELSE 1]
=============================================================================
