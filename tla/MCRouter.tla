------------------------------ MODULE MCRouter ------------------------------
(***************************************************************************)
(* Router on small instances: a client that subscribes and reconnects while *)
(* its old link is still there, and one that publishes.                     *)
(***************************************************************************)
EXTENDS Router

CONSTANTS sub, again, pub, c1, c2, f1

MCClientOf   == sub :> c1 @@ again :> c1 @@ pub :> c2
MCClean      == {pub}
MCSends ==
    sub   :> {[type |-> "Subscribe", filter |-> f1, qos |-> 1], [type |-> "PubAck"]}
    @@ again :> {[type |-> t] : t \in {"BadAck", "Malformed", "Denied"}}
    @@ pub   :> {[type |-> "Publish", filters |-> {f1}, qos |-> 0]}
MCMaxPackets == sub :> 1 @@ again :> 1 @@ pub :> 2
==============================================================================
