---------------------------- MODULE MCRouterLive ----------------------------
(***************************************************************************)
(* Router with networks that do not fail and room for two connections: one  *)
(* subscriber of two filters at both qualities of service, one publisher,   *)
(* and a third client that only connects.                                   *)
(***************************************************************************)
EXTENDS Router

CONSTANTS sub, pub, late, c1, c2, c3, f1, f2

MCClientOf   == sub :> c1 @@ pub :> c2 @@ late :> c3
MCSends ==
    sub :> {[type |-> "Subscribe", filter |-> f1, qos |-> 1],
            [type |-> "Subscribe", filter |-> f2, qos |-> 0],
            [type |-> "Unsubscribe", filter |-> f2], [type |-> "PubAck"]}
    @@ pub :> {[type |-> "Publish", filters |-> {f1, f2}, qos |-> 1], [type |-> "PingReq"]}
    @@ late :> {}
MCMaxPackets == sub :> 2 @@ pub :> 1 @@ late :> 0
==============================================================================
