----------------------------- MODULE MCOutgoing -----------------------------
(* The inflight window with at most MaxMessages publishes in each log and   *)
(* MaxPubrels PubRels unanswered.                                            *)
EXTENDS Outgoing, TLC

CONSTANTS MaxMessages, MaxPubrels

CONSTANTS q1, q2, f1, f2
OnePerFilter  == (q1 :> f1) @@ (q2 :> f2)

MCNext ==
    \/ \E f \in Filter : log[f] < MaxMessages /\ Publish(f)
    \/ \E q \in Request : Subscribe(q) \/ ForwardDeviceData(q)
    \/ AckDeviceData
    \/ \E p \in Pkid : PubAck(p) \/ BadAck(p) \/ PubComp(p) \/ BadPubComp(p)
    \/ \E p \in Pkid : Len(unacked_pubrels) < MaxPubrels /\ PubRec(p)
    \/ LinkLost
    \/ Connect

MCSpec == Init /\ [][MCNext]_vars
==============================================================================
