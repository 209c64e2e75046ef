---------------------------- MODULE MCCommitLog -----------------------------
(* The commit log with at most MaxMessages appends.                        *)
EXTENDS CommitLog

CONSTANT MaxMessages

MCNext ==
    \/ EndOf(Active) < MaxMessages /\ \E size \in Sizes : AppendMessage(size)
    \/ \E r \in Reader : Subscribe(r) \/ Retransmit(r)
    \/ \E r \in Reader, len \in Quota : ReadBegin(r, len)
    \/ ReadOlder
    \/ ReadActive

MCSpec == Init /\ [][MCNext]_vars
==============================================================================
