------------------------------ MODULE ReplayLog ------------------------------
(***************************************************************************)
(* What a subscription filter's log promises its readers, with no mention   *)
(* of segments.  Messages are numbered 0, 1, 2, ... in the order they were  *)
(* appended; the log may forget a prefix of them; a reader that falls       *)
(* behind the forgotten prefix is moved to the first message still kept     *)
(* and never anywhere else.  A read returns the next messages in order,     *)
(* none skipped and none twice, and says `done' exactly when it returned    *)
(* the newest one, so that a reader told `done' may be parked.              *)
(***************************************************************************)
EXTENDS Integers, Sequences

CONSTANTS Reader,   \* the data requests that read the log
          Quota     \* how many messages one read may ask for

VARIABLES base,     \* number of the oldest message still kept
          total,    \* number of messages appended so far
          pos,      \* pos[r]: number of the next message of reader r
          got       \* the result of the latest read

vars == <<base, total, pos, got>>

NoRead == [by |-> "none"]

Larger(a, b) == IF a >= b THEN a ELSE b
Smaller(a, b) == IF a <= b THEN a ELSE b

Init ==
    /\ base = 0
    /\ total = 0
    /\ pos = [r \in Reader |-> 0]
    /\ got = NoRead

\* One more message; retention may forget any prefix of the older ones.
Append1 ==
    /\ total' = total + 1
    /\ base' \in base .. total
    /\ UNCHANGED <<pos, got>>

\* A new subscription starts behind the newest message.
Join(r) ==
    /\ pos' = [pos EXCEPT ![r] = total]
    /\ UNCHANGED <<base, total, got>>

\* A resumed session goes back to a message it was given before.
Rewind(r) ==
    /\ \E p \in 0 .. pos[r] : pos' = [pos EXCEPT ![r] = p]
    /\ UNCHANGED <<base, total, got>>

Read(r, n) ==
    LET from == Larger(pos[r], base)
        to   == Smaller(from + n, total)
    IN  /\ got' = [by |-> r, from |-> from, to |-> to, done |-> to = total,
                   msgs |-> [i \in 1 .. to - from |-> from + i - 1]]
        /\ pos' = [pos EXCEPT ![r] = to]
        /\ UNCHANGED <<base, total>>

Next ==
    \/ Append1
    \/ \E r \in Reader : Join(r) \/ Rewind(r)
    \/ \E r \in Reader, n \in Quota : Read(r, n)

Spec == Init /\ [][Next]_vars
==============================================================================
