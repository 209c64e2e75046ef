----------------------------- MODULE TopicMatch -----------------------------
(***************************************************************************)
(* Topics and filters, as the broker matches them (rumqttd,                *)
(* protocol/mod.rs) and as the access control compares them                *)
(* (src/acl/matcher.rs).  A topic, a filter or a pattern is the sequence   *)
(* of its levels; "+" and "#" are the wildcards, and "$" stands for any    *)
(* level that begins with a dollar sign.  Nothing stops a client from      *)
(* sending a filter with "#" in the middle.                                *)
(***************************************************************************)
EXTENDS Integers, Sequences

Hashes(filter) == {i \in DOMAIN filter : filter[i] = "#"}

(* The levels of `filter` before its first "#", all of them if it has none. *)
Fixed(filter) ==
  CHOOSE n \in 0 .. Len(filter) :
    /\ \A i \in Hashes(filter) : i > n
    /\ n = Len(filter) \/ n + 1 \in Hashes(filter)

(* "#" matches whatever follows, also nothing; in `topic` only "#" does.    *)
matches(topic, filter) ==
  /\ topic = <<>> \/ topic[1] # "$"
  /\ Len(topic) >= Fixed(filter)
  /\ \A i \in 1 .. Fixed(filter) : topic[i] # "#" /\ filter[i] \in {"+", topic[i]}
  /\ Hashes(filter) = {} => Len(topic) = Len(filter)

-----------------------------------------------------------------------------
EndsInHash(pattern) == pattern # <<>> /\ pattern[Len(pattern)] = "#"

(* What stands before the "#" at the end of a pattern. *)
Before(pattern) == SubSeq(pattern, 1, Len(pattern) - 1)

StartsWith(s, prefix) ==
  Len(prefix) <= Len(s) /\ \A i \in DOMAIN prefix : s[i] = prefix[i]

(* Slip: the two ends of starts_with exchanged. *)
SlipSubscribeAllowed(pattern, filter) ==
  \/ pattern = filter
  \/ EndsInHash(pattern) /\ StartsWith(Before(pattern), filter)

(* Whether a rule's pattern covers a subscription: without "#" at its end   *)
(* it covers itself alone.                                                  *)
subscribe_allowed(pattern, filter) ==
  \/ pattern = filter
  \/ EndsInHash(pattern) /\ StartsWith(filter, Before(pattern))

publish_allowed(pattern, topic) == matches(topic, pattern)

(* A registered "a/#" covers what begins with "a/", not "a" itself: the     *)
(* code's arm for that comes after one that takes all that ends in "#".     *)
registered_covers(registered, target) ==
  \/ registered = target
  \/ /\ EndsInHash(registered)
     /\ StartsWith(target, Before(registered))
     /\ Before(registered) = <<>> \/ Len(target) > Len(Before(registered))
=============================================================================
