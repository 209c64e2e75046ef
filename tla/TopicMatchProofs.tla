-------------------------- MODULE TopicMatchProofs --------------------------
(***************************************************************************)
(* What the comparisons of TopicMatch guarantee, for topics and filters of *)
(* any number of levels.                                                   *)
(***************************************************************************)
EXTENDS TopicMatch, SequenceTheorems, WellFoundedInduction, TLAPS

(* n levels of the filter stand before its first "#". *)
IsFixed(filter, n) ==
  /\ n \in 0 .. Len(filter)
  /\ \A i \in Hashes(filter) : i > n
  /\ n = Len(filter) \/ n + 1 \in Hashes(filter)

Lt == {ss \in Nat \X Nat : ss[1] < ss[2]}

(* The order of the naturals is well-founded. *)
LEMMA LtWellFounded == IsWellFoundedOn(Lt, Nat)
<1>1. IsWellFoundedOn(OpToRel(<, Nat), Nat)
  BY NatLessThanWellFounded
<1>2. OpToRel(<, Nat) = {ss \in Nat \X Nat : ss[1] < ss[2]}
  BY DEF OpToRel
<1> QED BY <1>1, <1>2 DEF Lt

(* A filter has one first "#" or none: Fixed is where. *)
LEMMA FixedIs ==
  ASSUME NEW filter \in Seq(STRING)
  PROVE  IsFixed(filter, Fixed(filter))
<1>1. \E n \in 0 .. Len(filter) : IsFixed(filter, n)
  <2>1. CASE Hashes(filter) = {}
    BY <2>1 DEF IsFixed
  <2>2. CASE Hashes(filter) # {}
    <3>1. Hashes(filter) \subseteq Nat /\ Hashes(filter) \subseteq 1 .. Len(filter)
      BY DEF Hashes
    <3>2. PICK x \in Hashes(filter) : \A y \in Hashes(filter) : ~ (<<y, x>> \in Lt)
      BY <2>2, <3>1, LtWellFounded, WFMin
    <3>3. \A y \in Hashes(filter) : y > x - 1
      <4> SUFFICES ASSUME NEW y \in Hashes(filter) PROVE y > x - 1
        OBVIOUS
      <4>1. x \in Nat /\ y \in Nat /\ ~ (<<y, x>> \in Lt)
        BY <3>1, <3>2
      <4>2. ~ (y < x)
        BY <4>1 DEF Lt
      <4> QED BY <4>1, <4>2
    <3>4. x - 1 \in 0 .. Len(filter) /\ x - 1 + 1 = x
      BY <3>1
    <3> QED BY <3>3, <3>4 DEF IsFixed
  <2> QED BY <2>1, <2>2
<1> DEFINE P(n) == /\ \A i \in Hashes(filter) : i > n
                   /\ n = Len(filter) \/ n + 1 \in Hashes(filter)
<1>2. Fixed(filter) = CHOOSE n \in 0 .. Len(filter) : P(n)
  BY DEF Fixed
<1>3. \E n \in 0 .. Len(filter) : P(n)
  BY <1>1 DEF IsFixed
<1>4. Fixed(filter) \in 0 .. Len(filter) /\ P(Fixed(filter))
  <2> HIDE DEF P
  <2> QED BY <1>2, <1>3
<1> QED BY <1>4 DEF IsFixed

(* The fixed part of a pattern that ends in "#" is the fixed part of what    *)
(* begins with the rest of it, or all of that rest.                          *)
LEMMA FixedBefore ==
  ASSUME NEW pattern \in Seq(STRING), NEW target \in Seq(STRING), EndsInHash(pattern),
         StartsWith(target, Before(pattern))
  PROVE  /\ Len(pattern) - 1 <= Len(target) /\ Fixed(pattern) <= Len(pattern) - 1
         /\ Fixed(pattern) <= Fixed(target) /\ Hashes(pattern) # {}
         /\ \A i \in 1 .. Fixed(pattern) : target[i] = pattern[i] /\ target[i] # "#"
<1> DEFINE n == Len(pattern) - 1
<1>1. /\ n \in Nat /\ Len(pattern) \in Hashes(pattern)
      /\ Before(pattern) \in Seq(STRING) /\ Len(Before(pattern)) = n
      /\ \A i \in 1 .. n : Before(pattern)[i] = pattern[i]
  <2>1. Len(pattern) \in Nat /\ Len(pattern) # 0
    BY DEF EndsInHash
  <2>2. n \in Nat /\ Len(pattern) \in 1 .. Len(pattern) /\ n <= Len(pattern)
    BY <2>1
  <2>3. Len(pattern) \in Hashes(pattern)
    BY <2>2 DEF EndsInHash, Hashes
  <2>4. /\ Before(pattern) \in Seq(STRING) /\ Len(Before(pattern)) = n
        /\ \A i \in 1 .. n : Before(pattern)[i] = pattern[i]
    <3>1. \A i \in 1 .. n : pattern[i] \in STRING
      BY <2>2
    <3>2. Before(pattern) = SubSeq(pattern, 1, n)
      BY DEF Before
    <3>3. n \in Int /\ 1 \in Int /\ n - 1 + 1 = n /\ \A i \in 1 .. n : 1 + i - 1 = i
      BY <2>2
    <3> HIDE DEF n
    <3>4. /\ SubSeq(pattern, 1, n) \in Seq(STRING)
          /\ Len(SubSeq(pattern, 1, n)) = IF 1 <= n THEN n - 1 + 1 ELSE 0
          /\ \A i \in 1 .. n - 1 + 1 : SubSeq(pattern, 1, n)[i] = pattern[1 + i - 1]
      BY <3>1, <3>3, SubSeqProperties
    <3> QED BY <2>2, <3>2, <3>3, <3>4
  <2> QED BY <2>2, <2>3, <2>4
<1>2. n <= Len(target) /\ \A i \in 1 .. n : target[i] = pattern[i]
  BY <1>1 DEF StartsWith
<1>3. IsFixed(pattern, Fixed(pattern)) /\ IsFixed(target, Fixed(target))
  BY FixedIs
<1>4. Fixed(pattern) \in 0 .. n
  BY <1>1, <1>3 DEF IsFixed
<1>5. \A i \in 1 .. n : (i \in Hashes(target)) <=> (i \in Hashes(pattern))
  BY <1>1, <1>2 DEF Hashes
<1>6. Fixed(pattern) <= Fixed(target)
  <2>1. Fixed(target) \in 0 .. Len(target)
        /\ (Fixed(target) = Len(target) \/ Fixed(target) + 1 \in Hashes(target))
        /\ \A i \in Hashes(pattern) : i > Fixed(pattern)
    BY <1>3 DEF IsFixed
  <2>2. CASE Fixed(target) >= n
    BY <2>1, <2>2, <1>4
  <2>3. CASE Fixed(target) < n
    <3>1. Fixed(target) + 1 \in Hashes(pattern)
      BY <2>1, <2>3, <1>1, <1>2, <1>5
    <3> QED BY <3>1, <2>1, <1>4
  <2> QED BY <2>1, <2>2, <2>3, <1>1
<1>7. \A i \in 1 .. Fixed(pattern) : target[i] = pattern[i] /\ target[i] # "#"
  <2>1. ASSUME NEW i \in 1 .. Fixed(pattern) PROVE i \in 1 .. n /\ i \notin Hashes(pattern)
    BY <1>3, <1>4 DEF IsFixed
  <2> QED BY <2>1, <1>1, <1>2 DEF Hashes
<1> QED BY <1>1, <1>2, <1>4, <1>6, <1>7

(* A rule that covers a subscription (src/acl/matcher.rs:4-16) matches every  *)
(* topic that the subscription's filter matches: "#" at the end of the       *)
(* pattern stands for whatever the filter goes on with.                      *)
THEOREM SubscribeCovered ==
  ASSUME NEW pattern \in Seq(STRING), NEW filter \in Seq(STRING), NEW topic \in Seq(STRING),
         EndsInHash(pattern), StartsWith(filter, Before(pattern)), matches(topic, filter)
  PROVE  matches(topic, pattern)
<1>1. /\ Fixed(pattern) <= Fixed(filter) /\ Hashes(pattern) # {}
      /\ \A i \in 1 .. Fixed(pattern) : filter[i] = pattern[i]
  BY FixedBefore
<1>2. Fixed(pattern) \in Nat /\ Fixed(filter) \in Nat
  BY FixedIs DEF IsFixed
<1>3. Len(topic) >= Fixed(pattern)
  BY <1>1, <1>2 DEF matches
<1>4. \A i \in 1 .. Fixed(pattern) : topic[i] # "#" /\ pattern[i] \in {"+", topic[i]}
  BY <1>1, <1>2 DEF matches
<1> QED BY <1>1, <1>3, <1>4 DEF matches

(* A topic that begins with what stands before a pattern's last "#" is       *)
(* matched by the pattern, unless it begins with a dollar sign.              *)
THEOREM PrefixMatches ==
  ASSUME NEW pattern \in Seq(STRING), NEW topic \in Seq(STRING), EndsInHash(pattern),
         StartsWith(topic, Before(pattern)), topic = <<>> \/ topic[1] # "$"
  PROVE  matches(topic, pattern)
<1>1. /\ Len(pattern) - 1 <= Len(topic) /\ Fixed(pattern) <= Len(pattern) - 1
      /\ Hashes(pattern) # {}
      /\ \A i \in 1 .. Fixed(pattern) : topic[i] = pattern[i] /\ topic[i] # "#"
  BY FixedBefore
<1>2. Fixed(pattern) \in Nat
  BY FixedIs DEF IsFixed
<1> QED BY <1>1, <1>2 DEF matches
=============================================================================
