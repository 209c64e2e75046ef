--------------------------- MODULE DeliveryProofs ---------------------------
(***************************************************************************)
(* Theorems about Delivery for any clients, topics, filters and bounds.     *)
(***************************************************************************)
EXTENDS Delivery, TopicMatchProofs, FiniteSetTheorems

Pub      == [topic : Topics, retain : BOOLEAN, empty : BOOLEAN, qos : {0, 1, 2}]
Table(S) == UNION {[D -> S] : D \in SUBSET Filters}
Conn     == [clean : BOOLEAN, requests : Table(Request), mapped : SUBSET Filters,
             inflight : Seq(Slot), aliases : Table(Nat), recorded : Seq(Pub)]

\* The messages of a log match its filter.
LogsMatch ==
  \A i \in DOMAIN native : \A n \in DOMAIN native[i].log :
    matches(native[i].log[n].topic, native[i].filter)

LogInv ==
  /\ native \in Seq(Data)
  /\ publish_filters \in [Topics -> Seq(DOMAIN native)]
  /\ retained_publishes \in [Topics -> 0 .. Len(published)]
  /\ published \in Seq(Topics)
  /\ CacheComplete /\ LogsMatch

\* Every request reads a log there is.
Indexed(slab, f)     == \E i \in DOMAIN slab : slab[i].filter = f
Located(slab, table) == \A f \in DOMAIN table : Indexed(slab, f)

\* An alias in use stands, for who knows `topics', for a topic of its filter.
AliasOK(aliases, topics, max) ==
  /\ IsInjective(aliases)
  /\ \A f \in DOMAIN aliases :
       /\ aliases[f] \in 1 .. max /\ topics[aliases[f]] # Unknown
       /\ matches(topics[aliases[f]], f)

ConnOK(k, topics, owes, max) ==
  /\ k \in Conn
  /\ k.mapped \subseteq DOMAIN k.requests
  /\ DOMAIN k.aliases \subseteq DOMAIN k.requests
  /\ Len(k.inflight) <= MaxInflight
  /\ Len(k.recorded) <= Len(owes)
  /\ AliasOK(k.aliases, topics, max)

Session == [requests : Table(Request)]

ClientOK(slab, k, g, topics, owes, max) ==
  /\ k # Gone => ConnOK(k, topics, owes, max) /\ Located(slab, k.requests)
  /\ g # Gone => g \in Session /\ Located(slab, g.requests)
  /\ topics \in [1 .. max -> Topics \cup {Unknown}]
  /\ owes \in Seq(Pub)

SessionInv ==
  /\ connections = [c \in Clients |-> connections[c]]
  /\ graveyard = [c \in Clients |-> graveyard[c]]
  /\ learned = [c \in Clients |-> learned[c]]
  /\ owed = [c \in Clients |-> owed[c]]
  /\ connects \in [Clients -> Nat]
  /\ \A c \in Clients :
       ClientOK(native, connections[c], graveyard[c], learned[c], owed[c], TopicAliasMax[c])

IInv == LogInv /\ SessionInv

-----------------------------------------------------------------------------
\* A finite set has an order, and an order names each element once.
LEMMA OrdersName ==
  ASSUME NEW S, IsFiniteSet(S)
  PROVE  /\ Orders(S) # {}
         /\ \A s \in Orders(S) : s \in Seq(S) /\ IsInjective(s) /\ Range(s) = S
                                 /\ Len(s) = Cardinality(S)
<1> DEFINE n == Cardinality(S)
<1>1. n \in Nat /\ ExistsBijection(1 .. n, S)
  BY FS_CardinalityType
<1>2. PICK b \in Bijection(1 .. n, S) : TRUE
  BY <1>1 DEF ExistsBijection
<1>3. b \in Orders(S)
  BY <1>2 DEF Orders, Bijection, Surjection, Injection, Range
<1>4. ASSUME NEW s \in Orders(S)
      PROVE  s \in Seq(S) /\ IsInjective(s) /\ Range(s) = S /\ Len(s) = n
  <2>1. s \in [1 .. n -> S] /\ Range(s) = S
    BY DEF Orders
  <2>2. s \in Seq(S) /\ Len(s) = n
    BY <1>1, <2>1
  <2>3. s \in Surjection(1 .. n, S)
    BY <2>1 DEF Surjection, Range
  <2>4. IsFiniteSet(1 .. n) /\ Cardinality(1 .. n) = n
    BY <1>1, FS_Interval
  <2>5. s \in Injection(1 .. n, S)
    BY <2>3, <2>4, FS_Surjection
  <2> QED BY <2>1, <2>2, <2>5 DEF Injection
<1> QED BY <1>3, <1>4

\* The slots a publish goes to, cached or not.
LEMMA MatchesAll ==
  ASSUME LogInv, NEW t \in Topics
  PROVE  /\ Matches(t) \in Seq(DOMAIN native) /\ IsInjective(Matches(t))
         /\ Range(Matches(t)) = {i \in DOMAIN native : matches(t, native[i].filter)}
<1>1. CASE publish_filters[t] # <<>>
  BY <1>1 DEF LogInv, CacheComplete, Matches
<1>2. CASE publish_filters[t] = <<>>
  <2> DEFINE S == {i \in DOMAIN native : matches(t, native[i].filter)}
  <2>1. DOMAIN native = 1 .. Len(native) /\ Len(native) \in Nat
    BY DEF LogInv
  <2>2. IsFiniteSet(S)
    <3>1. IsFiniteSet(1 .. Len(native))
      BY <2>1, FS_Interval
    <3> QED BY <2>1, <3>1, FS_Subset
  <2>3. Matches(t) = CHOOSE s \in Orders(S) : TRUE
    BY <1>2 DEF Matches
  <2> HIDE DEF S
  <2>4. Matches(t) \in Orders(S)
    BY <2>2, <2>3, OrdersName
  <2>5. Matches(t) \in Seq(S) /\ IsInjective(Matches(t)) /\ Range(Matches(t)) = S
    BY <2>2, <2>4, OrdersName
  <2>6. S \subseteq DOMAIN native
    BY DEF S
  <2> QED BY <2>5, <2>6 DEF S
<1> QED BY <1>1, <1>2

\* A filter keeps its place and its log.
Grows ==
  /\ DOMAIN native \subseteq DOMAIN native'
  /\ \A i \in DOMAIN native : native'[i].filter = native[i].filter

\* A filter that has a log keeps it.
LEMMA LocatedStays ==
  ASSUME Grows, NEW table, Located(native, table)
  PROVE  Located(native', table)
BY DEF Grows, Indexed, Located

\* DataLog::next_native_offset keeps the logs and the cache in order.
LEMMA CreateKeeps ==
  ASSUME LogInv, NEW f \in Filters, Create(f), UNCHANGED <<retained_publishes, published>>
  PROVE  LogInv' /\ Grows /\ Indexed(native', f)
<1>1. CASE IndexOf(f) # {}
  <2>1. UNCHANGED <<native, publish_filters>>
    BY <1>1 DEF Create
  <2> QED BY <1>1, <2>1 DEF LogInv, Grows, IndexOf, Indexed, CacheComplete, LogsMatch
<1>2. CASE IndexOf(f) = {}
  <2> DEFINE d == [filter |-> f, log |-> <<>>, since |-> Len(published)]
             m == Len(native) + 1
  <2>1. /\ native' = Append(native, d)
        /\ publish_filters' = [t \in Topics |->
              IF publish_filters[t] # <<>> /\ matches(t, f)
              THEN Append(publish_filters[t], m) ELSE publish_filters[t]]
    BY <1>2 DEF Create
  <2>2. d \in Data /\ d.filter = f /\ d.log = <<>> /\ DOMAIN d.log = {}
    BY DEF Data, LogInv
  <2> HIDE DEF d
  <2>3. /\ native' \in Seq(Data) /\ DOMAIN native' = DOMAIN native \cup {m}
        /\ m \notin DOMAIN native /\ native'[m] = d
        /\ \A i \in DOMAIN native : native'[i] = native[i]
    BY <2>1, <2>2 DEF LogInv
  <2> HIDE DEF m
  <2>4. Grows /\ Indexed(native', f)
    BY <2>2, <2>3 DEF Grows, Indexed
  <2>5. LogsMatch'
    BY <2>2, <2>3 DEF LogInv, LogsMatch
  <2>6. ASSUME NEW t \in Topics
        PROVE  /\ publish_filters'[t] \in Seq(DOMAIN native')
               /\ publish_filters'[t] # <<>> =>
                    /\ IsInjective(publish_filters'[t])
                    /\ Range(publish_filters'[t]) = {i \in DOMAIN native' : matches(t, native'[i].filter)}
    <3> DEFINE old == publish_filters[t]
               hit == {i \in DOMAIN native : matches(t, native[i].filter)}
    <3>1. old \in Seq(DOMAIN native) /\ (old # <<>> => IsInjective(old) /\ Range(old) = hit)
      BY DEF LogInv, CacheComplete
    <3>2. CASE old # <<>> /\ matches(t, f)
      <4>1. publish_filters'[t] = Append(old, m)
        BY <2>1, <3>2
      <4>2. {i \in DOMAIN native' : matches(t, native'[i].filter)} = hit \cup {m}
        BY <2>2, <2>3, <3>2
      <4> HIDE DEF old, hit
      <4>3. /\ DOMAIN Append(old, m) = DOMAIN old \cup {Len(old) + 1}
            /\ Append(old, m)[Len(old) + 1] = m
            /\ \A k \in DOMAIN old : Append(old, m)[k] = old[k] /\ old[k] \in DOMAIN native
        BY <3>1
      <4>4. Append(old, m) \in Seq(DOMAIN native')
        BY <2>3, <3>1
      <4>5. IsInjective(Append(old, m))
        BY <2>3, <3>1, <3>2, <4>3 DEF IsInjective
      <4>6. Range(Append(old, m)) = Range(old) \cup {m}
        BY <4>3 DEF Range
      <4> QED BY <3>1, <3>2, <4>1, <4>2, <4>4, <4>5, <4>6
    <3>3. CASE ~(old # <<>> /\ matches(t, f))
      <4>1. publish_filters'[t] = old
        BY <2>1, <3>3
      <4>2. old # <<>> => {i \in DOMAIN native' : matches(t, native'[i].filter)} = hit
        BY <2>2, <2>3, <3>3
      <4> HIDE DEF hit
      <4>3. old \in Seq(DOMAIN native')
        BY <2>3, <3>1
      <4> QED BY <3>1, <4>1, <4>2, <4>3
    <3> QED BY <3>2, <3>3
  <2>7. publish_filters' \in [Topics -> Seq(DOMAIN native')] /\ CacheComplete'
    BY <2>1, <2>6 DEF CacheComplete
  <2> QED BY <2>3, <2>4, <2>5, <2>7 DEF LogInv
<1> QED BY <1>1, <1>2

\* append_to_commitlog keeps them too.
LEMMA AppendKeeps ==
  ASSUME LogInv, NEW p \in Pub, NEW meant \in Topics, AppendToCommitlog(p, meant)
  PROVE  LogInv' /\ Grows
<1> DEFINE id  == Len(published) + 1
           hit == Matches(p.topic)
           New(i) == [n \in 1 .. Cardinality({k \in DOMAIN hit : hit[k] = i}) |->
                        [id |-> id, topic |-> p.topic]]
<1>1. /\ retained_publishes' = Retained(p, id)
      /\ publish_filters' = [publish_filters EXCEPT ![p.topic] = hit]
      /\ native' = [i \in DOMAIN native |-> [native[i] EXCEPT !.log = @ \o New(i)]]
      /\ published' = Append(published, meant)
  BY DEF AppendToCommitlog
<1>2. p.topic \in Topics
  BY DEF Pub
<1>3. /\ hit \in Seq(DOMAIN native) /\ IsInjective(hit)
      /\ Range(hit) = {i \in DOMAIN native : matches(p.topic, native[i].filter)}
  BY <1>2, MatchesAll
<1> HIDE DEF hit
<1>4. published' \in Seq(Topics) /\ Len(published') = Len(published) + 1 /\ Len(published) \in Nat
  BY <1>1 DEF LogInv
<1>5. retained_publishes' \in [Topics -> 0 .. Len(published')]
  <2> DEFINE old == retained_publishes
             new == [old EXCEPT ![p.topic] = IF p.empty THEN 0 ELSE IF p.retain THEN id ELSE @]
  <2>1. old \in [Topics -> 0 .. Len(published)]
    BY DEF LogInv
  <2>2. \A t \in Topics : new[t] \in 0 .. id
    BY <1>4, <2>1
  <2>3. new \in [Topics -> 0 .. id]
    BY <2>1, <2>2
  <2> QED BY <1>1, <1>4, <2>3 DEF Retained
<1>6. ASSUME NEW i \in DOMAIN native
      PROVE  /\ native'[i] \in Data /\ native'[i].filter = native[i].filter
             /\ \A n \in DOMAIN native'[i].log : matches(native'[i].log[n].topic, native[i].filter)
  <2> DEFINE S == {k \in DOMAIN hit : hit[k] = i}
  <2>1. IsFiniteSet(S)
    <3>1. DOMAIN hit = 1 .. Len(hit) /\ Len(hit) \in Nat
      BY <1>3
    <3>2. IsFiniteSet(1 .. Len(hit))
      BY <3>1, FS_Interval
    <3> QED BY <3>1, <3>2, FS_Subset
  <2>2. Cardinality(S) \in Nat
    BY <2>1, FS_CardinalityType
  <2>3. S = {} => Cardinality(S) = 0
    BY FS_EmptySet
  <2>4. S # {} => matches(p.topic, native[i].filter)
    BY <1>3 DEF Range
  <2> DEFINE c == Cardinality(S)
             old == native[i].log
  <2>5. New(i) = [n \in 1 .. c |-> [id |-> id, topic |-> p.topic]]
    OBVIOUS
  <2> HIDE DEF c, New
  <2>6. c \in Nat /\ (c # 0 => matches(p.topic, native[i].filter))
    BY <2>2, <2>3, <2>4 DEF c
  <2>7. native[i] \in Data /\ old \in Seq(Message)
    <3>1. native \in Seq(Data)
      BY DEF LogInv
    <3>2. native[i] \in Data
      BY <3>1
    <3> QED BY <3>2 DEF Data
  <2>8. New(i) \in Seq(Message) /\ Len(New(i)) = c /\ \A n \in 1 .. c : New(i)[n].topic = p.topic
    <3>1. [id |-> id, topic |-> p.topic] \in Message
      BY <1>2, <1>4 DEF Message
    <3> QED BY <2>5, <2>6, <3>1
  <2>9. native'[i] = [native[i] EXCEPT !.log = old \o New(i)]
    BY <1>1 DEF New
  <2>10. /\ old \o New(i) \in Seq(Message) /\ Len(old \o New(i)) = Len(old) + c
         /\ \A n \in 1 .. Len(old) : (old \o New(i))[n] = old[n]
         /\ \A n \in Len(old) + 1 .. Len(old) + c : (old \o New(i))[n] = New(i)[n - Len(old)]
    BY <2>6, <2>7, <2>8
  <2>11. /\ native'[i] \in Data /\ native'[i].filter = native[i].filter
         /\ native'[i].log = old \o New(i)
    BY <2>7, <2>9, <2>10 DEF Data
  <2>12. ASSUME NEW n \in DOMAIN (old \o New(i))
         PROVE  matches((old \o New(i))[n].topic, native[i].filter)
    <3>1. CASE n \in 1 .. Len(old)
      <4>1. n \in DOMAIN native[i].log
        BY <2>7, <3>1
      <4> QED BY <2>10, <3>1, <4>1 DEF LogInv, LogsMatch
    <3>2. CASE n \in Len(old) + 1 .. Len(old) + c
      <4>1. n - Len(old) \in 1 .. c
        BY <2>6, <2>7, <3>2
      <4>2. c # 0
        BY <2>6, <4>1
      <4>3. (old \o New(i))[n].topic = p.topic
        BY <2>8, <2>10, <3>2, <4>1
      <4> QED BY <2>6, <4>2, <4>3
    <3> QED BY <2>6, <2>7, <2>10, <3>1, <3>2
  <2> QED BY <2>11, <2>12
<1> HIDE DEF New
<1>7. native' \in Seq(Data) /\ DOMAIN native' = DOMAIN native
  <2>1. DOMAIN native = 1 .. Len(native) /\ Len(native) \in Nat
    BY DEF LogInv
  <2>2. DOMAIN native' = 1 .. Len(native) /\ native' = [i \in 1 .. Len(native) |-> native'[i]]
    BY <1>1, <2>1
  <2>3. \A i \in 1 .. Len(native) : native'[i] \in Data
    BY <1>6, <2>1
  <2> QED BY <2>1, <2>2, <2>3
<1>8. Grows /\ LogsMatch'
  BY <1>6, <1>7 DEF Grows, LogsMatch
<1>9. \A t : {i \in DOMAIN native' : matches(t, native'[i].filter)}
              = {i \in DOMAIN native : matches(t, native[i].filter)}
  BY <1>6, <1>7
<1>10. publish_filters' \in [Topics -> Seq(DOMAIN native')] /\ CacheComplete'
  <2>1. ASSUME NEW t \in Topics
        PROVE  /\ publish_filters'[t] \in Seq(DOMAIN native)
               /\ publish_filters'[t] # <<>> =>
                    /\ IsInjective(publish_filters'[t])
                    /\ Range(publish_filters'[t]) = {i \in DOMAIN native : matches(t, native[i].filter)}
    <3>1. CASE t = p.topic
      BY <1>1, <1>2, <1>3, <3>1 DEF LogInv
    <3>2. CASE t # p.topic
      BY <1>1, <3>2 DEF LogInv, CacheComplete
    <3> QED BY <3>1, <3>2
  <2> QED BY <1>1, <1>7, <1>9, <2>1 DEF LogInv, CacheComplete
<1> QED BY <1>4, <1>5, <1>7, <1>8, <1>10 DEF LogInv
-----------------------------------------------------------------------------
\* Functions from some of the filters.
LEMMA TableSet ==
  ASSUME NEW S, NEW t \in Table(S), NEW f \in Filters, NEW v \in S
  PROVE  With(t, f, v) \in Table(S)
<1>1. DOMAIN t \in SUBSET Filters /\ \A g \in DOMAIN t : t[g] \in S
  BY DEF Table
<1>2. With(t, f, v) \in [DOMAIN t \cup {f} -> S]
  BY <1>1 DEF With
<1>3. DOMAIN t \cup {f} \in SUBSET Filters
  BY <1>1
<1> QED BY <1>2, <1>3 DEF Table

\* A function from filters, less one of them.
LEMMA TableUnset ==
  ASSUME NEW S, NEW t \in Table(S), NEW f
  PROVE  Without(t, f) \in Table(S)
<1>1. DOMAIN t \in SUBSET Filters /\ \A g \in DOMAIN t : t[g] \in S
  BY DEF Table
<1>2. Without(t, f) \in [DOMAIN t \ {f} -> S]
  BY <1>1 DEF Without
<1>3. DOMAIN t \ {f} \in SUBSET Filters
  BY <1>1
<1> QED BY <1>2, <1>3 DEF Table

\* What such a function holds afterwards.
LEMMA WithIs ==
  ASSUME NEW t, NEW f, NEW v
  PROVE  /\ DOMAIN With(t, f, v) = DOMAIN t \cup {f} /\ With(t, f, v)[f] = v
         /\ \A g \in DOMAIN t : g # f => With(t, f, v)[g] = t[g]
BY DEF With

\* What it holds without that filter.
LEMMA WithoutIs ==
  ASSUME NEW t, NEW f
  PROVE  /\ DOMAIN Without(t, f) = DOMAIN t \ {f}
         /\ \A g \in DOMAIN t \ {f} : Without(t, f)[g] = t[g]
BY DEF Without

\* The empty sequence is the function from no filter.
LEMMA TableEmpty ==
  ASSUME NEW S
  PROVE  <<>> \in Table(S) /\ DOMAIN <<>> = {}
<1>1. <<>> \in [{} -> S]
  OBVIOUS
<1> QED BY <1>1 DEF Table

\* Such a function is what TypeOK calls a table.
LEMMA TableOf ==
  ASSUME NEW S, NEW t \in Table(S)
  PROVE  IsTable(t, S)
BY DEF Table, IsTable

\* A set of naturals that is not empty has a least member, and a greatest one
\* if it is bounded.
LEMMA LeastMember ==
  ASSUME NEW S \in SUBSET Nat, S # {}
  PROVE  \E n \in S : \A m \in S : n <= m
<1>1. \E n \in S : \A m \in S : ~ (<<m, n>> \in Lt)
  BY LtWellFounded, WFMin
<1>2. PICK n \in S : \A m \in S : ~ (<<m, n>> \in Lt)
  BY <1>1
<1>3. ASSUME NEW m \in S
      PROVE  n <= m
  <2>1. m \in Nat /\ n \in Nat
    OBVIOUS
  <2>2. m < n => <<m, n>> \in Lt
    BY <2>1 DEF Lt
  <2> QED BY <1>2, <2>1, <2>2
<1> QED BY <1>3

\* A set of positive numbers that is bounded has a greatest member.
LEMMA GreatestMember ==
  ASSUME NEW bound \in Nat, NEW S \in SUBSET (1 .. bound), S # {}
  PROVE  \E n \in S : \A m \in S : m <= n
<1> DEFINE T == {bound - m : m \in S}
<1>1. T \in SUBSET Nat /\ T # {}
  <2>1. \A m \in S : bound - m \in Nat
    OBVIOUS
  <2> QED BY <2>1
<1> HIDE DEF T
<1>2. PICK n \in T : \A m \in T : n <= m
  BY <1>1, LeastMember
<1>3. PICK k \in S : n = bound - k
  BY DEF T
<1>4. \A m \in S : m <= k
  <2> SUFFICES ASSUME NEW m \in S PROVE m <= k
    OBVIOUS
  <2>1. bound - m \in T
    BY DEF T
  <2> QED BY <1>2, <1>3, <2>1
<1> QED BY <1>4

\* An action is about one client.
Others(c) ==
  /\ connections' = [d \in Clients |-> connections'[d]]
  /\ graveyard' = [d \in Clients |-> graveyard'[d]]
  /\ learned' = [d \in Clients |-> learned'[d]]
  /\ owed' = [d \in Clients |-> owed'[d]]
  /\ \A d \in Clients \ {c} : /\ connections'[d] = connections[d] /\ graveyard'[d] = graveyard[d]
                              /\ learned'[d] = learned[d] /\ owed'[d] = owed[d]

\* What an action does to one client leaves the others as they should be.
LEMMA OneClient ==
  ASSUME SessionInv, Grows, NEW c \in Clients, Others(c), connects' \in [Clients -> Nat],
         ClientOK(native', connections'[c], graveyard'[c], learned'[c], owed'[c], TopicAliasMax[c])
  PROVE  SessionInv'
<1>1. ASSUME NEW d \in Clients, d # c
      PROVE  ClientOK(native', connections[d], graveyard[d], learned[d], owed[d], TopicAliasMax[d])
  <2>1. ClientOK(native, connections[d], graveyard[d], learned[d], owed[d], TopicAliasMax[d])
    BY DEF SessionInv
  <2> QED BY <2>1, LocatedStays DEF ClientOK
<1>2. \A d \in Clients :
        ClientOK(native', connections'[d], graveyard'[d], learned'[d], owed'[d], TopicAliasMax[d])
  BY <1>1 DEF Others
<1> QED BY <1>2 DEF SessionInv, Others

\* The same, of an action that touches the client's connection alone.
LEMMA OneConnection ==
  ASSUME SessionInv, Grows, NEW c \in Clients, Live(c), Others(c),
         UNCHANGED <<graveyard, learned, owed, connects>>,
         ConnOK(connections'[c], learned[c], owed[c], TopicAliasMax[c]),
         Located(native', connections'[c].requests)
  PROVE  SessionInv'
<1>1. ClientOK(native, connections[c], graveyard[c], learned[c], owed[c], TopicAliasMax[c])
  BY DEF SessionInv
<1>2. ClientOK(native', connections'[c], graveyard'[c], learned'[c], owed'[c], TopicAliasMax[c])
  BY <1>1, LocatedStays DEF ClientOK
<1> QED BY <1>2, OneClient DEF SessionInv

\* What holds of a live connection.
LEMMA LiveOK ==
  ASSUME SessionInv, NEW c \in Clients, Live(c)
  PROVE  /\ ConnOK(connections[c], learned[c], owed[c], TopicAliasMax[c])
         /\ Located(native, connections[c].requests)
         /\ learned[c] \in [1 .. TopicAliasMax[c] -> Topics \cup {Unknown}]
         /\ owed[c] \in Seq(Pub)
BY DEF SessionInv, ClientOK, Live

\* An action that leaves the data alone.
LEMMA SameLogs ==
  ASSUME LogInv, UNCHANGED <<native, publish_filters, retained_publishes, published>>
  PROVE  LogInv' /\ Grows
BY DEF LogInv, Grows, CacheComplete, LogsMatch

-----------------------------------------------------------------------------
\* PUBACK and PUBREC take the oldest message out of the window.
LEMMA AckKeeps ==
  ASSUME IInv, NEW c \in Clients, Ack(c)
  PROVE  IInv'
<1> DEFINE old == connections[c]
           new == [old EXCEPT !.inflight = Tail(@)]
<1>1. /\ ConnOK(old, learned[c], owed[c], TopicAliasMax[c]) /\ Located(native, old.requests)
      /\ old.inflight # <<>> /\ Live(c) /\ LogInv' /\ Grows
  BY LiveOK, SameLogs DEF IInv, Ack
<1>2. Others(c) /\ connections'[c] = new
  BY DEF IInv, SessionInv, Ack, Others
<1>3. /\ new \in Conn /\ Len(new.inflight) <= MaxInflight
      /\ new.requests = old.requests /\ new.mapped = old.mapped /\ new.aliases = old.aliases
      /\ new.recorded = old.recorded
  <2>1. old \in Conn /\ old.inflight \in Seq(Slot) /\ Len(old.inflight) <= MaxInflight
    BY <1>1 DEF ConnOK, Conn
  <2>2. Tail(old.inflight) \in Seq(Slot) /\ Len(Tail(old.inflight)) = Len(old.inflight) - 1
    BY <1>1, <2>1
  <2>3. Len(Tail(old.inflight)) <= MaxInflight
    <3>1. MaxInflight \in Nat /\ Len(old.inflight) \in Nat
      BY <2>1, DeliveryAssumption
    <3> HIDE DEF old
    <3> QED BY <2>1, <2>2, <3>1
  <2> QED BY <2>1, <2>2, <2>3 DEF Conn
<1>4. ConnOK(new, learned[c], owed[c], TopicAliasMax[c])
  BY <1>1, <1>3 DEF ConnOK
<1>5. Located(native', connections'[c].requests)
  BY <1>1, <1>2, <1>3, LocatedStays
<1> QED BY <1>1, <1>2, <1>4, <1>5, OneConnection DEF IInv, Ack

\* SUBSCRIBE gives the filter a log before it gives the client a request of it.
LEMMA SubscribeKeeps ==
  ASSUME IInv, NEW c \in Clients, NEW s \in Subscribes[c], Subscribe(c, s.filter, s.qos)
  PROVE  IInv'
<1> DEFINE f == s.filter
           old == connections[c]
           r == [cursor |-> EndOf(f), qos |-> s.qos, forward_retained |-> TRUE,
                 start |-> EndOf(f), missed |-> {}, last |-> [t \in Topics |-> 0]]
           table == IF f \in DOMAIN old.requests THEN old.requests ELSE With(old.requests, f, r)
           new == [old EXCEPT !.mapped = @ \cup {f}, !.requests = table]
<1>1. f \in Filters /\ s.qos \in {0, 1}
  BY DeliveryAssumption
<1>2. LogInv' /\ Grows /\ Indexed(native', f)
  BY <1>1, CreateKeeps DEF IInv, Subscribe
<1>3. /\ ConnOK(old, learned[c], owed[c], TopicAliasMax[c]) /\ Located(native, old.requests)
      /\ Live(c)
  BY LiveOK DEF IInv, Subscribe
<1>4. Others(c) /\ connections'[c] = new
  BY DEF IInv, SessionInv, Subscribe, Others
<1>5. old \in Conn /\ old.requests \in Table(Request)
  BY <1>3 DEF ConnOK, Conn
<1>6. EndOf(f) \in Nat
  <2>1. native \in Seq(Data)
    BY DEF IInv, LogInv
  <2>2. CASE IndexOf(f) # {}
    <3>1. (CHOOSE i \in IndexOf(f) : TRUE) \in DOMAIN native
      BY <2>2 DEF IndexOf
    <3>2. native[CHOOSE i \in IndexOf(f) : TRUE] \in Data
      BY <2>1, <3>1
    <3> QED BY <2>2, <3>2 DEF EndOf, Data
  <2> QED BY <2>2 DEF EndOf
<1>7. r \in Request
  BY <1>1, <1>6 DEF Request
<1> HIDE DEF r
<1>8. table \in Table(Request) /\ DOMAIN table = DOMAIN old.requests \cup {f}
  <2>1. /\ With(old.requests, f, r) \in Table(Request)
        /\ DOMAIN With(old.requests, f, r) = DOMAIN old.requests \cup {f}
    <3>1. old.requests \in Table(Request) /\ f \in Filters /\ r \in Request
      BY <1>1, <1>5, <1>7
    <3>2. With(old.requests, f, r) \in Table(Request)
      BY <3>1, TableSet
    <3> QED BY <3>2 DEF With
  <2> QED BY <1>5, <2>1
<1>9. Located(native', table)
  BY <1>2, <1>3, <1>8, LocatedStays DEF Located
<1> HIDE DEF table
<1>10. /\ new \in Conn /\ new.requests = table /\ new.mapped = old.mapped \cup {f}
       /\ new.aliases = old.aliases /\ new.recorded = old.recorded /\ new.inflight = old.inflight
  BY <1>1, <1>5, <1>8 DEF Conn
<1>11. ConnOK(new, learned[c], owed[c], TopicAliasMax[c])
  BY <1>3, <1>8, <1>10 DEF ConnOK
<1> HIDE DEF new
<1> QED BY <1>2, <1>3, <1>4, <1>9, <1>10, <1>11, OneConnection DEF IInv, Subscribe

\* UNSUBSCRIBE takes the request, its alias and its mapping together.
LEMMA UnsubscribeKeeps ==
  ASSUME IInv, NEW c \in Clients, NEW f, Unsubscribe(c, f)
  PROVE  IInv'
<1> DEFINE old == connections[c]
           new == [old EXCEPT !.mapped = @ \ {f}, !.requests = Without(@, f),
                              !.aliases = Without(@, f)]
<1>1. /\ ConnOK(old, learned[c], owed[c], TopicAliasMax[c]) /\ Located(native, old.requests)
      /\ Live(c) /\ LogInv' /\ Grows
  BY LiveOK, SameLogs DEF IInv, Unsubscribe
<1>2. Others(c) /\ connections'[c] = new
  BY DEF IInv, SessionInv, Unsubscribe, Others
<1>3. old \in Conn /\ old.requests \in Table(Request) /\ old.aliases \in Table(Nat)
  BY <1>1 DEF ConnOK, Conn
<1>4. /\ Without(old.requests, f) \in Table(Request)
      /\ DOMAIN Without(old.requests, f) = DOMAIN old.requests \ {f}
  BY <1>3, TableUnset, WithoutIs
<1>5. /\ Without(old.aliases, f) \in Table(Nat)
      /\ DOMAIN Without(old.aliases, f) = DOMAIN old.aliases \ {f}
      /\ \A g \in DOMAIN old.aliases \ {f} : Without(old.aliases, f)[g] = old.aliases[g]
  BY <1>3, TableUnset, WithoutIs
<1>6. /\ new \in Conn /\ new.requests = Without(old.requests, f) /\ new.mapped = old.mapped \ {f}
      /\ new.aliases = Without(old.aliases, f) /\ new.recorded = old.recorded
      /\ new.inflight = old.inflight
  BY <1>3, <1>4, <1>5 DEF Conn
<1>7. AliasOK(new.aliases, learned[c], TopicAliasMax[c])
  BY <1>1, <1>5, <1>6 DEF ConnOK, AliasOK, IsInjective
<1>8. ConnOK(new, learned[c], owed[c], TopicAliasMax[c])
  BY <1>1, <1>4, <1>5, <1>6, <1>7 DEF ConnOK
<1>9. Located(native', new.requests)
  BY <1>1, <1>4, <1>6, LocatedStays DEF Located
<1> HIDE DEF new
<1> QED BY <1>1, <1>2, <1>8, <1>9, OneConnection DEF IInv, Unsubscribe

\* An action that leaves the clients alone.
LEMMA SameSessions ==
  ASSUME SessionInv, Grows, UNCHANGED <<connections, graveyard, learned, owed, connects>>
  PROVE  SessionInv'
<1>1. ASSUME NEW c \in Clients
      PROVE  ClientOK(native', connections[c], graveyard[c], learned[c], owed[c], TopicAliasMax[c])
  <2>1. ClientOK(native, connections[c], graveyard[c], learned[c], owed[c], TopicAliasMax[c])
    BY DEF SessionInv
  <2> QED BY <2>1, LocatedStays DEF ClientOK
<1> QED BY <1>1 DEF SessionInv

\* PUBLISH with QoS 0 or 1.
LEMMA PublishKeeps ==
  ASSUME IInv, NEW c \in Clients, NEW p \in Publishes[c], Publish(c, p)
  PROVE  IInv'
<1>1. p \in Pub /\ p.topic \in Topics
  BY DeliveryAssumption DEF Pub
<1>2. LogInv' /\ Grows
  BY <1>1, AppendKeeps DEF IInv, Publish
<1> QED BY <1>2, SameSessions DEF IInv, Publish

\* PUBLISH with QoS 2: what is recorded is never more than is owed.
LEMMA RecordKeeps ==
  ASSUME IInv, NEW c \in Clients, NEW p \in Publishes[c], Record(c, p)
  PROVE  IInv'
<1> DEFINE old == connections[c]
           new == [old EXCEPT !.recorded = Append(@, p)]
<1>1. /\ ConnOK(old, learned[c], owed[c], TopicAliasMax[c]) /\ Located(native, old.requests)
      /\ Live(c) /\ LogInv' /\ Grows /\ owed[c] \in Seq(Pub)
  BY LiveOK, SameLogs DEF IInv, Record
<1>2. p \in Pub
  BY DeliveryAssumption DEF Pub
<1>3. /\ Others(c) /\ connections'[c] = new /\ owed'[c] = Append(owed[c], p)
      /\ graveyard' = graveyard /\ learned' = learned /\ connects' = connects
  BY DEF IInv, SessionInv, Record, Others
<1>4. old \in Conn /\ old.recorded \in Seq(Pub) /\ Len(old.recorded) <= Len(owed[c])
  BY <1>1 DEF ConnOK, Conn
<1>5. /\ new \in Conn /\ new.recorded = Append(old.recorded, p)
      /\ new.requests = old.requests /\ new.mapped = old.mapped /\ new.aliases = old.aliases
      /\ new.inflight = old.inflight
  <2>1. Append(old.recorded, p) \in Seq(Pub)
    BY <1>2, <1>4
  <2> QED BY <1>4, <2>1 DEF Conn
<1>6. owed'[c] \in Seq(Pub) /\ Len(new.recorded) <= Len(owed'[c])
  <2>1. /\ Len(new.recorded) = Len(old.recorded) + 1 /\ Len(owed'[c]) = Len(owed[c]) + 1
        /\ owed'[c] \in Seq(Pub) /\ Len(old.recorded) \in Nat /\ Len(owed[c]) \in Nat
    BY <1>1, <1>2, <1>3, <1>4, <1>5
  <2> HIDE DEF old, new
  <2> QED BY <1>4, <2>1
<1>7. ConnOK(new, learned[c], owed'[c], TopicAliasMax[c])
  BY <1>1, <1>5, <1>6 DEF ConnOK
<1>8. Located(native', new.requests)
  BY <1>1, <1>5, LocatedStays
<1>9. ClientOK(native, old, graveyard[c], learned[c], owed[c], TopicAliasMax[c])
  BY DEF IInv, SessionInv
<1> HIDE DEF new
<1>10. ClientOK(native', connections'[c], graveyard'[c], learned'[c], owed'[c], TopicAliasMax[c])
  BY <1>1, <1>3, <1>6, <1>7, <1>8, <1>9, LocatedStays DEF ClientOK
<1>11. connects' \in [Clients -> Nat]
  BY <1>3 DEF IInv, SessionInv
<1> QED BY <1>1, <1>3, <1>10, <1>11, OneClient DEF IInv

\* PUBREL: one less is recorded, and one less owed.
LEMMA ReleaseKeeps ==
  ASSUME IInv, NEW c \in Clients, Release(c)
  PROVE  IInv'
<1> DEFINE old == connections[c]
           new == [old EXCEPT !.recorded = Tail(@)]
           owes == owed[c]
<1>1. /\ ConnOK(old, learned[c], owes, TopicAliasMax[c]) /\ Located(native, old.requests)
      /\ Live(c) /\ owes \in Seq(Pub) /\ owes # <<>> /\ old.recorded # <<>>
  BY LiveOK DEF IInv, Release
<1>2. /\ Others(c) /\ connections'[c] = new /\ owed'[c] = Tail(owes)
      /\ graveyard' = graveyard /\ learned' = learned /\ connects' = connects
  BY DEF IInv, SessionInv, Release, Others
<1>3. old \in Conn /\ old.recorded \in Seq(Pub) /\ Len(old.recorded) <= Len(owes)
  BY <1>1 DEF ConnOK, Conn
<1>4. LogInv' /\ Grows
  <2>1. Head(old.recorded) \in Pub /\ Head(owes) \in Pub
    BY <1>1, <1>3
  <2>2. Head(owes).topic \in Topics
    BY <2>1 DEF Pub
  <2> QED BY <2>1, <2>2, AppendKeeps DEF IInv, Release
<1>5. /\ Tail(old.recorded) \in Seq(Pub) /\ Len(Tail(old.recorded)) = Len(old.recorded) - 1
      /\ Tail(owes) \in Seq(Pub) /\ Len(Tail(owes)) = Len(owes) - 1
      /\ Len(old.recorded) \in Nat /\ Len(owes) \in Nat
  BY <1>1, <1>3
<1>6. /\ new \in Conn /\ new.recorded = Tail(old.recorded)
      /\ new.requests = old.requests /\ new.mapped = old.mapped /\ new.aliases = old.aliases
      /\ new.inflight = old.inflight
  BY <1>3, <1>5 DEF Conn
<1>7. owed'[c] \in Seq(Pub) /\ Len(new.recorded) <= Len(owed'[c])
  <2> HIDE DEF old, new, owes
  <2> QED BY <1>2, <1>3, <1>5, <1>6
<1>8. ConnOK(new, learned[c], owed'[c], TopicAliasMax[c])
  BY <1>1, <1>6, <1>7 DEF ConnOK
<1>9. Located(native', new.requests)
  BY <1>1, <1>4, <1>6, LocatedStays
<1>10. ClientOK(native, old, graveyard[c], learned[c], owes, TopicAliasMax[c])
  BY DEF IInv, SessionInv
<1> HIDE DEF new
<1>11. ClientOK(native', connections'[c], graveyard'[c], learned'[c], owed'[c], TopicAliasMax[c])
  BY <1>2, <1>4, <1>7, <1>8, <1>9, <1>10, LocatedStays DEF ClientOK
<1>12. connects' \in [Clients -> Nat]
  BY <1>2 DEF IInv, SessionInv
<1> QED BY <1>2, <1>4, <1>11, <1>12, OneClient DEF IInv

\* A request that goes back is one still.
LEMMA RewoundOK ==
  ASSUME SessionInv, NEW c \in Clients, Live(c), NEW f \in DOMAIN Requests(c)
  PROVE  Rewound(c, f) \in Request
<1> DEFINE r == Requests(c)[f]
           slots == connections[c].inflight
           back == {n \in DOMAIN slots : slots[n].filter = f /\ slots[n].cursor # NotInLog}
           least == CHOOSE n \in back : \A m \in back : n <= m
<1>1. r \in Request /\ slots \in Seq(Slot)
  <2>1. connections[c] \in Conn
    BY LiveOK DEF ConnOK
  <2> QED BY <2>1 DEF Conn, Requests, Table
<1>2. CASE back = {}
  BY <1>1, <1>2 DEF Rewound
<1>3. CASE back # {}
  <2>1. back \in SUBSET Nat /\ back # {}
    BY <1>1, <1>3
  <2>2. \E n \in back : \A m \in back : n <= m
    <3> HIDE DEF back
    <3> QED BY <2>1, LeastMember
  <2>3. least \in back
    BY <2>2
  <2>4. slots[least].cursor \in Nat
    <3>1. slots[least] \in Slot /\ slots[least].cursor # NotInLog
      <4>1. \A n \in back : slots[n] \in Slot /\ slots[n].cursor # NotInLog
        BY <1>1
      <4> HIDE DEF back, slots, least
      <4> QED BY <2>3, <4>1
    <3> QED BY <3>1 DEF Slot
  <2>5. Rewound(c, f) = [r EXCEPT !.cursor = slots[least].cursor]
    BY <1>3 DEF Rewound
  <2> HIDE DEF r, slots, least
  <2> QED BY <1>1, <2>4, <2>5 DEF Request
<1> QED BY <1>2, <1>3

\* handle_disconnection saves the requests, gone back where they must.
LEMMA LeaveKeeps ==
  ASSUME IInv, NEW c \in Clients, Live(c), Leave(c),
         UNCHANGED <<native, publish_filters, retained_publishes, learned, connects, published>>,
         owed' = [d \in Clients |-> owed'[d]],
         \A d \in Clients \ {c} : owed'[d] = owed[d],
         owed'[c] \in Seq(Pub)
  PROVE  IInv'
<1>1. LogInv' /\ Grows
  BY SameLogs DEF IInv
<1>2. /\ Located(native, Requests(c)) /\ Requests(c) \in Table(Request)
      /\ learned[c] \in [1 .. TopicAliasMax[c] -> Topics \cup {Unknown}]
  BY LiveOK DEF IInv, Requests, ConnOK, Conn
<1>3. Others(c) /\ connections'[c] = Gone
  BY DEF IInv, SessionInv, Leave, Others
<1> DEFINE table == [f \in DOMAIN Requests(c) |-> Rewound(c, f)]
<1>4. graveyard'[c] = Gone \/ graveyard'[c] = [requests |-> table]
  BY DEF IInv, SessionInv, Leave
<1>5. table \in Table(Request) /\ Located(native', table)
  <2>1. \A f \in DOMAIN Requests(c) : Rewound(c, f) \in Request
    BY RewoundOK DEF IInv
  <2>2. DOMAIN Requests(c) \in SUBSET Filters
    BY <1>2 DEF Table
  <2>3. table \in [DOMAIN Requests(c) -> Request]
    BY <2>1
  <2>4. Located(native', table)
    BY <1>1, <1>2, LocatedStays DEF Located
  <2> QED BY <2>2, <2>3, <2>4 DEF Table
<1> HIDE DEF table
<1>6. graveyard'[c] # Gone => graveyard'[c] \in Session /\ Located(native', graveyard'[c].requests)
  BY <1>4, <1>5 DEF Session
<1>7. ClientOK(native', connections'[c], graveyard'[c], learned'[c], owed'[c], TopicAliasMax[c])
  BY <1>2, <1>3, <1>6 DEF ClientOK
<1>8. connects' \in [Clients -> Nat]
  BY DEF IInv, SessionInv
<1> QED BY <1>1, <1>3, <1>7, <1>8, OneClient DEF IInv

\* A PUBREL that finds nothing recorded.
LEMMA ReleaseUnknownKeeps ==
  ASSUME IInv, NEW c \in Clients, ReleaseUnknown(c)
  PROVE  IInv'
<1>1. owed' = owed /\ Live(c) /\ owed[c] \in Seq(Pub)
  BY LiveOK DEF IInv, ReleaseUnknown
<1>2. owed' = [d \in Clients |-> owed'[d]]
  BY <1>1 DEF IInv, SessionInv
<1> QED BY <1>1, <1>2, LeaveKeeps DEF ReleaseUnknown

\* A connection that ends.
LEMMA DisconnectKeeps ==
  ASSUME IInv, NEW c \in Clients, Disconnect(c)
  PROVE  IInv'
<1>1. Live(c) /\ owed[c] \in Seq(Pub)
  BY LiveOK DEF IInv, Disconnect
<1>2. PICK n \in 0 .. Len(owed[c]) : owed' = [owed EXCEPT ![c] = SubSeq(@, 1, n)]
  BY DEF Disconnect
<1>3. SubSeq(owed[c], 1, n) \in Seq(Pub)
  BY <1>1
<1>4. /\ owed' = [d \in Clients |-> owed'[d]] /\ owed'[c] \in Seq(Pub)
      /\ \A d \in Clients \ {c} : owed'[d] = owed[d]
  BY <1>2, <1>3 DEF IInv, SessionInv
<1> QED BY <1>1, <1>4, LeaveKeeps DEF Disconnect

\* handle_new_connection: a resumed session comes back as it was saved.
LEMMA ConnectKeeps ==
  ASSUME IInv, NEW c \in Clients, NEW clean \in Cleans[c], Connect(c, clean)
  PROVE  IInv'
<1> DEFINE resume == ~clean /\ graveyard[c] # Gone
           table == IF resume THEN graveyard[c].requests ELSE <<>>
           new == [clean |-> clean, requests |-> table, mapped |-> {}, inflight |-> <<>>,
                   aliases |-> <<>>, recorded |-> <<>>]
<1>1. LogInv' /\ Grows
  BY SameLogs DEF IInv, Connect
<1>2. clean \in BOOLEAN
  BY DeliveryAssumption
<1>3. /\ Others(c) /\ connections'[c] = new /\ graveyard'[c] = Gone
      /\ learned'[c] = [a \in DOMAIN learned[c] |-> Unknown]
      /\ (owed'[c] = owed[c] \/ owed'[c] = <<>>)
      /\ connects' \in [Clients -> Nat]
  <2>1. /\ connections' = [connections EXCEPT ![c] = new]
        /\ owed' = [owed EXCEPT ![c] = IF resume THEN @ ELSE <<>>]
        /\ connects' = [connects EXCEPT ![c] = @ + 1]
        /\ graveyard' = [graveyard EXCEPT ![c] = Gone]
        /\ learned' = [learned EXCEPT ![c] = [a \in DOMAIN @ |-> Unknown]]
    BY DEF Connect
  <2> HIDE DEF new, resume
  <2>2. connects' \in [Clients -> Nat]
    BY <2>1 DEF IInv, SessionInv
  <2> QED BY <2>1, <2>2 DEF IInv, SessionInv, Others
<1>4. ClientOK(native, connections[c], graveyard[c], learned[c], owed[c], TopicAliasMax[c])
  BY DEF IInv, SessionInv
<1>5. owed'[c] \in Seq(Pub) /\ learned'[c] \in [1 .. TopicAliasMax[c] -> Topics \cup {Unknown}]
  <2>1. owed[c] \in Seq(Pub) /\ learned[c] \in [1 .. TopicAliasMax[c] -> Topics \cup {Unknown}]
    BY <1>4 DEF ClientOK
  <2>2. owed'[c] \in Seq(Pub)
    <3>1. <<>> \in Seq(Pub)
      OBVIOUS
    <3> QED BY <1>3, <2>1, <3>1
  <2>3. learned'[c] \in [1 .. TopicAliasMax[c] -> Topics \cup {Unknown}]
    BY <1>3, <2>1
  <2> QED BY <2>2, <2>3
<1>6. table \in Table(Request) /\ Located(native', table)
  <2>1. CASE resume
    <3>1. graveyard[c] \in Session /\ Located(native, graveyard[c].requests)
      BY <1>4, <2>1 DEF ClientOK
    <3> QED BY <1>1, <2>1, <3>1, LocatedStays DEF Session
  <2>2. CASE ~resume
    BY <2>2, TableEmpty DEF Located
  <2> QED BY <2>1, <2>2
<1> HIDE DEF resume, table
<1>7. new \in Conn
  <2>1. <<>> \in Table(Nat)
    BY TableEmpty
  <2> QED BY <1>2, <1>6, <2>1 DEF Conn
<1>8. ConnOK(new, learned'[c], owed'[c], TopicAliasMax[c])
  <2>1. DOMAIN <<>> = {}
    OBVIOUS
  <2>2. AliasOK(<<>>, learned'[c], TopicAliasMax[c])
    BY <2>1 DEF AliasOK, IsInjective
  <2>3. Len(<<>>) = 0 /\ Len(owed'[c]) \in Nat /\ MaxInflight \in Nat
    BY <1>5, DeliveryAssumption
  <2> QED BY <1>7, <2>1, <2>2, <2>3 DEF ConnOK
<1>9. ClientOK(native', connections'[c], graveyard'[c], learned'[c], owed'[c], TopicAliasMax[c])
  BY <1>3, <1>5, <1>6, <1>8 DEF ClientOK
<1> QED BY <1>1, <1>3, <1>9, OneClient DEF IInv

-----------------------------------------------------------------------------
\* What is pushed: the message, its topic, and where it is in the log.
Out == [id : Nat, topic : Topics, cursor : Nat \cup {NotInLog}]

\* As many retained messages as there is room for, of topics that match.
LEMMA TruncationsOK ==
  ASSUME LogInv, NEW f \in Filters, NEW r \in Request, NEW slots \in Nat,
         NEW order \in Truncations(f, r, slots)
  PROVE  /\ order \in Seq(Topics) /\ Len(order) <= slots
         /\ \A k \in DOMAIN order : matches(order[k], f) /\ retained_publishes[order[k]] \in Nat
<1>1. PICK S \in SUBSET RetainedFor(f, r) :
        /\ Cardinality(S) = Least(slots, Cardinality(RetainedFor(f, r)))
        /\ order \in Orders(S)
  BY DEF Truncations
<1>2. RetainedFor(f, r) \subseteq Topics /\ \A t \in RetainedFor(f, r) : matches(t, f)
  BY DEF RetainedFor
<1>3. IsFiniteSet(RetainedFor(f, r)) /\ IsFiniteSet(S)
  BY <1>1, <1>2, FS_Subset, DeliveryAssumption
<1>4. order \in Seq(S) /\ Len(order) = Cardinality(S)
  BY <1>1, <1>3, OrdersName
<1>5. Cardinality(RetainedFor(f, r)) \in Nat /\ Cardinality(S) \in Nat
  BY <1>3, FS_CardinalityType
<1>6. Len(order) <= slots
  BY <1>1, <1>4, <1>5 DEF Least
<1>7. \A t \in Topics : retained_publishes[t] \in Nat
  BY DEF LogInv
<1>8. S \subseteq Topics /\ \A t \in S : matches(t, f)
  BY <1>1, <1>2
<1>9. order \in Seq(Topics) /\ \A k \in DOMAIN order : order[k] \in S
  BY <1>4, <1>8
<1> QED BY <1>6, <1>7, <1>8, <1>9

\* The log of a filter that has one.
LEMMA LogOfOK ==
  ASSUME LogInv, NEW f, Indexed(native, f)
  PROVE  /\ LogOf(f) \in Seq(Message)
         /\ \A n \in DOMAIN LogOf(f) : matches(LogOf(f)[n].topic, f)
<1> DEFINE i == CHOOSE j \in IndexOf(f) : TRUE
<1>1. i \in DOMAIN native /\ native[i].filter = f
  BY DEF Indexed, IndexOf
<1>2. LogOf(f) = native[i].log
  BY DEF LogOf
<1> HIDE DEF i
<1>3. native[i] \in Data
  BY <1>1 DEF LogInv
<1> QED BY <1>1, <1>2, <1>3 DEF LogInv, LogsMatch, Data

\* Sequences by their elements, and one after the other.
LEMMA Listed ==
  ASSUME NEW S, NEW m \in Nat, NEW s, s = [k \in 1 .. m |-> s[k]], \A k \in 1 .. m : s[k] \in S
  PROVE  s \in Seq(S) /\ Len(s) = m
<1>1. s \in [1 .. m -> S]
  OBVIOUS
<1> QED BY <1>1

\* The elements of one sequence after another.
LEMMA Joined ==
  ASSUME NEW S, NEW s \in Seq(S), NEW t \in Seq(S), NEW l, NEW m, Len(s) = l, Len(t) = m
  PROVE  /\ s \o t \in Seq(S) /\ Len(s \o t) = l + m
         /\ \A k \in 1 .. l : (s \o t)[k] = s[k]
         /\ \A k \in l + 1 .. l + m : (s \o t)[k] = t[k - l]
OBVIOUS

\* What is pushed is of topics that match, and no more than was counted.
LEMMA BatchOK ==
  ASSUME NEW log \in Seq(Message), NEW f, LogOf(f) = log,
         \A n \in DOMAIN log : matches(log[n].topic, f),
         NEW r \in Request, NEW order \in Seq(Topics), NEW n \in Int, n <= Len(log) - r.cursor,
         \A k \in DOMAIN order : matches(order[k], f) /\ retained_publishes[order[k]] \in Nat
  PROVE  /\ Batch(f, r, order, n) \in Seq(Out)
         /\ Len(Batch(f, r, order, n)) = Len(order) + (IF n < 0 THEN 0 ELSE n)
         /\ \A k \in DOMAIN Batch(f, r, order, n) : matches(Batch(f, r, order, n)[k].topic, f)
<1> DEFINE kept == [k \in 1 .. Len(order) |->
                     [id |-> retained_publishes[order[k]], topic |-> order[k], cursor |-> NotInLog]]
           new  == [k \in 1 .. n |-> [id |-> log[r.cursor + k].id, topic |-> log[r.cursor + k].topic,
                                      cursor |-> r.cursor + k - 1]]
           m    == IF n < 0 THEN 0 ELSE n
<1>1. Batch(f, r, order, n) = kept \o new
  BY DEF Batch
<1>2. kept \in Seq(Out) /\ Len(kept) = Len(order)
  <2>1. ASSUME NEW k \in 1 .. Len(order)
        PROVE  kept[k] \in Out
    BY DEF Out
  <2>2. Len(order) \in Nat /\ DOMAIN kept = 1 .. Len(order) /\ kept = [k \in 1 .. Len(order) |-> kept[k]]
    OBVIOUS
  <2> HIDE DEF kept
  <2> QED BY <2>1, <2>2
<1>3. \A k \in 1 .. Len(order) : matches(kept[k].topic, f)
  <2> SUFFICES ASSUME NEW k \in 1 .. Len(order) PROVE matches(kept[k].topic, f)
    OBVIOUS
  <2>1. matches(order[k], f) /\ kept[k].topic = order[k]
    OBVIOUS
  <2> QED BY <2>1
<1>4. r.cursor \in Nat /\ m \in Nat /\ 1 .. n = 1 .. m
  BY DEF Request
<1>5. ASSUME NEW k \in 1 .. m
      PROVE  new[k] \in Out /\ matches(new[k].topic, f)
  <2>1. r.cursor + k \in DOMAIN log /\ r.cursor + k - 1 \in Nat /\ k \in 1 .. n
    BY <1>4
  <2>2. log[r.cursor + k] \in Message
    BY <2>1
  <2> QED BY <2>1, <2>2 DEF Out, Message
<1> HIDE DEF kept
<1>6. new \in Seq(Out) /\ Len(new) = m
  <2>1. new = [k \in 1 .. m |-> new[k]]
    BY <1>4
  <2>2. m \in Nat /\ \A k \in 1 .. m : new[k] \in Out
    BY <1>4, <1>5
  <2> HIDE DEF new, m
  <2> QED BY <2>1, <2>2, Listed
<1> HIDE DEF new, m
<1>7. /\ kept \o new \in Seq(Out) /\ Len(kept \o new) = Len(order) + m
      /\ \A k \in 1 .. Len(order) : (kept \o new)[k] = kept[k]
      /\ \A k \in Len(order) + 1 .. Len(order) + m : (kept \o new)[k] = new[k - Len(order)]
  BY <1>2, <1>6, Joined
<1>8. ASSUME NEW k \in 1 .. Len(order) + m
      PROVE  matches((kept \o new)[k].topic, f)
  <2>1. CASE k \in 1 .. Len(order)
    BY <1>3, <1>7, <2>1
  <2>2. CASE k \notin 1 .. Len(order)
    <3>1. k \in Len(order) + 1 .. Len(order) + m /\ k - Len(order) \in 1 .. m
      BY <1>4, <2>2
    <3> QED BY <1>5, <1>7, <3>1
  <2> QED BY <2>1, <2>2
<1>9. DOMAIN (kept \o new) = 1 .. Len(order) + m
  BY <1>7
<1> QED BY <1>1, <1>7, <1>8, <1>9 DEF m

\* The newest messages of the topics after a push are messages.
LEMMA LastOfOK ==
  ASSUME NEW batch \in Seq(Out), NEW last \in [Topics -> Nat]
  PROVE  LastOf(batch, last) \in [Topics -> Nat]
<1>1. ASSUME NEW t \in Topics
      PROVE  LastOf(batch, last)[t] \in Nat
  <2> DEFINE at == {k \in DOMAIN batch : batch[k].topic = t}
             k  == CHOOSE j \in at : \A m \in at : m <= j
  <2>1. CASE at = {}
    BY <2>1 DEF LastOf
  <2>2. CASE at # {}
    <3>1. at \in SUBSET (1 .. Len(batch)) /\ Len(batch) \in Nat /\ \A j \in at : j \in DOMAIN batch
      OBVIOUS
    <3>2. \E j \in at : \A m \in at : m <= j
      <4> HIDE DEF at
      <4> QED BY <2>2, <3>1, GreatestMember
    <3>3. k \in at
      BY <3>2
    <3>4. LastOf(batch, last)[t] = batch[k].id
      BY <2>2 DEF LastOf
    <3> HIDE DEF k
    <3>5. batch[k] \in Out
      BY <3>1, <3>3
    <3> QED BY <3>4, <3>5 DEF Out
  <2> QED BY <2>1, <2>2
<1> QED BY <1>1 DEF LastOf

\* A new alias is one no other filter has, and the client hears of it.
LEMMA AliasKeeps ==
  ASSUME NEW table \in Table(Nat), NEW max \in Nat,
         NEW topics \in [1 .. max -> Topics \cup {Unknown}], AliasOK(table, topics, max),
         NEW f \in Filters, f \notin DOMAIN table, NEW a \in 1 .. max, a \notin Range(table),
         NEW t \in Topics, matches(t, f)
  PROVE  AliasOK(With(table, f, a), [topics EXCEPT ![a] = t], max)
<1> DEFINE new == With(table, f, a)
           heard == [topics EXCEPT ![a] = t]
<1>1. DOMAIN new = DOMAIN table \cup {f} /\ new[f] = a /\ \A g \in DOMAIN table : new[g] = table[g]
  BY DEF With
<1>2. heard[a] = t /\ \A b \in 1 .. max : b # a => heard[b] = topics[b]
  OBVIOUS
<1>3. \A g \in DOMAIN table : table[g] # a
  BY DEF Range
<1>4. t # Unknown
  BY DeliveryAssumption DEF Unknown
<1> HIDE DEF new, heard
<1>5. IsInjective(new)
  BY <1>1, <1>3 DEF AliasOK, IsInjective
<1>6. ASSUME NEW g \in DOMAIN new
      PROVE  new[g] \in 1 .. max /\ heard[new[g]] # Unknown /\ matches(heard[new[g]], g)
  <2>1. CASE g = f
    BY <1>1, <1>2, <1>4, <2>1
  <2>2. CASE g # f
    <3>1. g \in DOMAIN table /\ new[g] = table[g] /\ table[g] # a
      BY <1>1, <1>3, <2>2
    <3> QED BY <1>2, <3>1 DEF AliasOK
  <2> QED BY <2>1, <2>2
<1> QED BY <1>5, <1>6 DEF AliasOK, new, heard

\* What Forward makes of a request and of its client's connection.
ReadBy(c, f, order, n) ==
  LET r == Requests(c)[f]
  IN  [r EXCEPT !.cursor = @ + n, !.forward_retained = FALSE,
         !.missed = @ \cup (RetainedFor(f, r) \ Range(order)),
         !.last = LastOf(Batch(f, r, order, n), @)]

Pushed(c, f, order, n, a) ==
  LET r     == Requests(c)[f]
      batch == Batch(f, r, order, n)
  IN  [connections[c] EXCEPT
         !.requests = With(@, f, ReadBy(c, f, order, n)),
         !.aliases = IF a = 0 THEN @ ELSE With(@, f, a),
         !.inflight = IF r.qos = 0 THEN @ ELSE
            @ \o [k \in DOMAIN batch |-> [filter |-> f, cursor |-> batch[k].cursor]]]

Heard(c, f, order, n, a) ==
  LET batch == Batch(f, Requests(c)[f], order, n)
  IN  IF a = 0 \/ batch = <<>> THEN learned ELSE [learned EXCEPT ![c][a] = Last(batch).topic]

\* Forward, by the retained messages it sends, how many of the log, and the alias.
LEMMA ForwardIs ==
  ASSUME NEW c, NEW f, Forward(c, f)
  PROVE  \E order \in Truncations(f, Requests(c)[f], Slots(c, Requests(c)[f])) :
           \E n : \E a \in AliasToSet(c, f, Batch(f, Requests(c)[f], order, n)) :
             /\ Slots(c, Requests(c)[f]) > 0
             /\ n = Least(Slots(c, Requests(c)[f]) - Len(order), Len(LogOf(f)) - Requests(c)[f].cursor)
             /\ connections' = [connections EXCEPT ![c] = Pushed(c, f, order, n, a)]
             /\ learned' = Heard(c, f, order, n, a)
<1> DEFINE r == Requests(c)[f]
           slots == Slots(c, r)
           N(order) == Least(slots - Len(order), Len(LogOf(f)) - r.cursor)
<1>1. PICK order \in Truncations(f, r, slots) :
        \E a \in AliasToSet(c, f, Batch(f, r, order, N(order))) :
          /\ slots > 0
          /\ connections' = [connections EXCEPT
                ![c].requests = With(@, f, ReadBy(c, f, order, N(order))),
                ![c].aliases = IF a = 0 THEN @ ELSE With(@, f, a),
                ![c].inflight = IF r.qos = 0 THEN @ ELSE
                   @ \o [k \in DOMAIN Batch(f, r, order, N(order)) |->
                          [filter |-> f, cursor |-> Batch(f, r, order, N(order))[k].cursor]]]
          /\ learned' = Heard(c, f, order, N(order), a)
  BY DEF Forward, ReadBy, Heard
<1> DEFINE n == N(order)
<1>2. PICK a \in AliasToSet(c, f, Batch(f, r, order, n)) :
        /\ slots > 0
        /\ connections' = [connections EXCEPT ![c] = Pushed(c, f, order, n, a)]
        /\ learned' = Heard(c, f, order, n, a)
  BY <1>1 DEF Pushed
<1> QED BY <1>1, <1>2

\* forward_device_data keeps to the window, to the client's aliases and to the
\* topics of the filter.
LEMMA ForwardKeeps ==
  ASSUME IInv, NEW c \in Clients, NEW f \in Filters, Forward(c, f)
  PROVE  IInv'
<1> DEFINE old   == connections[c]
           r     == Requests(c)[f]
           slots == Slots(c, r)
           log   == LogOf(f)
           max   == TopicAliasMax[c]
<1>1. /\ ConnOK(old, learned[c], owed[c], max) /\ Located(native, old.requests)
      /\ learned[c] \in [1 .. max -> Topics \cup {Unknown}] /\ owed[c] \in Seq(Pub)
      /\ Live(c) /\ f \in DOMAIN old.requests /\ r = old.requests[f]
  BY LiveOK DEF IInv, Forward, Requests
<1>2. LogInv' /\ Grows
  BY SameLogs DEF IInv, Forward
<1>3. /\ old \in Conn /\ old.requests \in Table(Request) /\ old.inflight \in Seq(Slot)
      /\ old.aliases \in Table(Nat) /\ Len(old.inflight) <= MaxInflight
  BY <1>1 DEF ConnOK, Conn
<1>4. r \in Request
  BY <1>1, <1>3 DEF Table
<1>5. log \in Seq(Message) /\ \A n \in DOMAIN log : matches(log[n].topic, f)
  <2>1. Indexed(native, f)
    BY <1>1 DEF Located
  <2> QED BY <2>1, LogOfOK DEF IInv
<1>5a. PICK order \in Truncations(f, r, slots) :
        \E n : \E a \in AliasToSet(c, f, Batch(f, r, order, n)) :
             /\ slots > 0 /\ n = Least(slots - Len(order), Len(log) - r.cursor)
             /\ connections' = [connections EXCEPT ![c] = Pushed(c, f, order, n, a)]
             /\ learned' = Heard(c, f, order, n, a)
  BY ForwardIs
<1>6. PICK n : \E a \in AliasToSet(c, f, Batch(f, r, order, n)) :
             /\ slots > 0 /\ n = Least(slots - Len(order), Len(log) - r.cursor)
             /\ connections' = [connections EXCEPT ![c] = Pushed(c, f, order, n, a)]
             /\ learned' = Heard(c, f, order, n, a)
  BY <1>5a
<1> DEFINE batch == Batch(f, r, order, n)
<1>7. PICK a \in AliasToSet(c, f, batch) :
             /\ slots > 0 /\ n = Least(slots - Len(order), Len(log) - r.cursor)
             /\ connections' = [connections EXCEPT ![c] = Pushed(c, f, order, n, a)]
             /\ learned' = Heard(c, f, order, n, a)
  BY <1>6
<1> DEFINE new   == Pushed(c, f, order, n, a)
           heard == Heard(c, f, order, n, a)
           read  == ReadBy(c, f, order, n)
<1>8. slots \in Nat /\ slots > 0 /\ (r.qos # 0 => slots = MaxInflight - Len(old.inflight))
  <2>1. Len(old.inflight) \in Nat /\ MaxInflight \in Nat /\ ReadCount \in Nat
    BY <1>3, DeliveryAssumption
  <2>2. slots = IF r.qos = 0 THEN ReadCount ELSE MaxInflight - Len(old.inflight)
    BY DEF Slots
  <2>3. slots > 0
    BY <1>7
  <2> HIDE DEF slots, old, r
  <2>4. CASE r.qos = 0
    BY <2>1, <2>2, <2>3, <2>4
  <2>5. CASE r.qos # 0
    <3>1. slots = MaxInflight - Len(old.inflight)
      BY <2>2, <2>5
    <3>2. slots \in Int
      BY <2>1, <3>1
    <3> QED BY <2>3, <3>1, <3>2
  <2> QED BY <2>4, <2>5
<1>9. /\ order \in Seq(Topics) /\ Len(order) <= slots
      /\ \A k \in DOMAIN order : matches(order[k], f) /\ retained_publishes[order[k]] \in Nat
  BY <1>4, <1>8, TruncationsOK DEF IInv
<1>10. /\ n \in Int /\ n <= Len(log) - r.cursor /\ n <= slots - Len(order)
       /\ r.cursor + n \in Nat /\ Len(order) + (IF n < 0 THEN 0 ELSE n) <= slots
  <2>1. Len(order) \in Nat /\ Len(log) \in Nat /\ r.cursor \in Nat
    BY <1>4, <1>5, <1>9 DEF Request
  <2>2. n = Least(slots - Len(order), Len(log) - r.cursor)
    BY <1>7
  <2> HIDE DEF slots, log, r
  <2> QED BY <1>8, <1>9, <2>1, <2>2 DEF Least
<1>11. /\ batch \in Seq(Out) /\ Len(batch) <= slots
       /\ \A k \in DOMAIN batch : matches(batch[k].topic, f)
  <2> HIDE DEF slots, log, r
  <2> QED BY <1>4, <1>5, <1>9, <1>10, BatchOK DEF log
<1> HIDE DEF slots, log, batch
<1>12. read \in Request
  <2>1. LastOf(batch, r.last) \in [Topics -> Nat]
    BY <1>4, <1>11, LastOfOK DEF Request
  <2>2. r.missed \cup (RetainedFor(f, r) \ Range(order)) \in SUBSET Topics
    BY <1>4 DEF Request, RetainedFor
  <2>3. read = [r EXCEPT !.cursor = r.cursor + n, !.forward_retained = FALSE,
                  !.missed = r.missed \cup (RetainedFor(f, r) \ Range(order)),
                  !.last = LastOf(batch, r.last)]
    BY DEF ReadBy, batch
  <2> HIDE DEF r, read
  <2> QED BY <1>4, <1>10, <2>1, <2>2, <2>3 DEF Request
<1> DEFINE table == With(old.requests, f, read)
           slotted == IF r.qos = 0 THEN old.inflight
                      ELSE old.inflight \o [k \in DOMAIN batch |-> [filter |-> f, cursor |-> batch[k].cursor]]
           aliases == IF a = 0 THEN old.aliases ELSE With(old.aliases, f, a)
<1>13. new = [old EXCEPT !.requests = table, !.aliases = aliases, !.inflight = slotted]
  BY DEF Pushed, batch
<1> HIDE DEF read
<1>14. table \in Table(Request) /\ DOMAIN table = DOMAIN old.requests
  <2>1. table \in Table(Request)
    BY <1>3, <1>12, TableSet
  <2>2. DOMAIN table = DOMAIN old.requests \cup {f}
    BY DEF With
  <2> QED BY <1>1, <2>1, <2>2
<1>15. slotted \in Seq(Slot) /\ Len(slotted) <= MaxInflight
  <2>1. CASE r.qos = 0
    BY <1>3, <2>1
  <2>2. CASE r.qos # 0
    <3> DEFINE more == [k \in DOMAIN batch |-> [filter |-> f, cursor |-> batch[k].cursor]]
    <3>1. DOMAIN batch = 1 .. Len(batch) /\ Len(batch) \in Nat
      BY <1>11
    <3>2. ASSUME NEW k \in DOMAIN batch
          PROVE  more[k] \in Slot
      <4>1. batch[k] \in Out /\ more[k] = [filter |-> f, cursor |-> batch[k].cursor]
        BY <1>11
      <4> HIDE DEF more
      <4> QED BY <4>1 DEF Out, Slot
    <3>3. more = [k \in 1 .. Len(batch) |-> more[k]]
      BY <3>1
    <3> HIDE DEF more
    <3>4. more \in Seq(Slot) /\ Len(more) = Len(batch)
      BY <3>1, <3>2, <3>3, Listed
    <3>5. slotted = old.inflight \o more
      BY <2>2 DEF more
    <3> HIDE DEF slotted
    <3>6. slotted \in Seq(Slot) /\ Len(slotted) = Len(old.inflight) + Len(batch)
      <4>1. PICK s, t : s = old.inflight /\ t = more
        OBVIOUS
      <4>2. s \in Seq(Slot) /\ t \in Seq(Slot)
        BY <1>3, <3>4, <4>1
      <4>3. s \o t \in Seq(Slot) /\ Len(s \o t) = Len(s) + Len(t)
        BY ONLY <4>2
      <4> HIDE DEF old
      <4> QED BY <3>4, <3>5, <4>1, <4>3
    <3>7. Len(old.inflight) \in Nat /\ MaxInflight \in Nat
      BY <1>3, DeliveryAssumption
    <3> HIDE DEF old, r
    <3> QED BY <1>8, <1>11, <2>2, <3>1, <3>6, <3>7
  <2> QED BY <2>1, <2>2
<1>16. /\ aliases \in Table(Nat) /\ DOMAIN aliases \subseteq DOMAIN old.requests
       /\ heard[c] \in [1 .. max -> Topics \cup {Unknown}]
       /\ AliasOK(aliases, heard[c], max)
       /\ heard = [d \in Clients |-> heard[d]] /\ \A d \in Clients \ {c} : heard[d] = learned[d]
  <2>1. /\ AliasOK(old.aliases, learned[c], max) /\ DOMAIN old.aliases \subseteq DOMAIN old.requests
        /\ learned = [d \in Clients |-> learned[d]]
    BY <1>1 DEF ConnOK, IInv, SessionInv
  <2>2. CASE a = 0
    <3>1. heard = learned
      BY <2>2 DEF Heard
    <3> QED BY <1>1, <1>3, <2>1, <2>2, <3>1
  <2>3. CASE a # 0
    <3>1. /\ batch # <<>> /\ f \notin DOMAIN old.aliases
          /\ a \in 1 .. max /\ a \notin Range(old.aliases)
      BY <1>7, <2>3 DEF AliasToSet, NewAliases, Aliases
    <3>2. Last(batch) \in Out /\ matches(Last(batch).topic, f)
      <4>1. Len(batch) \in DOMAIN batch
        BY <1>11, <3>1
      <4> QED BY <1>11, <4>1 DEF Last
    <3>3. heard = [learned EXCEPT ![c] = [learned[c] EXCEPT ![a] = Last(batch).topic]]
      BY <2>3, <3>1 DEF Heard, batch
    <3>4. Last(batch).topic \in Topics
      BY <3>2 DEF Out
    <3> DEFINE knows == [learned[c] EXCEPT ![a] = Last(batch).topic]
    <3>5. knows \in [1 .. max -> Topics \cup {Unknown}]
      BY <1>1, <3>4
    <3>6. a \in Nat /\ With(old.aliases, f, a) \in Table(Nat)
      <4>1. max \in Nat
        BY DeliveryAssumption
      <4>2. a \in Nat
        BY <3>1, <4>1
      <4> QED BY <1>3, <4>2, TableSet
    <3>7. DOMAIN With(old.aliases, f, a) = DOMAIN old.aliases \cup {f}
      BY DEF With
    <3>8. AliasOK(With(old.aliases, f, a), knows, max)
      <4>1. max \in Nat
        BY DeliveryAssumption
      <4> HIDE DEF max, old
      <4> QED BY <1>1, <1>3, <2>1, <3>1, <3>2, <3>4, <4>1, AliasKeeps
    <3> HIDE DEF heard, knows
    <3>9. heard[c] = knows /\ heard = [d \in Clients |-> heard[d]] /\ \A d \in Clients \ {c} : heard[d] = learned[d]
      BY <2>1, <3>3 DEF knows
    <3> QED BY <1>1, <2>1, <2>3, <3>5, <3>6, <3>7, <3>8, <3>9
  <2> QED BY <2>2, <2>3
<1> HIDE DEF table, slotted, aliases, heard
<1>17. /\ new \in Conn /\ new.requests = table /\ new.aliases = aliases /\ new.inflight = slotted
       /\ new.mapped = old.mapped /\ new.recorded = old.recorded
  BY <1>3, <1>13, <1>14, <1>15, <1>16 DEF Conn
<1> HIDE DEF new
<1>18. /\ Others(c) /\ connections'[c] = new /\ learned' = heard
       /\ graveyard' = graveyard /\ owed' = owed /\ connects' = connects
  <2>1. /\ connections' = [connections EXCEPT ![c] = new] /\ learned' = heard
        /\ UNCHANGED <<graveyard, owed, connects>>
    BY <1>7 DEF Forward, new, heard
  <2> QED BY <1>16, <2>1 DEF IInv, SessionInv, Others
<1>19. ConnOK(new, heard[c], owed[c], max)
  BY <1>1, <1>14, <1>15, <1>16, <1>17 DEF ConnOK
<1>20. Located(native', new.requests)
  BY <1>1, <1>2, <1>14, <1>17, LocatedStays DEF Located
<1>21. ClientOK(native, old, graveyard[c], learned[c], owed[c], max)
  BY DEF IInv, SessionInv
<1>22. ClientOK(native', connections'[c], graveyard'[c], learned'[c], owed'[c], max)
  BY <1>1, <1>2, <1>16, <1>18, <1>19, <1>20, <1>21, LocatedStays DEF ClientOK
<1>23. connects' \in [Clients -> Nat]
  BY <1>18 DEF IInv, SessionInv
<1> QED BY <1>2, <1>18, <1>22, <1>23, OneClient DEF IInv

-----------------------------------------------------------------------------
\* The invariant holds at the start.
LEMMA InitIInv == Init => IInv
<1> SUFFICES ASSUME Init PROVE IInv
  OBVIOUS
<1>1. native \in Seq(Data) /\ \A i \in DOMAIN native : native[i].log = <<>>
  <2>1. WarmupFilters \in Seq(Filters)
    BY DeliveryAssumption
  <2>2. ASSUME NEW i \in DOMAIN WarmupFilters
        PROVE  [filter |-> WarmupFilters[i], log |-> <<>>, since |-> 0] \in Data
    BY <2>1 DEF Data
  <2>3. /\ native = [i \in 1 .. Len(WarmupFilters) |-> native[i]] /\ Len(WarmupFilters) \in Nat
        /\ \A i \in 1 .. Len(WarmupFilters) : native[i] \in Data /\ native[i].log = <<>>
    BY <2>1, <2>2 DEF Init
  <2>4. native \in Seq(Data)
    BY <2>3, Listed
  <2> QED BY <2>3, <2>4
<1>2. LogInv
  <2>1. published = <<>> /\ publish_filters = [t \in Topics |-> <<>>]
        /\ retained_publishes = [t \in Topics |-> 0]
    BY DEF Init
  <2>2. LogsMatch /\ CacheComplete
    BY <1>1, <2>1 DEF LogsMatch, CacheComplete
  <2>3. Len(published) = 0 /\ published \in Seq(Topics)
    BY <2>1
  <2> QED BY <1>1, <2>1, <2>2, <2>3 DEF LogInv
<1>3. ASSUME NEW c \in Clients
      PROVE  ClientOK(native, connections[c], graveyard[c], learned[c], owed[c], TopicAliasMax[c])
  BY DEF Init, ClientOK
<1>4. SessionInv
  BY <1>3 DEF Init, SessionInv
<1> QED BY <1>2, <1>4 DEF IInv

\* The invariant survives every action.
LEMMA NextIInv == IInv /\ [Next]_vars => IInv'
<1> SUFFICES ASSUME IInv, [Next]_vars PROVE IInv'
  OBVIOUS
<1>1. CASE UNCHANGED vars
  <2>1. LogInv' /\ Grows
    BY <1>1, SameLogs DEF IInv, vars
  <2> QED BY <1>1, <2>1, SameSessions DEF IInv, vars
<1>2. ASSUME NEW c \in Clients, \E clean \in Cleans[c] : Connect(c, clean)
      PROVE  IInv'
  BY <1>2, ConnectKeeps
<1>3. ASSUME NEW c \in Clients, \E s \in Subscribes[c] : Subscribe(c, s.filter, s.qos)
      PROVE  IInv'
  BY <1>3, SubscribeKeeps
<1>4. ASSUME NEW c \in Clients, \E f \in Unsubscribes[c] : Unsubscribe(c, f)
      PROVE  IInv'
  BY <1>4, UnsubscribeKeeps
<1>5. ASSUME NEW c \in Clients, \E f \in Filters : Forward(c, f)
      PROVE  IInv'
  BY <1>5, ForwardKeeps
<1>6. ASSUME NEW c \in Clients, \E p \in Publishes[c] : Publish(c, p) \/ Record(c, p)
      PROVE  IInv'
  BY <1>6, PublishKeeps, RecordKeeps
<1>7. ASSUME NEW c \in Clients, Release(c) \/ ReleaseUnknown(c) \/ Ack(c) \/ Disconnect(c)
      PROVE  IInv'
  BY <1>7, ReleaseKeeps, ReleaseUnknownKeeps, AckKeeps, DisconnectKeeps
<1> QED BY <1>1, <1>2, <1>3, <1>4, <1>5, <1>6, <1>7 DEF Next

\* In every state of the broker the logs, the cache, the requests and the
\* aliases are in order.
THEOREM Inductive == Spec => []IInv
BY InitIInv, NextIInv, PTL DEF Spec

\* The invariant gives the types.
LEMMA IInvTypes == IInv => TypeOK
<1> SUFFICES ASSUME IInv PROVE TypeOK
  OBVIOUS
<1>1. ASSUME NEW c \in Clients
      PROVE  /\ graveyard[c] # Gone => IsTable(graveyard[c].requests, Request)
             /\ learned[c] \in Seq(Topics \cup {Unknown})
  <2>1. ClientOK(native, connections[c], graveyard[c], learned[c], owed[c], TopicAliasMax[c])
    BY DEF IInv, SessionInv
  <2>2. graveyard[c] # Gone => graveyard[c].requests \in Table(Request)
    BY <2>1 DEF ClientOK, Session
  <2>3. TopicAliasMax[c] \in Nat
    BY DeliveryAssumption
  <2>4. learned[c] \in Seq(Topics \cup {Unknown})
    BY <2>1, <2>3 DEF ClientOK
  <2> QED BY <2>2, <2>4, TableOf
<1>2. ASSUME NEW c \in Clients, Live(c)
      PROVE  /\ IsTable(Requests(c), Request)
             /\ connections[c].mapped \subseteq DOMAIN Requests(c)
             /\ DOMAIN Aliases(c) \subseteq DOMAIN Requests(c)
             /\ connections[c].inflight \in Seq(Slot) /\ Len(connections[c].inflight) <= MaxInflight
             /\ Len(connections[c].recorded) <= Len(owed[c])
  <2>1. ConnOK(connections[c], learned[c], owed[c], TopicAliasMax[c])
    BY <1>2, LiveOK DEF IInv
  <2>2. connections[c] \in Conn
    BY <2>1 DEF ConnOK
  <2>3. connections[c].requests \in Table(Request) /\ connections[c].inflight \in Seq(Slot)
    BY <2>2 DEF Conn
  <2>4. IsTable(connections[c].requests, Request)
    BY <2>3, TableOf
  <2> QED BY <2>1, <2>3, <2>4 DEF ConnOK, Requests, Aliases
<1>3. learned \in [Clients -> Seq(Topics \cup {Unknown})]
  BY <1>1 DEF IInv, SessionInv
<1> QED BY <1>1, <1>2, <1>3 DEF IInv, LogInv, SessionInv, TypeOK

\* The state is what its parts say it is, and no client ever has more than
\* MaxInflight messages in flight: whatever a request reads, retained messages
\* and those of the log together, fits the room there was.
THEOREM TypeCorrect == Spec => []TypeOK
BY Inductive, IInvTypes, PTL

\* The cached matches of a topic are always all of them, each once.
THEOREM CacheIsComplete == Spec => []CacheComplete
<1>1. IInv => CacheComplete
  BY DEF IInv, LogInv
<1> QED BY <1>1, Inductive, PTL

\* A message goes without its topic only to a client that has learned a topic
\* of that filter by its alias; two filters never share an alias.
THEOREM AliasesKnown == Spec => []AliasKnown
<1>1. IInv => AliasKnown
  <2> SUFFICES ASSUME IInv, NEW c \in Clients, Live(c)
               PROVE  AliasOK(Aliases(c), learned[c], TopicAliasMax[c])
    BY DEF AliasKnown, AliasOK
  <2> QED BY LiveOK DEF IInv, ConnOK, Aliases
<1> QED BY <1>1, Inductive, PTL

-----------------------------------------------------------------------------
\* Each filter has one log.
FiltersDiffer == \A i, j \in DOMAIN native : native[i].filter = native[j].filter => i = j

\* The messages of a log are publishes since it began, each once and in order.
Rising == \A i \in DOMAIN native : LET d == native[i] IN
  /\ d.since <= Len(published)
  /\ \A n \in DOMAIN d.log : d.since < d.log[n].id /\ d.log[n].id <= Len(published)
  /\ \A m, n \in DOMAIN d.log : m < n => d.log[m].id < d.log[n].id

\* Message id, on topic t, is in the log behind position `from'.
Holds(log, from, id, t) == \E k \in DOMAIN log : k > from /\ log[k].id = id /\ log[k].topic = t

\* The message retained for a topic is in every log it matches, unless the log
\* began later.
KeptIsLogged == \A i \in DOMAIN native : \A t \in Topics :
  matches(t, native[i].filter) /\ retained_publishes[t] > native[i].since
    => Holds(native[i].log, 0, retained_publishes[t], t)

LogOrder == FiltersDiffer /\ Rising /\ KeptIsLogged

\* append_to_commitlog puts one message at the end of every log that matches,
\* and leaves the others.
LEMMA AppendIs ==
  ASSUME LogInv, NEW p \in Pub, NEW meant \in Topics, AppendToCommitlog(p, meant)
  PROVE  /\ DOMAIN native' = DOMAIN native
         /\ \A i \in DOMAIN native :
              /\ native'[i] \in Data /\ native'[i].filter = native[i].filter
              /\ native'[i].since = native[i].since
              /\ native'[i].log = IF matches(p.topic, native[i].filter)
                                  THEN Append(native[i].log, [id |-> Len(published) + 1, topic |-> p.topic])
                                  ELSE native[i].log
<1> DEFINE m   == [id |-> Len(published) + 1, topic |-> p.topic]
           hit == Matches(p.topic)
           S(i) == {k \in DOMAIN hit : hit[k] = i}
           New(i) == [n \in 1 .. Cardinality(S(i)) |-> m]
<1>1. native' = [i \in DOMAIN native |-> [native[i] EXCEPT !.log = @ \o New(i)]]
  BY DEF AppendToCommitlog
<1>2. p.topic \in Topics /\ Len(published) \in Nat
  BY DEF Pub, LogInv
<1>3. /\ hit \in Seq(DOMAIN native) /\ IsInjective(hit)
      /\ Range(hit) = {i \in DOMAIN native : matches(p.topic, native[i].filter)}
  BY <1>2, MatchesAll
<1>4. m \in Message
  BY <1>2 DEF Message
<1> HIDE DEF hit, m
<1>5. ASSUME NEW i \in DOMAIN native
      PROVE  /\ native'[i] \in Data /\ native'[i].filter = native[i].filter
             /\ native'[i].since = native[i].since
             /\ native'[i].log = IF matches(p.topic, native[i].filter)
                                  THEN Append(native[i].log, m) ELSE native[i].log
  <2>1. native[i] \in Data
    BY DEF LogInv
  <2>2. native'[i] = [native[i] EXCEPT !.log = @ \o New(i)]
    BY <1>1
  <2>3. native[i].log \in Seq(Message)
    BY <2>1 DEF Data
  <2>4. CASE matches(p.topic, native[i].filter)
    <3>1. PICK k \in DOMAIN hit : hit[k] = i
      BY <1>3, <2>4 DEF Range
    <3>2. S(i) = {k}
      BY <1>3, <3>1 DEF IsInjective
    <3>3. Cardinality(S(i)) = 1
      BY <3>2, FS_Singleton
    <3>4. New(i) = <<m>>
      BY <3>3
    <3> HIDE DEF New
    <3>5. native[i].log \o New(i) = Append(native[i].log, m)
      BY <1>4, <2>3, <3>4
    <3>6. Append(native[i].log, m) \in Seq(Message)
      BY <1>4, <2>3
    <3> QED BY <2>1, <2>2, <2>4, <3>5, <3>6 DEF Data
  <2>5. CASE ~matches(p.topic, native[i].filter)
    <3>1. S(i) = {}
      BY <1>3, <2>5 DEF Range
    <3>2. Cardinality(S(i)) = 0
      BY <3>1, FS_EmptySet
    <3>3. New(i) = <<>>
      <4>1. New(i) = [n \in 1 .. 0 |-> m]
        BY <3>2
      <4>2. [n \in 1 .. 0 |-> m] \in Seq(Message) /\ Len([n \in 1 .. 0 |-> m]) = 0
        BY <1>4
      <4> QED BY <4>1, <4>2
    <3> HIDE DEF New
    <3>4. native[i].log \o New(i) = native[i].log
      BY <2>3, <3>3
    <3> QED BY <2>1, <2>2, <2>3, <2>5, <3>4 DEF Data
  <2> QED BY <2>4, <2>5
<1>6. DOMAIN native' = DOMAIN native
  BY <1>1
<1> QED BY <1>5, <1>6 DEF m

\* What an appended message does to a log: the old ones keep their places.
LEMMA AppendedLog ==
  ASSUME NEW log \in Seq(Message), NEW m \in Message
  PROVE  /\ Append(log, m) \in Seq(Message)
         /\ DOMAIN Append(log, m) = DOMAIN log \cup {Len(log) + 1}
         /\ Append(log, m)[Len(log) + 1] = m /\ Len(log) \in Nat
         /\ DOMAIN log = 1 .. Len(log)
         /\ \A n \in DOMAIN log : Append(log, m)[n] = log[n]
OBVIOUS

\* The order of the logs survives an append.
LEMMA AppendOrders ==
  ASSUME LogInv, LogOrder, NEW p \in Pub, NEW meant \in Topics, AppendToCommitlog(p, meant)
  PROVE  LogOrder'
<1> DEFINE m == [id |-> Len(published) + 1, topic |-> p.topic]
<1>1. /\ DOMAIN native' = DOMAIN native
      /\ \A i \in DOMAIN native :
              /\ native'[i] \in Data /\ native'[i].filter = native[i].filter
              /\ native'[i].since = native[i].since
              /\ native'[i].log = IF matches(p.topic, native[i].filter)
                                  THEN Append(native[i].log, m) ELSE native[i].log
  BY AppendIs
<1>2. m \in Message /\ Len(published) \in Nat /\ p.topic \in Topics /\ m.id = Len(published) + 1
      /\ m.topic = p.topic
  BY DEF Pub, LogInv, Message
<1>3. Len(published') = Len(published) + 1
  BY DEF AppendToCommitlog, LogInv
<1>4. retained_publishes' \in [Topics -> Nat] /\ retained_publishes \in [Topics -> Nat]
      /\ \A t \in Topics : \/ retained_publishes'[t] \in {0, retained_publishes[t]}
                           \/ t = p.topic /\ retained_publishes'[t] = Len(published) + 1
  <2>1. retained_publishes \in [Topics -> 0 .. Len(published)]
    BY DEF LogInv
  <2>2. retained_publishes' = [retained_publishes EXCEPT ![p.topic] =
                                  IF p.empty THEN 0 ELSE IF p.retain THEN Len(published) + 1 ELSE @]
    BY DEF AppendToCommitlog, Retained
  <2>3. retained_publishes \in [Topics -> Nat]
    BY <1>2, <2>1
  <2> QED BY <1>2, <2>2, <2>3
<1>5. FiltersDiffer'
  BY <1>1 DEF LogOrder, FiltersDiffer
<1> HIDE DEF m
<1>6. ASSUME NEW i \in DOMAIN native
      PROVE  /\ \A n \in DOMAIN native'[i].log :
                  native[i].since < native'[i].log[n].id /\ native'[i].log[n].id <= Len(published')
             /\ \A k, n \in DOMAIN native'[i].log : k < n => native'[i].log[k].id < native'[i].log[n].id
  <2> DEFINE log == native[i].log
  <2>1. native[i] \in Data
    BY DEF LogInv
  <2>2. log \in Seq(Message) /\ native[i].since \in Nat
    BY <2>1 DEF Data
  <2>3. /\ \A n \in DOMAIN log : native[i].since < log[n].id /\ log[n].id <= Len(published) /\ log[n].id \in Nat
        /\ \A k, n \in DOMAIN log : k < n => log[k].id < log[n].id
    <3>1. \A n \in DOMAIN log : log[n] \in Message
      BY <2>2
    <3>2. \A n \in DOMAIN log : log[n].id \in Nat
      BY <3>1 DEF Message
    <3> QED BY <3>2 DEF LogOrder, Rising
  <2>4. CASE matches(p.topic, native[i].filter)
    <3>1. native'[i].log = Append(log, m)
      BY <1>1, <2>4
    <3>3. native[i].since <= Len(published)
      BY DEF LogOrder, Rising
    <3> HIDE DEF log
    <3>2. /\ DOMAIN Append(log, m) = DOMAIN log \cup {Len(log) + 1} /\ DOMAIN log = 1 .. Len(log)
          /\ Append(log, m)[Len(log) + 1] = m /\ Len(log) \in Nat
          /\ \A n \in DOMAIN log : Append(log, m)[n] = log[n]
      BY <1>2, <2>2, AppendedLog
    <3> QED BY <1>2, <1>3, <2>2, <2>3, <3>1, <3>2, <3>3
  <2>5. CASE ~matches(p.topic, native[i].filter)
    BY <1>1, <1>2, <1>3, <2>3, <2>5
  <2> QED BY <2>4, <2>5
<1>7. Rising'
  <2>1. \A i \in DOMAIN native : native[i].since <= Len(published') /\ native'[i].since = native[i].since
    <3> SUFFICES ASSUME NEW i \in DOMAIN native PROVE native[i].since <= Len(published')
      BY <1>1
    <3>1. native[i] \in Data
      BY DEF LogInv
    <3>2. native[i].since \in Nat /\ native[i].since <= Len(published)
      BY <3>1 DEF Data, LogOrder, Rising
    <3> QED BY <1>2, <1>3, <3>2
  <2> QED BY <1>1, <1>6, <2>1 DEF Rising
<1>8. ASSUME NEW i \in DOMAIN native, NEW t \in Topics, matches(t, native[i].filter),
             retained_publishes'[t] > native[i].since
      PROVE  Holds(native'[i].log, 0, retained_publishes'[t], t)
  <2> DEFINE log == native[i].log
  <2>1. native[i] \in Data
    BY DEF LogInv
  <2>2. log \in Seq(Message) /\ native[i].since \in Nat
    BY <2>1 DEF Data
  <2>3. CASE t = p.topic /\ retained_publishes'[t] = Len(published) + 1
    <3>1. native'[i].log = Append(log, m)
      BY <1>1, <1>8, <2>3
    <3> HIDE DEF log
    <3>2. /\ DOMAIN Append(log, m) = DOMAIN log \cup {Len(log) + 1}
          /\ Append(log, m)[Len(log) + 1] = m /\ Len(log) \in Nat
      BY <1>2, <2>2, AppendedLog
    <3>3. Len(log) + 1 \in DOMAIN native'[i].log /\ Len(log) + 1 > 0
          /\ native'[i].log[Len(log) + 1] = m
      BY <3>1, <3>2
    <3> QED BY <1>2, <2>3, <3>3 DEF Holds
  <2>4. CASE retained_publishes'[t] = retained_publishes[t]
    <3>1. PICK k \in DOMAIN log : k > 0 /\ log[k].id = retained_publishes[t] /\ log[k].topic = t
      BY <1>8, <2>4 DEF LogOrder, KeptIsLogged, Holds
    <3>2. k \in DOMAIN native'[i].log /\ native'[i].log[k] = log[k]
      <4>1. CASE matches(p.topic, native[i].filter)
        <5>1. native'[i].log = Append(log, m)
          BY <1>1, <4>1
        <5> HIDE DEF log
        <5> QED BY <1>2, <2>2, <3>1, <5>1, AppendedLog
      <4>2. CASE ~matches(p.topic, native[i].filter)
        BY <1>1, <3>1, <4>2
      <4> QED BY <4>1, <4>2
    <3> QED BY <2>4, <3>1, <3>2 DEF Holds
  <2>5. retained_publishes'[t] # 0
    BY <1>4, <1>8, <2>2
  <2> QED BY <1>4, <2>3, <2>4, <2>5
<1>9. KeptIsLogged'
  BY <1>1, <1>8 DEF KeptIsLogged
<1> QED BY <1>5, <1>7, <1>9 DEF LogOrder

\* A new log is empty, and is the only one of its filter.
LEMMA CreateOrders ==
  ASSUME LogInv, LogOrder, NEW f \in Filters, Create(f), UNCHANGED <<retained_publishes, published>>
  PROVE  LogOrder'
<1>1. CASE IndexOf(f) # {}
  <2>1. UNCHANGED native
    BY <1>1 DEF Create
  <2> QED BY <2>1 DEF LogOrder, FiltersDiffer, Rising, KeptIsLogged
<1>2. CASE IndexOf(f) = {}
  <2> DEFINE d == [filter |-> f, log |-> <<>>, since |-> Len(published)]
             m == Len(native) + 1
  <2>1. native' = Append(native, d)
    BY <1>2 DEF Create
  <2>2. d \in Data /\ d.filter = f /\ DOMAIN d.log = {} /\ d.since = Len(published) /\ Len(published) \in Nat
    BY DEF Data, LogInv
  <2> HIDE DEF d
  <2>3. /\ DOMAIN native' = DOMAIN native \cup {m} /\ native'[m] = d
        /\ \A i \in DOMAIN native : native'[i] = native[i]
    BY <2>1, <2>2 DEF LogInv
  <2>4. \A i \in DOMAIN native : native[i].filter # f
    BY <1>2 DEF IndexOf
  <2> HIDE DEF m
  <2>5. FiltersDiffer'
    BY <2>2, <2>3, <2>4 DEF LogOrder, FiltersDiffer
  <2>6. Rising'
    BY <2>2, <2>3 DEF LogOrder, Rising
  <2>7. \A t \in Topics : retained_publishes[t] \in Nat /\ retained_publishes[t] <= Len(published)
    BY <2>2 DEF LogInv
  <2>8. ASSUME NEW t \in Topics, retained_publishes[t] > d.since
        PROVE  FALSE
    BY <2>2, <2>7, <2>8
  <2>9. KeptIsLogged'
    BY <2>3, <2>8 DEF LogOrder, KeptIsLogged
  <2> QED BY <2>5, <2>6, <2>9 DEF LogOrder
<1> QED BY <1>1, <1>2

\* An action that leaves the data alone.
LEMMA SameOrder ==
  ASSUME LogOrder, UNCHANGED <<native, retained_publishes, published>>
  PROVE  LogOrder'
BY DEF LogOrder, FiltersDiffer, Rising, KeptIsLogged

-----------------------------------------------------------------------------
LogIn(slab, f) == slab[CHOOSE i \in {j \in DOMAIN slab : slab[j].filter = f} : TRUE].log

\* What a request was sent of its filter's log and of the retained messages:
\* of what it has read, the newest message on a topic was sent last, and of what
\* was retained it has that or will find something as new in the log.
Sent(log, kept, f, r) ==
  /\ r.cursor <= Len(log)
  /\ r.forward_retained => r.cursor <= r.start
  /\ \A n \in r.start + 1 .. r.cursor : log[n].id <= r.last[log[n].topic]
  /\ ~r.forward_retained =>
       \A t \in Topics \ r.missed : matches(t, f) =>
         kept[t] <= r.last[t] \/ Holds(log, r.cursor, kept[t], t)

AllSent(slab, kept, table) == \A f \in DOMAIN table : Sent(LogIn(slab, f), kept, f, table[f])

\* How far a client's request of f has come, or the next one would begin.
Reach(slab, table, f) == IF f \in DOMAIN table THEN table[f].cursor ELSE Len(LogIn(slab, f))

\* What is in flight was read: going back to it is going back.
Behind(slab, k) ==
  \A n \in DOMAIN k.inflight : LET s == k.inflight[n] IN
    s.cursor # NotInLog => Indexed(slab, s.filter) /\ s.cursor <= Reach(slab, k.requests, s.filter)

SessionSent(slab, kept, k, g) ==
  /\ k # Gone => AllSent(slab, kept, k.requests) /\ Behind(slab, k)
  /\ g # Gone => AllSent(slab, kept, g.requests)

SentInv ==
  \A c \in Clients : SessionSent(native, retained_publishes, connections[c], graveyard[c])

\* The log of the filter at a place.
LEMMA LogAt ==
  ASSUME NEW slab, NEW i \in DOMAIN slab,
         \A j, k \in DOMAIN slab : slab[j].filter = slab[k].filter => j = k
  PROVE  LogIn(slab, slab[i].filter) = slab[i].log
<1>1. {j \in DOMAIN slab : slab[j].filter = slab[i].filter} = {i}
  OBVIOUS
<1> QED BY <1>1 DEF LogIn

\* LogOf is LogIn of the logs there are.
LEMMA LogOfIs == \A f : LogOf(f) = LogIn(native, f) /\ (IndexOf(f) # {} <=> Indexed(native, f))
BY DEF LogOf, LogIn, IndexOf, Indexed

\* An append, and what it does to the retained message of its topic, takes
\* nothing from a request.
LEMMA SentAppended ==
  ASSUME NEW log \in Seq(Message), NEW m \in Message, NEW f, NEW r \in Request,
         NEW kept \in [Topics -> Nat], NEW after \in [Topics -> Nat], NEW new,
         new = IF matches(m.topic, f) THEN Append(log, m) ELSE log,
         \A t \in Topics : after[t] \in {0, kept[t]} \/ (t = m.topic /\ after[t] = m.id),
         Sent(log, kept, f, r)
  PROVE  Sent(new, after, f, r)
<1>1. /\ DOMAIN log = 1 .. Len(log) /\ Len(log) \in Nat
      /\ Len(log) <= Len(new) /\ DOMAIN log \subseteq DOMAIN new
      /\ \A n \in DOMAIN log : new[n] = log[n]
      /\ matches(m.topic, f) => Len(log) + 1 \in DOMAIN new /\ new[Len(log) + 1] = m
      /\ Len(new) \in Nat
  <2>1. CASE matches(m.topic, f)
    <3>1. new = Append(log, m)
      BY <2>1
    <3>2. Len(Append(log, m)) = Len(log) + 1
      OBVIOUS
    <3> QED BY <3>1, <3>2, AppendedLog
  <2>2. CASE ~matches(m.topic, f)
    BY <2>2
  <2> QED BY <2>1, <2>2
<1>2. r.cursor \in Nat /\ r.start \in Nat /\ r.last \in [Topics -> Nat]
  BY DEF Request
<1>3. r.cursor <= Len(log) /\ (r.forward_retained => r.cursor <= r.start)
  BY DEF Sent
<1>4. r.cursor <= Len(new)
  BY <1>1, <1>2, <1>3
<1>5. ASSUME NEW n \in r.start + 1 .. r.cursor
      PROVE  new[n].id <= r.last[new[n].topic]
  <2>1. n \in DOMAIN log
    BY <1>1, <1>2, <1>3
  <2>2. log[n].id <= r.last[log[n].topic]
    BY DEF Sent
  <2> QED BY <1>1, <2>1, <2>2
<1>6. ASSUME ~r.forward_retained, NEW t \in Topics \ r.missed, matches(t, f)
      PROVE  after[t] <= r.last[t] \/ Holds(new, r.cursor, after[t], t)
  <2>1. CASE after[t] = 0
    <3>1. r.last[t] \in Nat
      BY <1>2
    <3> QED BY <2>1, <3>1
  <2>2. CASE after[t] = kept[t]
    <3>1. kept[t] <= r.last[t] \/ Holds(log, r.cursor, kept[t], t)
      BY <1>6 DEF Sent
    <3> QED BY <1>1, <2>2, <3>1 DEF Holds
  <2>3. CASE t = m.topic /\ after[t] = m.id
    <3>1. Len(log) + 1 \in DOMAIN new /\ new[Len(log) + 1] = m /\ Len(log) + 1 > r.cursor
      BY <1>1, <1>2, <1>3, <1>6, <2>3
    <3> QED BY <2>3, <3>1 DEF Holds
  <2> QED BY <2>1, <2>2, <2>3
<1> QED BY <1>3, <1>4, <1>5, <1>6 DEF Sent

\* A request that goes back still has what it was sent.
LEMMA SentRewound ==
  ASSUME NEW log \in Seq(Message), NEW kept, NEW f, NEW r \in Request, NEW cursor \in Nat, cursor <= r.cursor,
         Sent(log, kept, f, r)
  PROVE  Sent(log, kept, f, [r EXCEPT !.cursor = cursor])
<1> DEFINE s == [r EXCEPT !.cursor = cursor]
<1>1. /\ s.cursor = cursor /\ s.start = r.start /\ s.missed = r.missed /\ s.last = r.last
      /\ s.forward_retained = r.forward_retained /\ r.cursor \in Nat /\ r.start \in Nat
      /\ DOMAIN log \subseteq Int /\ Len(log) \in Nat
  BY DEF Request
<1>2. cursor <= Len(log) /\ (r.forward_retained => cursor <= r.start)
  BY <1>1 DEF Sent
<1>3. \A n \in r.start + 1 .. cursor : n \in r.start + 1 .. r.cursor
  BY <1>1
<1>4. \A id, t : Holds(log, r.cursor, id, t) => Holds(log, cursor, id, t)
  BY <1>1 DEF Holds
<1> HIDE DEF s
<1> QED BY <1>1, <1>2, <1>3, <1>4 DEF Sent

\* The messages a read pushes, by their places.
BatchShape(batch, log, r, order, n) ==
  /\ DOMAIN batch = 1 .. Len(order) + n
  /\ \A k \in DOMAIN order : /\ batch[k].id = retained_publishes[order[k]]
                             /\ batch[k].topic = order[k] /\ batch[k].cursor = NotInLog
  /\ \A k \in 1 .. n : /\ batch[Len(order) + k].id = log[r.cursor + k].id
                       /\ batch[Len(order) + k].topic = log[r.cursor + k].topic
                       /\ batch[Len(order) + k].cursor = r.cursor + k - 1

\* The retained messages come first, then those of the log in its order.
LEMMA BatchIs ==
  ASSUME NEW f, NEW r \in Request, NEW order \in Seq(Topics), NEW n \in Nat,
         NEW log, LogOf(f) = log, NEW batch, batch = Batch(f, r, order, n)
  PROVE  BatchShape(batch, log, r, order, n)
<1> DEFINE Outs == {[id |-> retained_publishes[order[k]], topic |-> order[k], cursor |-> NotInLog] : k \in DOMAIN order}
              \cup {[id |-> log[r.cursor + k].id, topic |-> log[r.cursor + k].topic,
                       cursor |-> r.cursor + k - 1] : k \in 1 .. n}
           kept == [k \in 1 .. Len(order) |->
                     [id |-> retained_publishes[order[k]], topic |-> order[k], cursor |-> NotInLog]]
           new  == [k \in 1 .. n |-> [id |-> log[r.cursor + k].id, topic |-> log[r.cursor + k].topic,
                                      cursor |-> r.cursor + k - 1]]
<1>1. Batch(f, r, order, n) = kept \o new
  BY DEF Batch
<1>2. DOMAIN order = 1 .. Len(order) /\ Len(order) \in Nat
  OBVIOUS
<1>3. kept \in Seq(Outs) /\ Len(kept) = Len(order)
  <2>1. kept = [k \in 1 .. Len(order) |-> kept[k]] /\ \A k \in 1 .. Len(order) : kept[k] \in Outs
    BY <1>2
  <2> HIDE DEF kept, Outs
  <2> QED BY <1>2, <2>1, Listed
<1>4. new \in Seq(Outs) /\ Len(new) = n
  <2>1. new = [k \in 1 .. n |-> new[k]] /\ \A k \in 1 .. n : new[k] \in Outs
    OBVIOUS
  <2> HIDE DEF new, Outs
  <2> QED BY <2>1, Listed
<1> HIDE DEF Outs
<1>5. PICK both : both = kept \o new
  OBVIOUS
<1>6. /\ DOMAIN both = 1 .. Len(order) + n
      /\ \A k \in 1 .. Len(order) : both[k] = kept[k]
      /\ \A k \in 1 .. n : both[Len(order) + k] = new[k]
  <2> HIDE DEF kept, new
  <2>1. /\ Len(both) = Len(order) + n /\ both \in Seq(Outs)
        /\ \A k \in 1 .. Len(order) : both[k] = kept[k]
        /\ \A k \in Len(order) + 1 .. Len(order) + n : both[k] = new[k - Len(order)]
    BY <1>3, <1>4, <1>5, Joined
  <2>2. \A k \in 1 .. n : Len(order) + k \in Len(order) + 1 .. Len(order) + n /\ Len(order) + k - Len(order) = k
    BY <1>2
  <2>3. DOMAIN both = 1 .. Len(order) + n
    BY <2>1
  <2>4. ASSUME NEW k \in 1 .. n PROVE both[Len(order) + k] = new[k]
    <3>1. PICK j \in Len(order) + 1 .. Len(order) + n : j = Len(order) + k /\ j - Len(order) = k
      BY <2>2
    <3>2. both[j] = new[j - Len(order)]
      BY <2>1
    <3> QED BY ONLY <3>1, <3>2
  <2> QED BY ONLY <2>1, <2>3, <2>4
<1>6a. \A k \in 1 .. Len(order) : /\ kept[k].id = retained_publishes[order[k]] /\ kept[k].topic = order[k]
                                 /\ kept[k].cursor = NotInLog
  OBVIOUS
<1>7. \A k \in 1 .. n : /\ new[k].id = log[r.cursor + k].id
                        /\ new[k].topic = log[r.cursor + k].topic
                        /\ new[k].cursor = r.cursor + k - 1
  OBVIOUS
<1> HIDE DEF kept, new
<1>7a. batch = both
  BY <1>1, <1>5
<1>8. /\ DOMAIN batch = 1 .. Len(order) + n
      /\ \A k \in DOMAIN order : batch[k] = kept[k]
      /\ \A k \in 1 .. n : batch[Len(order) + k] = new[k]
  BY <1>2, <1>6, <1>7a
<1>9. \A k \in DOMAIN order : /\ batch[k].id = retained_publishes[order[k]]
                               /\ batch[k].topic = order[k] /\ batch[k].cursor = NotInLog
  BY <1>2, <1>6a, <1>8
<1>10. \A k \in 1 .. n : /\ batch[Len(order) + k].id = log[r.cursor + k].id
                          /\ batch[Len(order) + k].topic = log[r.cursor + k].topic
                          /\ batch[Len(order) + k].cursor = r.cursor + k - 1
  BY <1>7, <1>8
<1> QED BY <1>8, <1>9, <1>10 DEF BatchShape

\* The newest a client has of a topic is the last of a batch that is of that
\* topic, if there is one.
LastShape(batch, size, before, after, t) ==
  \/ (\A k \in 1 .. size : batch[k].topic # t) /\ after = before
  \/ \E k \in 1 .. size : /\ batch[k].topic = t /\ after = batch[k].id
                          /\ \A j \in 1 .. size : batch[j].topic = t => j <= k

\* What LastOf makes of a batch.
LEMMA LastOfIs ==
  ASSUME NEW batch, NEW size \in Nat, DOMAIN batch = 1 .. size, NEW last, NEW t \in Topics
  PROVE  LastShape(batch, size, last[t], LastOf(batch, last)[t], t)
<1> DEFINE at == {k \in DOMAIN batch : batch[k].topic = t}
           k  == CHOOSE j \in at : \A m \in at : m <= j
<1>1. CASE at = {}
  BY <1>1 DEF LastOf, LastShape
<1>2. CASE at # {}
  <2>1. at \in SUBSET (1 .. size) /\ \A j \in 1 .. size : batch[j].topic = t <=> j \in at
    OBVIOUS
  <2>2. LastOf(batch, last)[t] = batch[k].id
    BY <1>2 DEF LastOf
  <2>3. \E j \in at : \A m \in at : m <= j
    <3> HIDE DEF at
    <3> QED BY <1>2, <2>1, GreatestMember
  <2>4. k \in at /\ \A m \in at : m <= k
    BY <2>3
  <2> HIDE DEF at, k
  <2> QED BY <2>1, <2>2, <2>4 DEF LastShape
<1> QED BY <1>1, <1>2

\* What a read makes of the newest message of a topic: the last one of the
\* log that was read; else the one retained, if it was pushed; else what it was.
Reads(log, r, n, t, q) == q \in r.cursor + 1 .. r.cursor + n /\ log[q].topic = t

ReadShape(log, r, order, n, t, last) ==
  \/ \E q : Reads(log, r, n, t, q) /\ last = log[q].id /\ \A j : Reads(log, r, n, t, j) => j <= q
  \/ /\ \A q : ~Reads(log, r, n, t, q)
     /\ \E k \in DOMAIN order : order[k] = t /\ last = retained_publishes[t]
  \/ /\ \A q : ~Reads(log, r, n, t, q)
     /\ \A k \in DOMAIN order : order[k] # t
     /\ last = r.last[t]

\* What LastOf makes of the batch that a read pushes.
LEMMA ReadLast ==
  ASSUME NEW f, NEW r \in Request, NEW order \in Seq(Topics), NEW n \in Nat, NEW t \in Topics,
         NEW log, LogOf(f) = log, NEW batch, batch = Batch(f, r, order, n)
  PROVE  ReadShape(log, r, order, n, t, LastOf(batch, r.last)[t])
<1> DEFINE last  == LastOf(batch, r.last)[t]
           Read(q) == q \in r.cursor + 1 .. r.cursor + n /\ log[q].topic = t
           l == Len(order)
           size == l + n
<1>1. /\ DOMAIN batch = 1 .. size
      /\ \A k \in 1 .. l : batch[k].id = retained_publishes[order[k]] /\ batch[k].topic = order[k]
      /\ \A k \in 1 .. n : /\ batch[l + k].id = log[r.cursor + k].id
                           /\ batch[l + k].topic = log[r.cursor + k].topic
      /\ l \in Nat /\ DOMAIN order = 1 .. l /\ r.cursor \in Nat
  <2>1. l \in Nat /\ DOMAIN order = 1 .. l /\ r.cursor \in Nat
    BY DEF Request
  <2>2. /\ DOMAIN batch = 1 .. Len(order) + n
        /\ \A k \in DOMAIN order : batch[k].id = retained_publishes[order[k]] /\ batch[k].topic = order[k]
        /\ \A k \in 1 .. n : /\ batch[Len(order) + k].id = log[r.cursor + k].id
                             /\ batch[Len(order) + k].topic = log[r.cursor + k].topic
    <3>1. BatchShape(batch, log, r, order, n)
      BY BatchIs
    <3> QED BY <3>1 DEF BatchShape
  <2> QED BY <2>1, <2>2
<1> HIDE DEF l
<1>2. \A q : Read(q) => q - r.cursor \in 1 .. n /\ batch[l + (q - r.cursor)].topic = t
  <2> SUFFICES ASSUME NEW q, Read(q) PROVE q - r.cursor \in 1 .. n /\ batch[l + (q - r.cursor)].topic = t
    OBVIOUS
  <2>1. q - r.cursor \in 1 .. n /\ r.cursor + (q - r.cursor) = q
    BY <1>1
  <2> QED BY <1>1, <2>1
<1>3. \A k \in 1 .. size : k \in 1 .. l \/ (k - l \in 1 .. n /\ l + (k - l) = k)
  BY <1>1
<1>4. size \in Nat
  BY <1>1
<1>5. ASSUME \A k \in 1 .. size : batch[k].topic # t, last = r.last[t]
      PROVE  /\ \A q : ~Read(q)
             /\ \A k \in DOMAIN order : order[k] # t
             /\ last = r.last[t]
  <2>1. \A q : ~Read(q)
    <3> SUFFICES ASSUME NEW q, Read(q) PROVE FALSE
      OBVIOUS
    <3>1. q - r.cursor \in 1 .. n /\ batch[l + (q - r.cursor)].topic = t
      BY <1>2
    <3>2. l + (q - r.cursor) \in 1 .. size
      BY <1>1, <3>1
    <3> QED BY <1>5, <3>1, <3>2
  <2>2. \A k \in 1 .. l : k \in 1 .. size /\ order[k] # t
    BY <1>1, <1>5
  <2> QED BY <1>1, <1>5, <2>1, <2>2
<1>6. ASSUME NEW k \in 1 .. size, batch[k].topic = t, last = batch[k].id,
             \A j \in 1 .. size : batch[j].topic = t => j <= k
      PROVE  \/ \E q : Read(q) /\ last = log[q].id /\ \A j : Read(j) => j <= q
             \/ (\A q : ~Read(q)) /\ \E j \in 1 .. l : order[j] = t /\ last = retained_publishes[t]
  <2>1. \A q : Read(q) => l + (q - r.cursor) <= k /\ q \in Nat
    <3> SUFFICES ASSUME NEW q, Read(q) PROVE l + (q - r.cursor) <= k /\ q \in Nat
      OBVIOUS
    <3>1. q - r.cursor \in 1 .. n /\ batch[l + (q - r.cursor)].topic = t
      BY <1>2
    <3>2. l + (q - r.cursor) \in 1 .. size /\ q \in Nat
      BY <1>1, <3>1
    <3> QED BY <1>6, <3>1, <3>2
  <2>2. CASE k \in 1 .. l
    <3>1. \A q : ~Read(q)
      <4> SUFFICES ASSUME NEW q, Read(q) PROVE FALSE
        OBVIOUS
      <4>1. l + (q - r.cursor) <= k /\ q \in r.cursor + 1 .. r.cursor + n
        BY <2>1
      <4> QED BY <1>1, <2>2, <4>1
    <3> QED BY <1>1, <1>6, <2>2, <3>1
  <2>3. CASE k - l \in 1 .. n /\ l + (k - l) = k
    <3> DEFINE q == r.cursor + (k - l)
    <3>1. batch[k].id = log[q].id /\ batch[k].topic = log[q].topic
      BY <1>1, <2>3
    <3>2. q \in r.cursor + 1 .. r.cursor + n
      BY <1>1, <2>3
    <3>3. \A j : Read(j) => j <= q
      <4> SUFFICES ASSUME NEW j, Read(j) PROVE j <= q
        OBVIOUS
      <4>1. l + (j - r.cursor) <= k /\ j \in Nat
        BY <2>1
      <4> QED BY <1>1, <2>3, <4>1
    <3> HIDE DEF q
    <3> QED BY <1>6, <3>1, <3>2, <3>3
  <2> QED BY <1>3, <2>2, <2>3
<1>7. \/ (\A k \in 1 .. size : batch[k].topic # t) /\ last = r.last[t]
      \/ \E k \in 1 .. size : /\ batch[k].topic = t /\ last = batch[k].id
                              /\ \A j \in 1 .. size : batch[j].topic = t => j <= k
  <2> HIDE DEF size
  <2>1. LastShape(batch, size, r.last[t], last, t)
    BY <1>1, <1>4, LastOfIs
  <2> HIDE DEF last
  <2> QED BY <2>1 DEF LastShape
<1> HIDE DEF last, size
<1>8. \/ \E q : Read(q) /\ last = log[q].id /\ \A j : Read(j) => j <= q
      \/ (\A q : ~Read(q)) /\ \E j \in 1 .. l : order[j] = t /\ last = retained_publishes[t]
      \/ /\ \A q : ~Read(q)
         /\ \A k \in DOMAIN order : order[k] # t
         /\ last = r.last[t]
  <2>1. CASE (\A k \in 1 .. size : batch[k].topic # t) /\ last = r.last[t]
    BY <1>5, <2>1
  <2>2. CASE \E k \in 1 .. size : /\ batch[k].topic = t /\ last = batch[k].id
                                 /\ \A j \in 1 .. size : batch[j].topic = t => j <= k
    BY <1>6, <2>2
  <2> QED BY <1>7, <2>1, <2>2
<1>9. \A q : Read(q) <=> Reads(log, r, n, t, q)
  BY DEF Reads
<1> HIDE DEF Read
<1> QED BY <1>1, <1>8, <1>9 DEF last, ReadShape

\* A log that is in order, and has what is retained.
Ordered(log, since) ==
  /\ \A k \in DOMAIN log : since < log[k].id
  /\ \A j, k \in DOMAIN log : j < k => log[j].id < log[k].id

Keeps(log, since, kept, f) ==
  \A t \in Topics : matches(t, f) /\ kept[t] > since => Holds(log, 0, kept[t], t)

\* What is read of a log, with or without the retained messages, leaves the
\* request with all it should have been sent.
LEMMA SentRead ==
  ASSUME NEW f, NEW log \in Seq(Message), LogOf(f) = log, NEW since \in Nat, Ordered(log, since),
         Keeps(log, since, retained_publishes, f), retained_publishes \in [Topics -> Nat],
         NEW r \in Request, Sent(log, retained_publishes, f, r),
         NEW order \in Seq(Topics), \A k \in DOMAIN order : order[k] \in RetainedFor(f, r),
         NEW n \in Nat, n <= Len(log) - r.cursor,
         NEW batch, batch = Batch(f, r, order, n),
         NEW s, s.cursor = r.cursor + n, s.start = r.start, ~s.forward_retained,
         s.missed = r.missed \cup (RetainedFor(f, r) \ Range(order)),
         s.last = LastOf(batch, r.last)
  PROVE  Sent(log, retained_publishes, f, s)
<1>1. /\ r.cursor \in Nat /\ r.start \in Nat /\ r.last \in [Topics -> Nat]
      /\ DOMAIN log = 1 .. Len(log) /\ Len(log) \in Nat
  BY DEF Request
<1>2. /\ r.forward_retained => r.cursor <= r.start
      /\ \A j \in r.start + 1 .. r.cursor : log[j].id <= r.last[log[j].topic]
  BY DEF Sent
<1>3. s.cursor <= Len(log)
  BY <1>1
<1>4. \A t \in Topics : ReadShape(log, r, order, n, t, s.last[t])
  BY ReadLast
<1>5. \A k \in DOMAIN log : log[k].topic \in Topics /\ log[k].id \in Nat
  <2>1. \A k \in DOMAIN log : log[k] \in Message
    OBVIOUS
  <2> QED BY <2>1 DEF Message
<1>6. \A t \in RetainedFor(f, r) : r.forward_retained
  BY DEF RetainedFor
<1>7. ASSUME NEW j \in r.start + 1 .. r.cursor + n
      PROVE  log[j].id <= s.last[log[j].topic]
  <2> DEFINE t == log[j].topic
  <2>1. j \in DOMAIN log /\ t \in Topics /\ log[j].id \in Nat
    <3>1. j \in 1 .. Len(log)
      BY <1>1, <1>3
    <3> QED BY <1>1, <1>5, <3>1
  <2>2. ReadShape(log, r, order, n, t, s.last[t])
    BY <1>4, <2>1
  <2>3. CASE j > r.cursor
    <3>1. Reads(log, r, n, t, j)
      <4>1. j \in r.cursor + 1 .. r.cursor + n
        BY <1>1, <2>3
      <4> QED BY <4>1 DEF Reads
    <3>2. PICK q : /\ Reads(log, r, n, t, q) /\ s.last[t] = log[q].id
                   /\ \A i : Reads(log, r, n, t, i) => i <= q
      BY <2>2, <3>1 DEF ReadShape
    <3>3. j <= q /\ q \in DOMAIN log
      BY <1>1, <3>1, <3>2 DEF Reads
    <3>4. log[j].id <= log[q].id
      <4>1. CASE j = q
        BY <2>1, <4>1
      <4>2. CASE j < q
        <5>1. log[j].id < log[q].id
          BY <2>1, <3>3, <4>2 DEF Ordered
        <5> QED BY <1>5, <2>1, <3>3, <5>1
      <4> QED BY <1>1, <2>1, <3>3, <4>1, <4>2
    <3> QED BY <3>2, <3>4
  <2>4. CASE j <= r.cursor
    <3>1. j \in r.start + 1 .. r.cursor /\ ~r.forward_retained
      BY <1>1, <1>2, <2>4
    <3>2. log[j].id <= r.last[t] /\ r.last[t] \in Nat
      BY <1>1, <1>2, <2>1, <3>1
    <3>3. ~ \E k \in DOMAIN order : order[k] = t
      BY <1>6, <3>1
    <3>4. CASE \E q : Reads(log, r, n, t, q) /\ s.last[t] = log[q].id
      <4>1. PICK q : Reads(log, r, n, t, q) /\ s.last[t] = log[q].id
        BY <3>4
      <4>2. q \in DOMAIN log /\ j < q
        BY <1>1, <2>1, <2>4, <4>1 DEF Reads
      <4>3. log[j].id < log[q].id
        BY <2>1, <4>2 DEF Ordered
      <4> QED BY <1>5, <2>1, <4>1, <4>2, <4>3
    <3>5. CASE s.last[t] = r.last[t]
      BY <3>2, <3>5
    <3> QED BY <2>2, <3>3, <3>4, <3>5 DEF ReadShape
  <2> QED BY <1>1, <2>1, <2>3, <2>4
<1>8. ASSUME NEW t \in Topics \ s.missed, matches(t, f)
      PROVE  \/ retained_publishes[t] <= s.last[t]
             \/ Holds(log, s.cursor, retained_publishes[t], t)
  <2> DEFINE kept == retained_publishes[t]
  <2>1. kept \in Nat /\ r.last[t] \in Nat
    BY <1>1
  <2>2. ReadShape(log, r, order, n, t, s.last[t])
    BY <1>4
  <2>3. CASE \E q : /\ Reads(log, r, n, t, q) /\ s.last[t] = log[q].id
                    /\ \A i : Reads(log, r, n, t, i) => i <= q
    <3>1. PICK q : /\ Reads(log, r, n, t, q) /\ s.last[t] = log[q].id
                   /\ \A i : Reads(log, r, n, t, i) => i <= q
      BY <2>3
    <3>2. q \in DOMAIN log /\ log[q].id \in Nat /\ since < log[q].id
      <4>1. q \in 1 .. Len(log)
        BY <1>1, <3>1 DEF Reads
      <4> QED BY <1>1, <1>5, <4>1 DEF Ordered
    <3>3. CASE kept <= log[q].id
      BY <3>1, <3>3
    <3>4. CASE kept > log[q].id
      <4>1. Holds(log, 0, kept, t)
        BY <1>8, <2>1, <3>2, <3>4 DEF Keeps
      <4>2. PICK k \in DOMAIN log : log[k].id = kept /\ log[k].topic = t
        BY <4>1 DEF Holds
      <4>3. k > q
        <5>1. ~(k < q) /\ k # q
          BY <2>1, <3>2, <3>4, <4>2 DEF Ordered
        <5> QED BY <1>1, <3>2, <5>1
      <4>4. k > r.cursor + n
        <5>1. ~Reads(log, r, n, t, k)
          BY <1>1, <3>1, <3>2, <4>3
        <5>2. k > r.cursor
          BY <1>1, <3>1, <4>3 DEF Reads
        <5> QED BY <1>1, <4>2, <5>1, <5>2 DEF Reads
      <4> QED BY <4>2, <4>4 DEF Holds
    <3> QED BY <2>1, <3>2, <3>3, <3>4
  <2>4. CASE s.last[t] = kept
    BY <2>1, <2>4
  <2>5. CASE /\ \A q : ~Reads(log, r, n, t, q)
             /\ \A k \in DOMAIN order : order[k] # t
             /\ s.last[t] = r.last[t]
    <3>1. CASE r.forward_retained
      <4>1. t \notin RetainedFor(f, r)
        BY <1>8, <2>5 DEF Range
      <4>2. kept = 0
        BY <1>8, <3>1, <4>1 DEF RetainedFor
      <4> QED BY <2>1, <2>5, <4>2
    <3>2. CASE ~r.forward_retained
      <4>1. t \in Topics \ r.missed
        BY <1>8
      <4>2. kept <= r.last[t] \/ Holds(log, r.cursor, kept, t)
        BY <1>8, <3>2, <4>1 DEF Sent
      <4>3. ASSUME NEW k \in DOMAIN log, k > r.cursor, log[k].topic = t
            PROVE  k > s.cursor
        <5>1. ~Reads(log, r, n, t, k)
          BY <2>5
        <5> QED BY <1>1, <4>3, <5>1 DEF Reads
      <4> QED BY <2>5, <4>2, <4>3 DEF Holds
    <3> QED BY <3>1, <3>2
  <2> QED BY <2>2, <2>3, <2>4, <2>5 DEF ReadShape
<1> QED BY <1>3, <1>7, <1>8 DEF Sent

\* An action takes from no log and from no request what it was sent.
LogsKeep ==
  \A f \in Filters : Indexed(native, f) =>
    /\ Indexed(native', f)
    /\ Len(LogIn(native, f)) \in Nat /\ Len(LogIn(native', f)) \in Nat
    /\ Len(LogIn(native, f)) <= Len(LogIn(native', f))
    /\ \A r \in Request : Sent(LogIn(native, f), retained_publishes, f, r)
                            => Sent(LogIn(native', f), retained_publishes', f, r)

\* The log of a filter is that at its place.
LEMMA LogInIs ==
  ASSUME LogInv, FiltersDiffer, NEW i \in DOMAIN native
  PROVE  LogIn(native, native[i].filter) = native[i].log /\ native[i].log \in Seq(Message)
<1>1. native[i] \in Data
  BY DEF LogInv
<1>2. LogIn(native, native[i].filter) = native[i].log
  BY LogAt DEF FiltersDiffer
<1> QED BY <1>1, <1>2 DEF Data

\* append_to_commitlog takes nothing from a request.
LEMMA AppendKeepsSent ==
  ASSUME LogInv, LogOrder, NEW p \in Pub, NEW meant \in Topics, AppendToCommitlog(p, meant)
  PROVE  LogsKeep
<1> DEFINE m == [id |-> Len(published) + 1, topic |-> p.topic]
<1>1. /\ DOMAIN native' = DOMAIN native
      /\ \A i \in DOMAIN native :
              /\ native'[i] \in Data /\ native'[i].filter = native[i].filter
              /\ native'[i].log = IF matches(p.topic, native[i].filter)
                                  THEN Append(native[i].log, m) ELSE native[i].log
  BY AppendIs
<1>2. m \in Message /\ p.topic \in Topics /\ m.topic = p.topic /\ m.id = Len(published) + 1
  BY DEF Pub, LogInv, Message
<1>3. FiltersDiffer /\ FiltersDiffer'
  BY AppendOrders DEF LogOrder
<1>4. /\ retained_publishes \in [Topics -> Nat] /\ retained_publishes' \in [Topics -> Nat]
      /\ \A t \in Topics : \/ retained_publishes'[t] \in {0, retained_publishes[t]}
                           \/ t = m.topic /\ retained_publishes'[t] = m.id
  <2>1. retained_publishes \in [Topics -> 0 .. Len(published)] /\ Len(published) \in Nat
    BY DEF LogInv
  <2>2. retained_publishes' = [retained_publishes EXCEPT ![p.topic] =
                                  IF p.empty THEN 0 ELSE IF p.retain THEN Len(published) + 1 ELSE @]
    BY DEF AppendToCommitlog, Retained
  <2>3. retained_publishes \in [Topics -> Nat]
    BY <2>1
  <2> QED BY <1>2, <2>1, <2>2, <2>3
<1> HIDE DEF m
<1>5. ASSUME NEW f \in Filters, Indexed(native, f)
      PROVE  /\ Indexed(native', f)
             /\ Len(LogIn(native, f)) \in Nat /\ Len(LogIn(native', f)) \in Nat
             /\ Len(LogIn(native, f)) <= Len(LogIn(native', f))
             /\ \A r \in Request : Sent(LogIn(native, f), retained_publishes, f, r)
                                     => Sent(LogIn(native', f), retained_publishes', f, r)
  <2>1. PICK i \in DOMAIN native : native[i].filter = f
    BY <1>5 DEF Indexed
  <2>2. LogIn(native, f) = native[i].log /\ native[i].log \in Seq(Message)
    BY <1>3, <2>1, LogInIs
  <2>3. native'[i].filter = f /\ i \in DOMAIN native' /\ native'[i] \in Data
    BY <1>1, <2>1
  <2>4. LogIn(native', f) = native'[i].log
    BY <1>3, <2>3, LogAt DEF FiltersDiffer
  <2>5. PICK log, new : log = native[i].log /\ new = native'[i].log
    OBVIOUS
  <2>6. log \in Seq(Message) /\ new = IF matches(m.topic, f) THEN Append(log, m) ELSE log
    BY <1>1, <1>2, <2>1, <2>2, <2>5
  <2>7. Len(log) \in Nat /\ Len(new) \in Nat /\ Len(log) <= Len(new)
    <3>1. CASE matches(m.topic, f)
      <4>1. new = Append(log, m)
        BY <2>6, <3>1
      <4>2. Len(Append(log, m)) = Len(log) + 1 /\ Len(log) \in Nat
        BY <1>2, <2>6
      <4> QED BY <4>1, <4>2
    <3>2. CASE ~matches(m.topic, f)
      BY <2>6, <3>2
    <3> QED BY <3>1, <3>2
  <2>8. ASSUME NEW r \in Request, Sent(log, retained_publishes, f, r)
        PROVE  Sent(new, retained_publishes', f, r)
    <3>1. PICK kept, after : kept = retained_publishes /\ after = retained_publishes'
      OBVIOUS
    <3>2. /\ kept \in [Topics -> Nat] /\ after \in [Topics -> Nat]
          /\ \A t \in Topics : after[t] \in {0, kept[t]} \/ (t = m.topic /\ after[t] = m.id)
      BY <1>4, <3>1
    <3>3. Sent(log, kept, f, r)
      BY <2>8, <3>1
    <3>4. Sent(new, after, f, r)
      BY <1>2, <2>6, <3>2, <3>3, SentAppended
    <3> QED BY <3>1, <3>4
  <2>9. Indexed(native', f)
    BY <2>3 DEF Indexed
  <2> QED BY <2>2, <2>4, <2>5, <2>7, <2>8, <2>9
<1> QED BY <1>5 DEF LogsKeep

\* Logs that stay, with others perhaps beside them.
LEMMA SameKeepsSent ==
  ASSUME LogInv, FiltersDiffer, FiltersDiffer', retained_publishes' = retained_publishes,
         DOMAIN native \subseteq DOMAIN native', \A i \in DOMAIN native : native'[i] = native[i]
  PROVE  LogsKeep
<1>1. ASSUME NEW f \in Filters, Indexed(native, f)
      PROVE  /\ Indexed(native', f) /\ LogIn(native', f) = LogIn(native, f)
             /\ Len(LogIn(native, f)) \in Nat
  <2>1. PICK i \in DOMAIN native : native[i].filter = f
    BY <1>1 DEF Indexed
  <2>2. LogIn(native, f) = native[i].log /\ native[i].log \in Seq(Message)
    BY <2>1, LogInIs
  <2>3. native'[i].filter = f /\ i \in DOMAIN native' /\ native'[i].log = native[i].log
    BY <2>1
  <2>4. LogIn(native', f) = native'[i].log
    BY <2>3, LogAt DEF FiltersDiffer
  <2>5. Indexed(native', f)
    BY <2>3 DEF Indexed
  <2>6. Len(native[i].log) \in Nat
    BY <2>2
  <2> QED BY <2>2, <2>3, <2>4, <2>5, <2>6
<1> QED BY <1>1 DEF LogsKeep

\* A new log takes nothing from the others.
LEMMA CreateKeepsSent ==
  ASSUME LogInv, LogOrder, NEW f \in Filters, Create(f), UNCHANGED <<retained_publishes, published>>
  PROVE  LogsKeep
<1>1. FiltersDiffer /\ FiltersDiffer'
  BY CreateOrders DEF LogOrder
<1>2. DOMAIN native \subseteq DOMAIN native' /\ \A i \in DOMAIN native : native'[i] = native[i]
  <2>1. CASE IndexOf(f) # {}
    BY <2>1 DEF Create
  <2>2. CASE IndexOf(f) = {}
    <3>1. native' = Append(native, [filter |-> f, log |-> <<>>, since |-> Len(published)])
      BY <2>2 DEF Create
    <3> QED BY <3>1 DEF LogInv
  <2> QED BY <2>1, <2>2
<1> QED BY <1>1, <1>2, SameKeepsSent

\* An action that leaves the data alone.
LEMMA UnchangedKeepsSent ==
  ASSUME LogInv, LogOrder, UNCHANGED <<native, retained_publishes, published>>
  PROVE  LogsKeep /\ LogOrder'
<1>1. LogOrder'
  BY SameOrder
<1> QED BY <1>1, SameKeepsSent DEF LogOrder

\* A session an action leaves alone.
LEMMA AllSentStays ==
  ASSUME LogsKeep, NEW table \in Table(Request), Located(native, table),
         AllSent(native, retained_publishes, table)
  PROVE  AllSent(native', retained_publishes', table)
<1> SUFFICES ASSUME NEW f \in DOMAIN table
             PROVE  Sent(LogIn(native', f), retained_publishes', f, table[f])
  BY DEF AllSent
<1>1. f \in Filters /\ table[f] \in Request /\ Indexed(native, f)
  BY DEF Table, Located
<1>2. Sent(LogIn(native, f), retained_publishes, f, table[f])
  BY DEF AllSent
<1> QED BY <1>1, <1>2 DEF LogsKeep

\* What is in flight stays behind the request when logs only grow.
LEMMA BehindStays ==
  ASSUME LogsKeep, NEW k, k.inflight \in Seq(Slot), Behind(native, k)
  PROVE  Behind(native', k)
<1> SUFFICES ASSUME NEW n \in DOMAIN k.inflight, k.inflight[n].cursor # NotInLog
             PROVE  /\ Indexed(native', k.inflight[n].filter)
                    /\ k.inflight[n].cursor <= Reach(native', k.requests, k.inflight[n].filter)
  BY DEF Behind
<1>1. PICK s : s = k.inflight[n]
  OBVIOUS
<1>2. s \in Slot /\ s.cursor # NotInLog
  BY <1>1
<1>3. s.filter \in Filters /\ s.cursor \in Nat
  BY <1>2 DEF Slot
<1>4. Indexed(native, s.filter) /\ s.cursor <= Reach(native, k.requests, s.filter)
  BY <1>1, <1>2 DEF Behind
<1>5. /\ Indexed(native', s.filter)
      /\ Len(LogIn(native, s.filter)) \in Nat /\ Len(LogIn(native', s.filter)) \in Nat
      /\ Len(LogIn(native, s.filter)) <= Len(LogIn(native', s.filter))
  BY <1>3, <1>4 DEF LogsKeep
<1>6. s.cursor <= Reach(native', k.requests, s.filter)
  <2>1. CASE s.filter \in DOMAIN k.requests
    BY <1>4, <2>1 DEF Reach
  <2>2. CASE s.filter \notin DOMAIN k.requests
    BY <1>3, <1>4, <1>5, <2>2 DEF Reach
  <2> QED BY <2>1, <2>2
<1> QED BY <1>1, <1>5, <1>6

\* A client that an action leaves alone has what it was sent.
LEMMA SessionStays ==
  ASSUME LogsKeep, NEW k, NEW g, NEW topics, NEW owes, NEW max,
         ClientOK(native, k, g, topics, owes, max), SessionSent(native, retained_publishes, k, g)
  PROVE  SessionSent(native', retained_publishes', k, g)
<1>1. ASSUME k # Gone
      PROVE  AllSent(native', retained_publishes', k.requests) /\ Behind(native', k)
  <2>1. k \in Conn /\ Located(native, k.requests)
    BY <1>1 DEF ClientOK, ConnOK
  <2>2. k.requests \in Table(Request) /\ k.inflight \in Seq(Slot)
    BY <2>1 DEF Conn
  <2>3. AllSent(native, retained_publishes, k.requests) /\ Behind(native, k)
    BY <1>1 DEF SessionSent
  <2> QED BY <2>1, <2>2, <2>3, AllSentStays, BehindStays
<1>2. ASSUME g # Gone
      PROVE  AllSent(native', retained_publishes', g.requests)
  <2>1. g \in Session /\ Located(native, g.requests)
    BY <1>2 DEF ClientOK
  <2>2. AllSent(native, retained_publishes, g.requests)
    BY <1>2 DEF SessionSent
  <2> QED BY <2>1, <2>2, AllSentStays DEF Session
<1> QED BY <1>1, <1>2 DEF SessionSent

\* An action is about one client's requests.
LEMMA OneSent ==
  ASSUME SessionInv, SentInv, LogsKeep, NEW c \in Clients,
         \A d \in Clients \ {c} : connections'[d] = connections[d] /\ graveyard'[d] = graveyard[d],
         SessionSent(native', retained_publishes', connections'[c], graveyard'[c])
  PROVE  SentInv'
<1> SUFFICES ASSUME NEW d \in Clients, d # c
             PROVE  SessionSent(native', retained_publishes', connections'[d], graveyard'[d])
  BY DEF SentInv
<1>1. ClientOK(native, connections[d], graveyard[d], learned[d], owed[d], TopicAliasMax[d])
  BY DEF SessionInv
<1>2. SessionSent(native, retained_publishes, connections[d], graveyard[d])
  BY DEF SentInv
<1>3. SessionSent(native', retained_publishes', connections[d], graveyard[d])
  BY <1>1, <1>2, SessionStays
<1> QED BY <1>3

-----------------------------------------------------------------------------
SendsInv == IInv /\ LogOrder /\ SentInv

\* What was sent to a live connection.
LEMMA LiveSent ==
  ASSUME SendsInv, NEW c \in Clients, Live(c)
  PROVE  /\ AllSent(native, retained_publishes, Requests(c)) /\ Behind(native, connections[c])
         /\ connections[c] \in Conn /\ Requests(c) \in Table(Request)
         /\ connections[c].inflight \in Seq(Slot) /\ Located(native, Requests(c))
<1>1. SessionSent(native, retained_publishes, connections[c], graveyard[c])
  BY DEF SendsInv, SentInv
<1>2. connections[c] \in Conn /\ Located(native, connections[c].requests)
  BY LiveOK DEF SendsInv, IInv, ConnOK
<1> QED BY <1>1, <1>2 DEF SessionSent, Live, Requests, Conn

\* A live connection that keeps its requests, and has in flight what it had or
\* less.
LEMMA SameRequests ==
  ASSUME SendsInv, LogsKeep, NEW c \in Clients, Live(c),
         graveyard'[c] = graveyard[c],
         connections'[c].requests = connections[c].requests,
         \A n \in DOMAIN connections'[c].inflight : \E m \in DOMAIN connections[c].inflight :
            connections'[c].inflight[n] = connections[c].inflight[m]
  PROVE  SessionSent(native', retained_publishes', connections'[c], graveyard'[c])
<1>1. SessionSent(native', retained_publishes', connections[c], graveyard[c])
  <2>1. ClientOK(native, connections[c], graveyard[c], learned[c], owed[c], TopicAliasMax[c])
    BY DEF SendsInv, IInv, SessionInv
  <2>2. SessionSent(native, retained_publishes, connections[c], graveyard[c])
    BY DEF SendsInv, SentInv
  <2> QED BY <2>1, <2>2, SessionStays
<1>2. AllSent(native', retained_publishes', connections[c].requests) /\ Behind(native', connections[c])
  BY <1>1 DEF SessionSent, Live
<1>3. Behind(native', connections'[c])
  <2> SUFFICES ASSUME NEW n \in DOMAIN connections'[c].inflight,
                      connections'[c].inflight[n].cursor # NotInLog
               PROVE  /\ Indexed(native', connections'[c].inflight[n].filter)
                      /\ connections'[c].inflight[n].cursor
                           <= Reach(native', connections'[c].requests, connections'[c].inflight[n].filter)
    BY DEF Behind
  <2>1. PICK m \in DOMAIN connections[c].inflight :
           connections'[c].inflight[n] = connections[c].inflight[m]
    OBVIOUS
  <2>2. PICK s : s = connections[c].inflight[m]
    OBVIOUS
  <2>3. s.cursor # NotInLog
    BY <2>1, <2>2
  <2>4. Indexed(native', s.filter) /\ s.cursor <= Reach(native', connections[c].requests, s.filter)
    BY <1>2, <2>2, <2>3 DEF Behind
  <2> QED BY <2>1, <2>2, <2>4
<1> QED BY <1>1, <1>2, <1>3 DEF SessionSent

\* PUBACK and PUBREC.
LEMMA AckSent ==
  ASSUME SendsInv, NEW c \in Clients, Ack(c)
  PROVE  LogOrder' /\ SentInv'
<1>1. LogsKeep /\ LogOrder'
  BY UnchangedKeepsSent DEF SendsInv, IInv, Ack
<1>2. Live(c) /\ connections[c].inflight \in Seq(Slot)
  BY LiveSent DEF Ack
<1>3. /\ \A d \in Clients \ {c} : connections'[d] = connections[d] /\ graveyard'[d] = graveyard[d]
      /\ graveyard'[c] = graveyard[c]
      /\ connections'[c] = [connections[c] EXCEPT !.inflight = Tail(@)]
  BY DEF SendsInv, IInv, SessionInv, Ack
<1>4. connections'[c].requests = connections[c].requests /\ connections'[c].inflight = Tail(connections[c].inflight)
  <2>1. connections[c] \in Conn
    BY <1>2, LiveSent
  <2> QED BY <1>3, <2>1 DEF Conn
<1>5. \A n \in DOMAIN Tail(connections[c].inflight) :
         /\ n + 1 \in DOMAIN connections[c].inflight
         /\ Tail(connections[c].inflight)[n] = connections[c].inflight[n + 1]
  <2>1. PICK s : s = connections[c].inflight
    OBVIOUS
  <2>2. s \in Seq(Slot) /\ s # <<>>
    BY <1>2, <2>1 DEF Ack
  <2>3. \A n \in DOMAIN Tail(s) : n + 1 \in DOMAIN s /\ Tail(s)[n] = s[n + 1]
    BY <2>2
  <2> QED BY <2>1, <2>3
<1>6. \A n \in DOMAIN connections'[c].inflight : \E m \in DOMAIN connections[c].inflight :
         connections'[c].inflight[n] = connections[c].inflight[m]
  <2>1. PICK s, t : s = connections[c].inflight /\ t = connections'[c].inflight
    OBVIOUS
  <2>2. \A n \in DOMAIN t : n + 1 \in DOMAIN s /\ t[n] = s[n + 1]
    BY <1>4, <1>5, <2>1
  <2>3. \A n \in DOMAIN t : \E m \in DOMAIN s : t[n] = s[m]
    BY <2>2
  <2> QED BY <2>1, <2>3
<1>7. SessionSent(native', retained_publishes', connections'[c], graveyard'[c])
  BY <1>1, <1>2, <1>3, <1>4, <1>6, SameRequests
<1> QED BY <1>1, <1>3, <1>7, OneSent DEF SendsInv, IInv

\* PUBLISH with QoS 2.
LEMMA RecordSent ==
  ASSUME SendsInv, NEW c \in Clients, NEW p, Record(c, p)
  PROVE  LogOrder' /\ SentInv'
<1>1. LogsKeep /\ LogOrder'
  BY UnchangedKeepsSent DEF SendsInv, IInv, Record
<1>2. Live(c) /\ connections[c] \in Conn
  BY LiveSent DEF Record
<1>3. /\ \A d \in Clients \ {c} : connections'[d] = connections[d] /\ graveyard'[d] = graveyard[d]
      /\ graveyard'[c] = graveyard[c]
      /\ connections'[c] = [connections[c] EXCEPT !.recorded = Append(@, p)]
  BY DEF SendsInv, IInv, SessionInv, Record
<1>4. connections'[c].requests = connections[c].requests /\ connections'[c].inflight = connections[c].inflight
  BY <1>2, <1>3 DEF Conn
<1>5. SessionSent(native', retained_publishes', connections'[c], graveyard'[c])
  BY <1>1, <1>2, <1>3, <1>4, SameRequests
<1> QED BY <1>1, <1>3, <1>5, OneSent DEF SendsInv, IInv

\* PUBLISH with QoS 0 or 1.
LEMMA PublishSent ==
  ASSUME SendsInv, NEW c \in Clients, NEW p \in Publishes[c], Publish(c, p)
  PROVE  LogOrder' /\ SentInv'
<1>1. p \in Pub /\ p.topic \in Topics
  BY DeliveryAssumption DEF Pub
<1>2. LogsKeep /\ LogOrder'
  BY <1>1, AppendKeepsSent, AppendOrders DEF SendsInv, IInv, Publish
<1>3. connections' = connections /\ graveyard' = graveyard /\ Live(c)
  BY DEF Publish
<1>4. SessionSent(native', retained_publishes', connections'[c], graveyard'[c])
  BY <1>2, <1>3, SameRequests
<1> QED BY <1>2, <1>3, <1>4, OneSent DEF SendsInv, IInv

\* PUBREL.
LEMMA ReleaseSent ==
  ASSUME SendsInv, NEW c \in Clients, Release(c)
  PROVE  LogOrder' /\ SentInv'
<1>1. Live(c) /\ connections[c] \in Conn /\ connections[c].recorded # <<>> /\ owed[c] # <<>>
  BY LiveSent DEF Release
<1>2. Head(connections[c].recorded) \in Pub /\ Head(owed[c]).topic \in Topics
  <2>1. connections[c].recorded \in Seq(Pub) /\ owed[c] \in Seq(Pub)
    BY <1>1, LiveOK DEF SendsInv, IInv, Conn
  <2>2. Head(connections[c].recorded) \in Pub /\ Head(owed[c]) \in Pub
    BY <1>1, <2>1
  <2> QED BY <2>2 DEF Pub
<1>3. LogsKeep /\ LogOrder'
  BY <1>2, AppendKeepsSent, AppendOrders DEF SendsInv, IInv, Release
<1>4. /\ \A d \in Clients \ {c} : connections'[d] = connections[d] /\ graveyard'[d] = graveyard[d]
      /\ graveyard'[c] = graveyard[c]
      /\ connections'[c] = [connections[c] EXCEPT !.recorded = Tail(@)]
  BY DEF SendsInv, IInv, SessionInv, Release
<1>5. connections'[c].requests = connections[c].requests /\ connections'[c].inflight = connections[c].inflight
  BY <1>1, <1>4 DEF Conn
<1>6. SessionSent(native', retained_publishes', connections'[c], graveyard'[c])
  BY <1>1, <1>3, <1>4, <1>5, SameRequests
<1> QED BY <1>3, <1>4, <1>6, OneSent DEF SendsInv, IInv

\* handle_new_connection: a resumed session has what was sent before.
LEMMA ConnectSent ==
  ASSUME SendsInv, NEW c \in Clients, NEW clean, Connect(c, clean)
  PROVE  LogOrder' /\ SentInv'
<1>1. LogsKeep /\ LogOrder'
  BY UnchangedKeepsSent DEF SendsInv, IInv, Connect
<1> DEFINE resume == ~clean /\ graveyard[c] # Gone
           table == IF resume THEN graveyard[c].requests ELSE <<>>
           new == [clean |-> clean, requests |-> table, mapped |-> {}, inflight |-> <<>>,
                   aliases |-> <<>>, recorded |-> <<>>]
<1>2. connections' = [connections EXCEPT ![c] = new] /\ graveyard' = [graveyard EXCEPT ![c] = Gone]
  BY DEF Connect
<1>3. AllSent(native', retained_publishes', table)
  <2>1. CASE resume
    <3>1. SessionSent(native', retained_publishes', connections[c], graveyard[c])
      <4>1. ClientOK(native, connections[c], graveyard[c], learned[c], owed[c], TopicAliasMax[c])
        BY DEF SendsInv, IInv, SessionInv
      <4>2. SessionSent(native, retained_publishes, connections[c], graveyard[c])
        BY DEF SendsInv, SentInv
      <4> QED BY <1>1, <4>1, <4>2, SessionStays
    <3> QED BY <2>1, <3>1 DEF SessionSent
  <2>2. CASE ~resume
    <3>1. table = <<>> /\ DOMAIN <<>> = {}
      BY <2>2
    <3> HIDE DEF table
    <3> QED BY <3>1 DEF AllSent
  <2> QED BY <2>1, <2>2
<1> HIDE DEF resume, table
<1>4. new.requests = table /\ new.inflight = <<>> /\ DOMAIN new.inflight = {}
  OBVIOUS
<1> HIDE DEF new
<1>5. /\ \A d \in Clients \ {c} : connections'[d] = connections[d] /\ graveyard'[d] = graveyard[d]
      /\ graveyard'[c] = Gone /\ connections'[c] = new
  BY <1>2 DEF SendsInv, IInv, SessionInv
<1>6. Behind(native', new)
  BY <1>4 DEF Behind
<1>7. SessionSent(native', retained_publishes', connections'[c], graveyard'[c])
  BY <1>3, <1>4, <1>5, <1>6 DEF SessionSent
<1> QED BY <1>1, <1>5, <1>7, OneSent DEF SendsInv, IInv

\* A request that goes back to what is in flight goes back.
LEMMA RewoundSent ==
  ASSUME SendsInv, NEW c \in Clients, Live(c), NEW f \in DOMAIN Requests(c)
  PROVE  Sent(LogIn(native, f), retained_publishes, f, Rewound(c, f))
<1> DEFINE slots == connections[c].inflight
           back == {n \in DOMAIN slots : slots[n].filter = f /\ slots[n].cursor # NotInLog}
           least == CHOOSE n \in back : \A m \in back : n <= m
<1>1. PICK r : r = Requests(c)[f]
  OBVIOUS
<1>2. r \in Request /\ slots \in Seq(Slot) /\ Sent(LogIn(native, f), retained_publishes, f, r)
      /\ Indexed(native, f)
  BY <1>1, LiveSent DEF Table, AllSent, Located
<1>3. CASE back = {}
  BY <1>1, <1>2, <1>3 DEF Rewound
<1>4. CASE back # {}
  <2>1. back \in SUBSET Nat /\ back # {}
    BY <1>2, <1>4
  <2>2. \E n \in back : \A m \in back : n <= m
    <3> HIDE DEF back
    <3> QED BY <2>1, LeastMember
  <2>3. least \in back
    BY <2>2
  <2>4. Rewound(c, f) = [r EXCEPT !.cursor = slots[least].cursor]
    BY <1>1, <1>4 DEF Rewound
  <2>5. least \in DOMAIN slots /\ slots[least].filter = f /\ slots[least].cursor # NotInLog
    <3> HIDE DEF least
    <3> QED BY <2>3
  <2> HIDE DEF least, back
  <2>6. PICK s : s = slots[least]
    OBVIOUS
  <2>7. s \in Slot /\ s.filter = f /\ s.cursor # NotInLog
    BY <1>2, <2>5, <2>6
  <2>8. s.cursor \in Nat
    BY <2>7 DEF Slot
  <2>9. s.cursor <= r.cursor
    <3>1. s.cursor <= Reach(native, Requests(c), f)
      <4>1. Behind(native, connections[c])
        BY LiveSent
      <4> QED BY <2>5, <2>6, <4>1 DEF Behind, Requests
    <3> QED BY <1>1, <3>1 DEF Reach
  <2>10. PICK log : log = LogIn(native, f)
    OBVIOUS
  <2>11. log \in Seq(Message)
    <3>1. LogIn(native, f) = LogOf(f)
      BY LogOfIs
    <3> QED BY <1>2, <2>10, <3>1, LogOfOK DEF SendsInv, IInv
  <2>12. PICK kept : kept = retained_publishes
    OBVIOUS
  <2>13. Sent(log, kept, f, r)
    BY <1>2, <2>10, <2>12
  <2> HIDE DEF slots
  <2>14. Sent(log, kept, f, [r EXCEPT !.cursor = s.cursor])
    BY <1>2, <2>8, <2>9, <2>11, <2>13, SentRewound
  <2> QED BY <2>4, <2>6, <2>10, <2>12, <2>14
<1> QED BY <1>3, <1>4

\* handle_disconnection: a saved session has what was sent.
LEMMA LeaveSent ==
  ASSUME SendsInv, NEW c \in Clients, Live(c), Leave(c),
         UNCHANGED <<native, retained_publishes, published>>
  PROVE  LogOrder' /\ SentInv'
<1>1. LogsKeep /\ LogOrder'
  BY UnchangedKeepsSent DEF SendsInv, IInv
<1> DEFINE table == [f \in DOMAIN Requests(c) |-> Rewound(c, f)]
<1>2. /\ \A d \in Clients \ {c} : connections'[d] = connections[d] /\ graveyard'[d] = graveyard[d]
      /\ connections'[c] = Gone
      /\ graveyard'[c] = Gone \/ graveyard'[c] = [requests |-> table]
  BY DEF SendsInv, IInv, SessionInv, Leave
<1>3. AllSent(native', retained_publishes', table)
  <2>1. ASSUME NEW f \in DOMAIN Requests(c)
        PROVE  Sent(LogIn(native', f), retained_publishes', f, table[f])
    <3>1. Sent(LogIn(native, f), retained_publishes, f, Rewound(c, f))
      BY RewoundSent
    <3>2. table[f] = Rewound(c, f) /\ native' = native /\ retained_publishes' = retained_publishes
      OBVIOUS
    <3> QED BY <3>1, <3>2
  <2> QED BY <2>1 DEF AllSent
<1> HIDE DEF table
<1>4. SessionSent(native', retained_publishes', connections'[c], graveyard'[c])
  BY <1>2, <1>3 DEF SessionSent
<1> QED BY <1>1, <1>2, <1>4, OneSent DEF SendsInv, IInv

\* A connection that ends.
LEMMA DisconnectSent ==
  ASSUME SendsInv, NEW c \in Clients, Disconnect(c)
  PROVE  LogOrder' /\ SentInv'
BY LeaveSent DEF Disconnect

\* A PUBREL that finds nothing recorded.
LEMMA ReleaseUnknownSent ==
  ASSUME SendsInv, NEW c \in Clients, ReleaseUnknown(c)
  PROVE  LogOrder' /\ SentInv'
BY LeaveSent DEF ReleaseUnknown

\* UNSUBSCRIBE: what is in flight of the filter is behind the end of its log, where
\* a later request would begin.
LEMMA UnsubscribeSent ==
  ASSUME SendsInv, NEW c \in Clients, NEW f, Unsubscribe(c, f)
  PROVE  LogOrder' /\ SentInv'
<1>1. LogsKeep /\ LogOrder' /\ native' = native /\ retained_publishes' = retained_publishes
  BY UnchangedKeepsSent DEF SendsInv, IInv, Unsubscribe
<1>2. /\ Live(c) /\ connections[c] \in Conn /\ Located(native, Requests(c))
      /\ AllSent(native, retained_publishes, Requests(c)) /\ Behind(native, connections[c])
      /\ Requests(c) \in Table(Request) /\ connections[c].inflight \in Seq(Slot)
  BY LiveSent DEF Unsubscribe
<1>3. /\ \A d \in Clients \ {c} : connections'[d] = connections[d] /\ graveyard'[d] = graveyard[d]
      /\ graveyard'[c] = graveyard[c]
      /\ connections'[c] = [connections[c] EXCEPT !.mapped = @ \ {f}, !.requests = Without(@, f),
                              !.aliases = Without(@, f)]
  BY DEF SendsInv, IInv, SessionInv, Unsubscribe
<1>4. connections'[c].requests = Without(Requests(c), f) /\ connections'[c].inflight = connections[c].inflight
  BY <1>2, <1>3 DEF Conn, Requests
<1>5. /\ DOMAIN Without(Requests(c), f) = DOMAIN Requests(c) \ {f}
      /\ \A g \in DOMAIN Requests(c) \ {f} : Without(Requests(c), f)[g] = Requests(c)[g]
  BY DEF Without
<1>6. AllSent(native, retained_publishes, connections'[c].requests)
  BY <1>2, <1>4, <1>5 DEF AllSent
<1>7. Behind(native, connections'[c])
  <2> SUFFICES ASSUME NEW n \in DOMAIN connections[c].inflight, connections[c].inflight[n].cursor # NotInLog
               PROVE  /\ Indexed(native, connections[c].inflight[n].filter)
                      /\ connections[c].inflight[n].cursor
                           <= Reach(native, connections'[c].requests, connections[c].inflight[n].filter)
    BY <1>4 DEF Behind
  <2>1. PICK s : s = connections[c].inflight[n]
    OBVIOUS
  <2>2. s.cursor # NotInLog /\ s \in Slot
    BY <1>2, <2>1
  <2>3. s.cursor \in Nat
    BY <2>2 DEF Slot
  <2>4. Indexed(native, s.filter) /\ s.cursor <= Reach(native, Requests(c), s.filter)
    BY <1>2, <2>1, <2>2 DEF Behind, Requests
  <2>5. s.cursor <= Reach(native, connections'[c].requests, s.filter)
    <3>1. CASE s.filter = f /\ f \in DOMAIN Requests(c)
      <4>1. PICK r, log : r = Requests(c)[f] /\ log = LogIn(native, f)
        OBVIOUS
      <4>2. r \in Request /\ Sent(log, retained_publishes, f, r) /\ s.cursor <= r.cursor
        BY <1>2, <2>4, <3>1, <4>1 DEF AllSent, Table, Reach
      <4>3. r.cursor <= Len(log) /\ r.cursor \in Nat
        BY <4>2 DEF Sent, Request
      <4>4. Len(log) \in Nat
        <5>1. f \in Filters /\ Indexed(native, f)
          BY <1>2, <3>1 DEF Table, Located
        <5> QED BY <1>1, <4>1, <5>1 DEF LogsKeep
      <4>5. Reach(native, connections'[c].requests, s.filter) = Len(log)
        BY <1>4, <1>5, <3>1, <4>1 DEF Reach
      <4> QED BY <2>3, <4>2, <4>3, <4>4, <4>5
    <3>2. CASE ~(s.filter = f /\ f \in DOMAIN Requests(c))
      <4>1. Reach(native, connections'[c].requests, s.filter) = Reach(native, Requests(c), s.filter)
        BY <1>4, <1>5, <3>2 DEF Reach
      <4> QED BY <2>4, <4>1
    <3> QED BY <3>1, <3>2
  <2> QED BY <2>1, <2>4, <2>5
<1>8. graveyard[c] # Gone => AllSent(native, retained_publishes, graveyard[c].requests)
  BY DEF SendsInv, SentInv, SessionSent
<1>9. SessionSent(native', retained_publishes', connections'[c], graveyard'[c])
  BY <1>1, <1>3, <1>6, <1>7, <1>8 DEF SessionSent
<1> QED BY <1>1, <1>3, <1>9, OneSent DEF SendsInv, IInv

\* The log a filter has is one of messages.
LEMMA LogInSeq ==
  ASSUME NEW slab \in Seq(Data), NEW f, Indexed(slab, f)
  PROVE  LogIn(slab, f) \in Seq(Message) /\ Len(LogIn(slab, f)) \in Nat
<1> DEFINE i == CHOOSE j \in {j \in DOMAIN slab : slab[j].filter = f} : TRUE
<1>1. i \in DOMAIN slab
  BY DEF Indexed
<1>2. LogIn(slab, f) = slab[i].log
  BY DEF LogIn
<1> HIDE DEF i
<1>3. slab[i] \in Data
  BY <1>1
<1>4. slab[i].log \in Seq(Message)
  BY <1>3 DEF Data
<1> QED BY <1>2, <1>4

\* A request that begins at the end of its log has not missed anything yet.
LEMMA SentBegins ==
  ASSUME NEW log \in Seq(Message), NEW kept, NEW f, NEW r, r.cursor \in Nat, r.cursor <= Len(log),
         r.start = r.cursor, r.forward_retained
  PROVE  Sent(log, kept, f, r)
<1>1. \A n : n \notin r.start + 1 .. r.cursor
  OBVIOUS
<1> QED BY <1>1 DEF Sent

\* SUBSCRIBE: a new request begins at the end of its log, ahead of what is still in
\* flight of the filter.
LEMMA SubscribeSent ==
  ASSUME SendsInv, NEW c \in Clients, NEW s \in Subscribes[c], Subscribe(c, s.filter, s.qos)
  PROVE  LogOrder' /\ SentInv'
<1> DEFINE r == [cursor |-> EndOf(s.filter), qos |-> s.qos, forward_retained |-> TRUE,
                 start |-> EndOf(s.filter), missed |-> {}, last |-> [t \in Topics |-> 0]]
<1>1. PICK f : f = s.filter
  OBVIOUS
<1>2. f \in Filters
  BY <1>1, DeliveryAssumption
<1>3. Create(f) /\ UNCHANGED <<retained_publishes, published, graveyard>> /\ Live(c)
  BY <1>1 DEF Subscribe
<1>4. LogsKeep /\ LogOrder'
  BY <1>2, <1>3, CreateKeepsSent, CreateOrders DEF SendsInv, IInv
<1>5. Indexed(native', f) /\ native' \in Seq(Data)
  BY <1>2, <1>3, CreateKeeps DEF SendsInv, IInv, LogInv
<1>6. /\ connections[c] \in Conn /\ Located(native, Requests(c))
      /\ AllSent(native, retained_publishes, Requests(c)) /\ Behind(native, connections[c])
      /\ Requests(c) \in Table(Request) /\ connections[c].inflight \in Seq(Slot)
  BY <1>3, LiveSent
<1> DEFINE table == IF f \in DOMAIN Requests(c) THEN Requests(c) ELSE With(Requests(c), f, r)
<1>7. /\ \A d \in Clients \ {c} : connections'[d] = connections[d] /\ graveyard'[d] = graveyard[d]
      /\ graveyard'[c] = graveyard[c]
      /\ connections'[c] = [connections[c] EXCEPT !.mapped = @ \cup {f}, !.requests = table]
  BY <1>1, <1>3 DEF SendsInv, IInv, SessionInv, Subscribe, Requests
<1>8. connections'[c].requests = table /\ connections'[c].inflight = connections[c].inflight
  BY <1>6, <1>7 DEF Conn
<1>9. /\ EndOf(f) \in Nat /\ EndOf(f) <= Len(LogIn(native', f))
      /\ Indexed(native, f) => EndOf(f) = Len(LogIn(native, f))
  <2>1. Len(LogIn(native', f)) \in Nat
    BY <1>5, LogInSeq
  <2>2. CASE IndexOf(f) = {}
    <3>1. EndOf(f) = 0 /\ ~Indexed(native, f)
      BY <2>2, LogOfIs DEF EndOf
    <3> QED BY <2>1, <3>1
  <2>3. CASE IndexOf(f) # {}
    <3>1. EndOf(f) = Len(LogIn(native, f)) /\ Indexed(native, f)
      BY <2>3, LogOfIs DEF EndOf, LogOf
    <3>2. Len(LogIn(native, f)) \in Nat /\ Len(LogIn(native, f)) <= Len(LogIn(native', f))
      BY <1>2, <1>4, <3>1 DEF LogsKeep
    <3> QED BY <3>1, <3>2
  <2> QED BY <2>2, <2>3
<1>10. r.cursor = EndOf(f) /\ r.start = EndOf(f) /\ r.forward_retained
  BY <1>1
<1> HIDE DEF r
<1>11. Sent(LogIn(native', f), retained_publishes', f, r)
  <2>1. PICK log : log = LogIn(native', f)
    OBVIOUS
  <2>2. log \in Seq(Message) /\ EndOf(f) <= Len(log)
    BY <1>5, <1>9, <2>1, LogInSeq
  <2>3. Sent(log, retained_publishes', f, r)
    BY <1>9, <1>10, <2>2, SentBegins
  <2> QED BY <2>1, <2>3
<1>12. AllSent(native', retained_publishes', Requests(c)) /\ Behind(native', connections[c])
  BY <1>4, <1>6, AllSentStays, BehindStays
<1>13. CASE f \in DOMAIN Requests(c)
  <2>1. table = Requests(c)
    BY <1>13
  <2>2. /\ connections'[c].requests = connections[c].requests
        /\ connections'[c].inflight = connections[c].inflight
    BY <1>8, <2>1 DEF Requests
  <2>3. SessionSent(native', retained_publishes', connections'[c], graveyard'[c])
    BY <1>3, <1>4, <1>7, <2>2, SameRequests
  <2> QED BY <1>4, <1>7, <2>3, OneSent DEF SendsInv, IInv
<1>14. CASE f \notin DOMAIN Requests(c)
  <2>1. /\ DOMAIN table = DOMAIN Requests(c) \cup {f} /\ table[f] = r
        /\ \A g \in DOMAIN Requests(c) : g # f /\ table[g] = Requests(c)[g]
    BY <1>14 DEF With
  <2> HIDE DEF table
  <2>2. AllSent(native', retained_publishes', table)
    BY <1>11, <1>12, <2>1 DEF AllSent
  <2>3. Behind(native', connections'[c])
    <3> SUFFICES ASSUME NEW n \in DOMAIN connections[c].inflight,
                        connections[c].inflight[n].cursor # NotInLog
                 PROVE  /\ Indexed(native', connections[c].inflight[n].filter)
                        /\ connections[c].inflight[n].cursor
                             <= Reach(native', table, connections[c].inflight[n].filter)
      BY <1>8 DEF Behind
    <3>1. PICK slot : slot = connections[c].inflight[n]
      OBVIOUS
    <3>2. slot.cursor # NotInLog
      BY <3>1
    <3>3. Indexed(native', slot.filter) /\ slot.cursor <= Reach(native', Requests(c), slot.filter)
      BY <1>12, <3>1, <3>2 DEF Behind, Requests
    <3>4. CASE slot.filter = f
      <4>1. Indexed(native, f) /\ slot.cursor <= Reach(native, Requests(c), f)
        BY <1>6, <3>1, <3>2, <3>4 DEF Behind, Requests
      <4>2. slot.cursor <= EndOf(f)
        BY <1>9, <1>14, <4>1 DEF Reach
      <4>3. Reach(native', table, f) = EndOf(f)
        BY <1>10, <2>1 DEF Reach
      <4> QED BY <3>1, <3>3, <3>4, <4>2, <4>3
    <3>5. CASE slot.filter # f
      <4>1. Reach(native', table, slot.filter) = Reach(native', Requests(c), slot.filter)
        BY <2>1, <3>5 DEF Reach
      <4> QED BY <3>1, <3>3, <4>1
    <3> QED BY <3>4, <3>5
  <2>4. graveyard[c] # Gone => AllSent(native', retained_publishes', graveyard[c].requests)
    <3>1. ClientOK(native, connections[c], graveyard[c], learned[c], owed[c], TopicAliasMax[c])
      BY DEF SendsInv, IInv, SessionInv
    <3>2. SessionSent(native, retained_publishes, connections[c], graveyard[c])
      BY DEF SendsInv, SentInv
    <3>3. SessionSent(native', retained_publishes', connections[c], graveyard[c])
      BY <1>4, <3>1, <3>2, SessionStays
    <3> QED BY <3>3 DEF SessionSent
  <2>5. SessionSent(native', retained_publishes', connections'[c], graveyard'[c])
    BY <1>7, <1>8, <2>2, <2>3, <2>4 DEF SessionSent
  <2> QED BY <1>4, <1>7, <2>5, OneSent DEF SendsInv, IInv
<1> QED BY <1>13, <1>14

\* What is pushed of the retained messages is theirs.
LEMMA TruncationsPick ==
  ASSUME NEW f, NEW r, NEW slots, NEW order \in Truncations(f, r, slots)
  PROVE  \A k \in DOMAIN order : order[k] \in RetainedFor(f, r)
<1>1. PICK S \in SUBSET RetainedFor(f, r) : order \in Orders(S)
  BY DEF Truncations
<1> QED BY <1>1 DEF Orders

\* The slots of a request that is read.
LEMMA SlotsOK ==
  ASSUME NEW c, NEW r, Slots(c, r) > 0, Len(connections[c].inflight) \in Nat
  PROVE  Slots(c, r) \in Nat
<1>1. ReadCount \in Nat /\ MaxInflight \in Nat
  BY DeliveryAssumption
<1>2. PICK l : l = Len(connections[c].inflight)
  OBVIOUS
<1>3. Slots(c, r) = IF r.qos = 0 THEN ReadCount ELSE MaxInflight - l
  BY <1>2 DEF Slots
<1>4. CASE r.qos = 0
  BY <1>1, <1>3, <1>4
<1>5. CASE r.qos # 0
  <2>1. Slots(c, r) = MaxInflight - l
    BY <1>3, <1>5
  <2> QED BY <1>1, <1>2, <2>1
<1> QED BY <1>4, <1>5

\* The log of a filter, and where it began.
LogShape(log, f) ==
  /\ log \in Seq(Message) /\ LogOf(f) = log /\ LogIn(native, f) = log
  /\ \E since \in Nat : Ordered(log, since) /\ Keeps(log, since, retained_publishes, f)

\* Every log there is has this shape.
LEMMA LogIsOrdered ==
  ASSUME LogInv, LogOrder, NEW f, Indexed(native, f)
  PROVE  LogShape(LogOf(f), f)
<1>1. PICK i \in DOMAIN native : native[i].filter = f
  BY DEF Indexed
<1>2. LogIn(native, f) = native[i].log /\ native[i].log \in Seq(Message) /\ LogOf(f) = LogIn(native, f)
  BY <1>1, LogInIs, LogOfIs DEF LogOrder
<1>3. native[i] \in Data
  BY DEF LogInv
<1>4. PICK since : since = native[i].since
  OBVIOUS
<1>5. since \in Nat
  BY <1>3, <1>4 DEF Data
<1>6. Ordered(native[i].log, since)
  BY <1>4 DEF LogOrder, Rising, Ordered
<1>7. Keeps(native[i].log, since, retained_publishes, f)
  BY <1>1, <1>4 DEF LogOrder, KeptIsLogged, Keeps
<1> QED BY <1>2, <1>5, <1>6, <1>7 DEF LogShape

\* What a read puts in flight is of what it read.
CursorsRead(batch, size, bound) ==
  \A j \in 1 .. size : batch[j].cursor = NotInLog \/ (batch[j].cursor \in Nat /\ batch[j].cursor <= bound)

\* The cursors of a batch.
LEMMA BatchCursors ==
  ASSUME NEW r \in Request, NEW log, NEW order \in Seq(Topics), NEW n \in Nat, NEW batch,
         BatchShape(batch, log, r, order, n)
  PROVE  CursorsRead(batch, Len(order) + n, r.cursor + n) /\ DOMAIN batch = 1 .. Len(order) + n
<1>1. /\ DOMAIN batch = 1 .. Len(order) + n /\ Len(order) \in Nat
      /\ DOMAIN order = 1 .. Len(order) /\ r.cursor \in Nat
  BY DEF BatchShape, Request
<1>2. ASSUME NEW j \in 1 .. Len(order) + n
      PROVE  batch[j].cursor = NotInLog \/ (batch[j].cursor \in Nat /\ batch[j].cursor <= r.cursor + n)
  <2>1. CASE j \in 1 .. Len(order)
    BY <1>1, <2>1 DEF BatchShape
  <2>2. CASE j \notin 1 .. Len(order)
    <3>1. j - Len(order) \in 1 .. n /\ Len(order) + (j - Len(order)) = j
      BY <1>1, <2>2
    <3>2. batch[j].cursor = r.cursor + (j - Len(order)) - 1
      BY <3>1 DEF BatchShape
    <3> QED BY <1>1, <3>1, <3>2
  <2> QED BY <2>1, <2>2
<1> QED BY <1>1, <1>2 DEF CursorsRead

InFlight(f, batch) == [j \in DOMAIN batch |-> [filter |-> f, cursor |-> batch[j].cursor]]

\* The slots a batch takes.
LEMMA InFlightIs ==
  ASSUME NEW f \in Filters, NEW batch, NEW size \in Nat, NEW bound, DOMAIN batch = 1 .. size,
         CursorsRead(batch, size, bound)
  PROVE  /\ InFlight(f, batch) \in Seq(Slot) /\ Len(InFlight(f, batch)) = size
         /\ \A j \in 1 .. size : /\ InFlight(f, batch)[j].filter = f
                                 /\ InFlight(f, batch)[j].cursor = batch[j].cursor
<1> DEFINE more == InFlight(f, batch)
<1>1. more = [j \in 1 .. size |-> more[j]]
  BY DEF InFlight
<1>2. \A j \in 1 .. size : more[j].filter = f /\ more[j].cursor = batch[j].cursor
  BY DEF InFlight
<1>3. ASSUME NEW j \in 1 .. size
      PROVE  more[j] \in Slot
  <2>1. batch[j].cursor \in Nat \cup {NotInLog}
    BY DEF CursorsRead
  <2>2. more[j] = [filter |-> f, cursor |-> batch[j].cursor]
    BY DEF InFlight
  <2> QED BY <2>1, <2>2 DEF Slot
<1> HIDE DEF more
<1>4. more \in Seq(Slot) /\ Len(more) = size
  BY <1>1, <1>3, Listed
<1> QED BY <1>2, <1>4 DEF more

\* A slot was there before, or is of filter f and not beyond what was read of it.
SlotShape(slot, inflight, f, bound) ==
  \/ \E j \in DOMAIN inflight : slot = inflight[j]
  \/ slot.filter = f /\ slot.cursor <= bound

\* What is in flight after a push.
LEMMA SlotsRead ==
  ASSUME NEW inflight \in Seq(Slot), NEW f \in Filters, NEW batch, NEW size \in Nat, NEW bound,
         DOMAIN batch = 1 .. size, CursorsRead(batch, size, bound),
         NEW both, both = inflight \o InFlight(f, batch), NEW k \in DOMAIN both, both[k].cursor # NotInLog
  PROVE  SlotShape(both[k], inflight, f, bound)
<1>1. PICK more : more = InFlight(f, batch)
  OBVIOUS
<1>2. /\ more \in Seq(Slot) /\ Len(more) = size
      /\ \A j \in 1 .. size : more[j].filter = f /\ more[j].cursor = batch[j].cursor
  BY <1>1, InFlightIs
<1>3. PICK l : l = Len(inflight)
  OBVIOUS
<1>4. /\ inflight \o more \in Seq(Slot) /\ Len(inflight \o more) = l + size
      /\ \A j \in 1 .. l : (inflight \o more)[j] = inflight[j]
      /\ \A j \in l + 1 .. l + size : (inflight \o more)[j] = more[j - l]
  <2>1. more \in Seq(Slot) /\ Len(more) = size
    BY <1>2
  <2> QED BY ONLY <1>3, <2>1, inflight \in Seq(Slot), Joined
<1>5. /\ DOMAIN both = 1 .. l + size /\ DOMAIN inflight = 1 .. l /\ l \in Nat
      /\ \A j \in 1 .. l : both[j] = inflight[j]
      /\ \A j \in l + 1 .. l + size : both[j] = more[j - l]
  <2>1. both \in Seq(Slot) /\ Len(both) = l + size
    BY <1>1, <1>4
  <2>2. DOMAIN both = 1 .. l + size
    BY <2>1
  <2>3. DOMAIN inflight = 1 .. l /\ l \in Nat
    BY <1>3
  <2> QED BY <1>1, <1>4, <2>2, <2>3
<1>6. CASE k <= l
  BY <1>5, <1>6 DEF SlotShape
<1>7. CASE ~(k <= l)
  <2>1. k - l \in 1 .. size /\ both[k] = more[k - l]
    BY <1>5, <1>7
  <2>2. both[k].filter = f /\ both[k].cursor = batch[k - l].cursor
    BY <1>2, <2>1
  <2> QED BY <2>1, <2>2 DEF CursorsRead, SlotShape
<1> QED BY <1>6, <1>7

\* forward_device_data.
LEMMA ForwardSent ==
  ASSUME SendsInv, NEW c \in Clients, NEW f \in Filters, Forward(c, f)
  PROVE  LogOrder' /\ SentInv'
<1>1. LogsKeep /\ LogOrder' /\ native' = native /\ retained_publishes' = retained_publishes
  BY UnchangedKeepsSent DEF SendsInv, IInv, Forward
<1>2. Live(c) /\ f \in DOMAIN Requests(c)
  BY DEF Forward
<1>3. /\ connections[c] \in Conn /\ Located(native, Requests(c))
      /\ AllSent(native, retained_publishes, Requests(c)) /\ Behind(native, connections[c])
      /\ Requests(c) \in Table(Request) /\ connections[c].inflight \in Seq(Slot)
  BY <1>2, LiveSent
<1>4. PICK r, log, slots : r = Requests(c)[f] /\ log = LogOf(f) /\ slots = Slots(c, r)
  OBVIOUS
<1>5. r \in Request
  BY <1>2, <1>3, <1>4 DEF Table
<1>6. log \in Seq(Message) /\ LogOf(f) = log /\ LogIn(native, f) = log
  <2>1. Indexed(native, f)
    BY <1>2, <1>3 DEF Located
  <2> QED BY <1>4, <2>1, LogIsOrdered DEF SendsInv, IInv, LogShape
<1>7. PICK since \in Nat : Ordered(log, since) /\ Keeps(log, since, retained_publishes, f)
  <2>1. Indexed(native, f)
    BY <1>2, <1>3 DEF Located
  <2> QED BY <1>4, <2>1, LogIsOrdered DEF SendsInv, IInv, LogShape
<1>8. Sent(log, retained_publishes, f, r)
  BY <1>2, <1>3, <1>4, <1>6 DEF AllSent
<1>9. PICK order \in Truncations(f, r, slots) :
        \E n : \E a \in AliasToSet(c, f, Batch(f, r, order, n)) :
             /\ slots > 0 /\ n = Least(slots - Len(order), Len(log) - r.cursor)
             /\ connections' = [connections EXCEPT ![c] = Pushed(c, f, order, n, a)]
  BY <1>4, ForwardIs
<1>10. PICK n : \E a \in AliasToSet(c, f, Batch(f, r, order, n)) :
             /\ slots > 0 /\ n = Least(slots - Len(order), Len(log) - r.cursor)
             /\ connections' = [connections EXCEPT ![c] = Pushed(c, f, order, n, a)]
  BY <1>9
<1>11. PICK a \in AliasToSet(c, f, Batch(f, r, order, n)) :
             /\ slots > 0 /\ n = Least(slots - Len(order), Len(log) - r.cursor)
             /\ connections' = [connections EXCEPT ![c] = Pushed(c, f, order, n, a)]
  BY <1>10
<1>12. slots \in Nat
  <2>1. Len(connections[c].inflight) \in Nat
    BY <1>3
  <2> QED BY <1>4, <1>11, <2>1, SlotsOK
<1>13. /\ order \in Seq(Topics) /\ Len(order) <= slots
       /\ \A k \in DOMAIN order : order[k] \in RetainedFor(f, r)
  BY <1>5, <1>12, TruncationsOK, TruncationsPick DEF SendsInv, IInv
<1>14. n \in Nat /\ n <= Len(log) - r.cursor
  <2>1. r.cursor \in Nat /\ r.cursor <= Len(log) /\ Len(log) \in Nat /\ Len(order) \in Nat
    BY <1>5, <1>6, <1>8, <1>13 DEF Request, Sent
  <2>2. PICK room, ahead : room = slots - Len(order) /\ ahead = Len(log) - r.cursor
    OBVIOUS
  <2>3. room \in Nat /\ ahead \in Nat
    BY <1>12, <1>13, <2>1, <2>2
  <2>4. n = Least(room, ahead)
    BY <1>11, <2>2
  <2> QED BY <2>2, <2>3, <2>4 DEF Least
<1>15. PICK batch, s : batch = Batch(f, r, order, n) /\ s = ReadBy(c, f, order, n)
  OBVIOUS
<1>16. /\ s.cursor = r.cursor + n /\ s.start = r.start /\ ~s.forward_retained
       /\ s.missed = r.missed \cup (RetainedFor(f, r) \ Range(order))
       /\ s.last = LastOf(batch, r.last)
  <2>1. s = [r EXCEPT !.cursor = r.cursor + n, !.forward_retained = FALSE,
               !.missed = r.missed \cup (RetainedFor(f, r) \ Range(order)),
               !.last = LastOf(batch, r.last)]
    BY <1>4, <1>15 DEF ReadBy
  <2> QED BY <1>5, <2>1 DEF Request
<1>17. Sent(log, retained_publishes, f, s)
  <2>1. retained_publishes \in [Topics -> Nat]
    <3>1. retained_publishes \in [Topics -> 0 .. Len(published)]
      BY DEF SendsInv, IInv, LogInv
    <3> QED BY <3>1
  <2> QED BY <1>5, <1>6, <1>7, <1>8, <1>13, <1>14, <1>15, <1>16, <2>1, SentRead
<1> DEFINE table == With(Requests(c), f, s)
<1>18. /\ \A d \in Clients \ {c} : connections'[d] = connections[d] /\ graveyard'[d] = graveyard[d]
       /\ graveyard'[c] = graveyard[c]
       /\ connections'[c] = Pushed(c, f, order, n, a)
  <2>1. graveyard' = graveyard
    BY DEF Forward
  <2> QED BY <1>11, <2>1 DEF SendsInv, IInv, SessionInv
<1>19. connections'[c].requests = table
  <2>1. Pushed(c, f, order, n, a).requests = With(connections[c].requests, f, ReadBy(c, f, order, n))
    BY <1>3 DEF Pushed, Conn
  <2> QED BY <1>15, <1>18, <2>1 DEF Requests
<1>20. connections'[c].inflight = IF r.qos = 0 THEN connections[c].inflight
                                  ELSE connections[c].inflight \o InFlight(f, batch)
  <2>1. Pushed(c, f, order, n, a).inflight =
          IF Requests(c)[f].qos = 0 THEN connections[c].inflight
          ELSE connections[c].inflight \o
             [k \in DOMAIN Batch(f, Requests(c)[f], order, n) |->
                [filter |-> f, cursor |-> Batch(f, Requests(c)[f], order, n)[k].cursor]]
    BY <1>3 DEF Pushed, Conn
  <2> QED BY <1>4, <1>15, <1>18, <2>1 DEF InFlight
<1>21. /\ DOMAIN table = DOMAIN Requests(c) /\ table[f] = s
       /\ \A g \in DOMAIN Requests(c) : g # f => table[g] = Requests(c)[g]
  BY <1>2 DEF With
<1> HIDE DEF table
<1>22. AllSent(native, retained_publishes, table)
  BY <1>3, <1>6, <1>17, <1>21 DEF AllSent
<1>23. r.cursor \in Nat /\ r.cursor <= s.cursor /\ s.cursor \in Nat /\ s.cursor = r.cursor + n
  BY <1>5, <1>14, <1>16 DEF Request
<1>24. ASSUME NEW slot, slot.cursor # NotInLog, NEW j \in DOMAIN connections[c].inflight,
              slot = connections[c].inflight[j]
       PROVE  Indexed(native, slot.filter) /\ slot.cursor <= Reach(native, table, slot.filter)
  <2>1. Indexed(native, slot.filter) /\ slot.cursor <= Reach(native, Requests(c), slot.filter)
    BY <1>3, <1>24 DEF Behind, Requests
  <2>2. CASE slot.filter = f
    <3>1. slot.cursor <= r.cursor /\ Reach(native, table, f) = s.cursor
      BY <1>2, <1>4, <1>21, <2>1, <2>2 DEF Reach
    <3>2. slot.cursor \in Nat
      <4>1. slot \in Slot
        BY <1>3, <1>24
      <4> QED BY <1>24, <4>1 DEF Slot
    <3> QED BY <1>23, <2>1, <2>2, <3>1, <3>2
  <2>3. CASE slot.filter # f
    <3>1. Reach(native, table, slot.filter) = Reach(native, Requests(c), slot.filter)
      BY <1>21, <2>3 DEF Reach
    <3> QED BY <2>1, <3>1
  <2> QED BY <2>2, <2>3
<1>25. ASSUME NEW slot, slot.filter = f, slot.cursor <= r.cursor + n
       PROVE  Indexed(native, slot.filter) /\ slot.cursor <= Reach(native, table, slot.filter)
  <2>1. Indexed(native, f)
    BY <1>2, <1>3 DEF Located
  <2>2. Reach(native, table, f) = r.cursor + n
    BY <1>2, <1>21, <1>23 DEF Reach
  <2> QED BY <1>25, <2>1, <2>2
<1>26. ASSUME NEW k \in DOMAIN connections'[c].inflight, NEW slot,
              slot = connections'[c].inflight[k], slot.cursor # NotInLog
       PROVE  Indexed(native, slot.filter) /\ slot.cursor <= Reach(native, table, slot.filter)
  <2>1. CASE r.qos = 0
    <3>1. k \in DOMAIN connections[c].inflight /\ slot = connections[c].inflight[k]
      BY <1>20, <1>26, <2>1
    <3> QED BY <1>24, <1>26, <3>1
  <2>2. CASE r.qos # 0
    <3>1. PICK inflight, both : inflight = connections[c].inflight /\ both = inflight \o InFlight(f, batch)
      OBVIOUS
    <3>2. k \in DOMAIN both /\ slot = both[k] /\ inflight \in Seq(Slot)
      BY <1>3, <1>20, <1>26, <2>2, <3>1
    <3>3. CursorsRead(batch, Len(order) + n, r.cursor + n) /\ DOMAIN batch = 1 .. Len(order) + n
      <4>1. BatchShape(batch, log, r, order, n)
        BY <1>5, <1>6, <1>13, <1>14, <1>15, BatchIs
      <4> QED BY <1>5, <1>13, <1>14, <4>1, BatchCursors
    <3>4. Len(order) + n \in Nat
      BY <1>13, <1>14
    <3>5. PICK size, bound : size = Len(order) + n /\ bound = r.cursor + n
      OBVIOUS
    <3>6. SlotShape(both[k], inflight, f, bound)
      BY <1>26, <3>1, <3>2, <3>3, <3>4, <3>5, SlotsRead
    <3> QED BY <1>24, <1>25, <1>26, <3>1, <3>2, <3>5, <3>6 DEF SlotShape
  <2> QED BY <2>1, <2>2
<1>27. Behind(native, connections'[c])
  BY <1>19, <1>26 DEF Behind
<1>28. graveyard[c] # Gone => AllSent(native, retained_publishes, graveyard[c].requests)
  BY DEF SendsInv, SentInv, SessionSent
<1>29. SessionSent(native', retained_publishes', connections'[c], graveyard'[c])
  BY <1>1, <1>18, <1>19, <1>22, <1>27, <1>28 DEF SessionSent
<1> QED BY <1>1, <1>18, <1>29, OneSent DEF SendsInv, IInv

-----------------------------------------------------------------------------
\* Nothing has been sent at the start.
LEMMA InitSent == Init => LogOrder /\ SentInv
<1> SUFFICES ASSUME Init PROVE LogOrder /\ SentInv
  OBVIOUS
<1>1. /\ DOMAIN native = DOMAIN WarmupFilters /\ published = <<>>
      /\ \A i \in DOMAIN native : /\ native[i].filter = WarmupFilters[i] /\ native[i].since = 0
                                  /\ DOMAIN native[i].log = {}
  BY DEF Init
<1>2. FiltersDiffer
  BY <1>1, DeliveryAssumption DEF FiltersDiffer, IsInjective
<1>3. Rising
  <2>1. Len(published) = 0
    BY <1>1
  <2> QED BY <1>1, <2>1 DEF Rising
<1>4. KeptIsLogged
  <2>1. \A t \in Topics : retained_publishes[t] = 0
    BY DEF Init
  <2> QED BY <1>1, <2>1 DEF KeptIsLogged
<1>5. SentInv
  BY DEF Init, SentInv, SessionSent
<1> QED BY <1>2, <1>3, <1>4, <1>5 DEF LogOrder

\* What was sent stays right with every action.
LEMMA NextSent == SendsInv /\ [Next]_vars => SendsInv'
<1> SUFFICES ASSUME SendsInv, [Next]_vars PROVE SendsInv'
  OBVIOUS
<1>1. IInv'
  BY NextIInv DEF SendsInv
<1>2. CASE UNCHANGED vars
  <2>1. LogOrder'
    BY <1>2, SameOrder DEF SendsInv, vars
  <2>2. SentInv'
    BY <1>2 DEF SendsInv, SentInv, vars
  <2> QED BY <1>1, <2>1, <2>2 DEF SendsInv
<1>3. ASSUME NEW c \in Clients, \E clean \in Cleans[c] : Connect(c, clean)
      PROVE  LogOrder' /\ SentInv'
  BY <1>3, ConnectSent
<1>4. ASSUME NEW c \in Clients, \E s \in Subscribes[c] : Subscribe(c, s.filter, s.qos)
      PROVE  LogOrder' /\ SentInv'
  BY <1>4, SubscribeSent
<1>5. ASSUME NEW c \in Clients, \E f \in Unsubscribes[c] : Unsubscribe(c, f)
      PROVE  LogOrder' /\ SentInv'
  BY <1>5, UnsubscribeSent
<1>6. ASSUME NEW c \in Clients, \E f \in Filters : Forward(c, f)
      PROVE  LogOrder' /\ SentInv'
  BY <1>6, ForwardSent
<1>7. ASSUME NEW c \in Clients, \E p \in Publishes[c] : Publish(c, p) \/ Record(c, p)
      PROVE  LogOrder' /\ SentInv'
  BY <1>7, PublishSent, RecordSent
<1>8. ASSUME NEW c \in Clients, Release(c) \/ ReleaseUnknown(c) \/ Ack(c) \/ Disconnect(c)
      PROVE  LogOrder' /\ SentInv'
  BY <1>8, ReleaseSent, ReleaseUnknownSent, AckSent, DisconnectSent
<1> QED BY <1>1, <1>2, <1>3, <1>4, <1>5, <1>6, <1>7, <1>8 DEF Next, SendsInv

\* In every state the logs are in order, and every request, live or saved, has
\* been sent what is newest of what it read.
THEOREM SendsHold == Spec => []SendsInv
<1>1. Init => SendsInv
  BY InitIInv, InitSent DEF SendsInv
<1> QED BY <1>1, NextSent, PTL DEF Spec

\* What is chosen as the greatest of numbers that are all bounded is one of
\* them, or 0.
LEMMA ChosenGreatest ==
  ASSUME NEW bound \in Nat, NEW S \in SUBSET (0 .. bound)
  PROVE  (CHOOSE id \in S \cup {0} : \A m \in S : m <= id) \in 0 .. bound
<1> DEFINE T == {m + 1 : m \in S \cup {0}}
<1>1. T \in SUBSET (1 .. bound + 1) /\ T # {} /\ bound + 1 \in Nat
  <2>1. \A m \in S \cup {0} : m + 1 \in 1 .. bound + 1
    OBVIOUS
  <2>2. 0 + 1 \in T
    OBVIOUS
  <2> QED BY <2>1, <2>2
<1> HIDE DEF T
<1>2. PICK n \in T : \A m \in T : m <= n
  BY <1>1, GreatestMember
<1>3. PICK id \in S \cup {0} : n = id + 1
  BY DEF T
<1>4. \A m \in S : m <= id
  <2> SUFFICES ASSUME NEW m \in S PROVE m <= id
    OBVIOUS
  <2>1. m + 1 \in T
    BY DEF T
  <2> QED BY <1>2, <1>3, <2>1
<1>5. (CHOOSE j \in S \cup {0} : \A m \in S : m <= j) \in S \cup {0}
  BY <1>3, <1>4
<1>6. PICK j : j = CHOOSE k \in S \cup {0} : \A m \in S : m <= k
  OBVIOUS
<1>7. j \in S \cup {0}
  BY <1>5, <1>6
<1>8. j \in 0 .. bound
  BY ONLY <1>7, S \in SUBSET (0 .. bound), bound \in Nat
<1> QED BY <1>6, <1>8

\* A request at the end of its log has nothing newer ahead of it.
LEMMA SendsGiveLast == SendsInv => LastValue
<1> SUFFICES ASSUME SendsInv, NEW c \in Clients, Live(c), NEW f \in DOMAIN Requests(c),
                    ~Requests(c)[f].forward_retained, Requests(c)[f].cursor = Len(LogOf(f)),
                    NEW t \in Topics, matches(t, f)
             PROVE  Requests(c)[f].last[t] >= Newest(c, f, t)
  BY DEF LastValue
<1>1. PICK r, log : r = Requests(c)[f] /\ log = LogOf(f)
  OBVIOUS
<1>2. r \in Request /\ Indexed(native, f) /\ AllSent(native, retained_publishes, Requests(c))
  BY <1>1, LiveSent DEF Table, Located
<1>3. log \in Seq(Message) /\ LogIn(native, f) = log
  BY <1>1, <1>2, LogIsOrdered DEF SendsInv, IInv, LogShape
<1>4. Sent(log, retained_publishes, f, r)
  BY <1>1, <1>2, <1>3 DEF AllSent
<1>5. r.last[t] \in Nat /\ r.cursor = Len(log) /\ r.start \in Nat /\ ~r.forward_retained
  BY <1>1, <1>2 DEF Request
<1> DEFINE at   == {k \in Requests(c)[f].start + 1 .. Requests(c)[f].cursor : LogOf(f)[k].topic = t}
           seen == {LogOf(f)[n].id : n \in at}
                     \cup (IF t \in Requests(c)[f].missed THEN {} ELSE {retained_publishes[t]})
<1>6. Newest(c, f, t) = CHOOSE id \in seen \cup {0} : \A m \in seen : m <= id
  BY DEF Newest
<1>7. \A n \in r.start + 1 .. r.cursor : n \in DOMAIN log /\ log[n] \in Message
  <2>1. DOMAIN log = 1 .. Len(log)
    BY <1>3
  <2> QED BY <1>3, <1>5, <2>1
<1>8. ASSUME NEW id \in seen
      PROVE  id \in 0 .. r.last[t]
  <2>0. at = {k \in r.start + 1 .. r.cursor : log[k].topic = t}
    BY <1>1
  <2>0a. \/ \E n \in at : id = log[n].id
         \/ t \notin r.missed /\ id = retained_publishes[t]
    <3> HIDE DEF at
    <3> QED BY <1>1, <1>8
  <2>1. CASE \E n \in r.start + 1 .. r.cursor : log[n].topic = t /\ id = log[n].id
    <3>1. PICK n \in r.start + 1 .. r.cursor : log[n].topic = t /\ id = log[n].id
      BY <2>1
    <3>2. id \in Nat
      BY <1>7, <3>1 DEF Message
    <3>3. id <= r.last[t]
      BY <1>4, <3>1 DEF Sent
    <3> QED BY <1>5, <3>2, <3>3
  <2>2. CASE t \notin r.missed /\ id = retained_publishes[t]
    <3>1. id \in Nat
      <4>1. retained_publishes \in [Topics -> 0 .. Len(published)]
        BY DEF SendsInv, IInv, LogInv
      <4> QED BY <2>2, <4>1
    <3>2. ~Holds(log, r.cursor, id, t)
      <4>1. DOMAIN log = 1 .. Len(log) /\ Len(log) \in Nat
        BY <1>3
      <4> QED BY <1>5, <4>1 DEF Holds
    <3>3. id <= r.last[t]
      BY <1>4, <1>5, <2>2, <3>2 DEF Sent
    <3> QED BY <1>5, <3>1, <3>3
  <2> QED BY <2>0, <2>0a, <2>1, <2>2
<1> HIDE DEF seen
<1>9. Newest(c, f, t) <= r.last[t] /\ Newest(c, f, t) \in Nat
  <2>1. PICK S, bound : S = seen /\ bound = r.last[t]
    OBVIOUS
  <2>2. S \in SUBSET (0 .. bound) /\ bound \in Nat
    BY <1>5, <1>8, <2>1
  <2>3. (CHOOSE id \in S \cup {0} : \A m \in S : m <= id) \in 0 .. bound
    BY <2>2, ChosenGreatest
  <2> QED BY <1>6, <2>1, <2>3
<1> QED BY <1>1, <1>5, <1>9

\* Who has read all there is was sent the newest message of every topic last,
\* for any number of clients, filters, topics and messages: a retained message that
\* comes late never hides a newer one, also after a resumed session read twice.
THEOREM NewestComesLast == Spec => []LastValue
BY SendsHold, SendsGiveLast, PTL

-----------------------------------------------------------------------------
\* A log is what was published on the topics of f since it began.
Stream(log, since, f, topics) ==
  /\ Range(log) = {[id |-> n, topic |-> topics[n]] :
                     n \in {k \in since + 1 .. Len(topics) : matches(topics[k], f)}}
  /\ \A m, n \in DOMAIN log : m < n => log[m].id < log[n].id

\* What a client has recorded is what it owes, unless nothing is recorded.
RecordedIsOwed == \A c \in Clients : Live(c) => connections[c].recorded \in {<<>>, owed[c]}

StreamInv == RecordedIsOwed /\ LogIsStream

\* A publish on topic t, added to the log if it matches.
LEMMA StreamAppended ==
  ASSUME NEW log \in Seq(Message), NEW since \in Nat, NEW f, NEW topics \in Seq(Topics),
         since <= Len(topics), NEW t \in Topics, NEW m, m = [id |-> Len(topics) + 1, topic |-> t],
         NEW new, new = IF matches(t, f) THEN Append(log, m) ELSE log,
         \A k \in DOMAIN log : log[k].id <= Len(topics),
         Stream(log, since, f, topics)
  PROVE  Stream(new, since, f, Append(topics, t))
<1> DEFINE Ids(seq) == {k \in since + 1 .. Len(seq) : matches(seq[k], f)}
           Item(seq, n) == [id |-> n, topic |-> seq[n]]
           Owed(seq) == {Item(seq, n) : n \in Ids(seq)}
<1>1. PICK after, l : after = Append(topics, t) /\ l = Len(topics)
  OBVIOUS
<1>2. /\ l \in Nat /\ Len(after) = l + 1 /\ after[l + 1] = t
      /\ \A k \in 1 .. l : after[k] = topics[k]
  BY <1>1
<1>3. m \in Message /\ m.id = l + 1 /\ m = [id |-> l + 1, topic |-> t]
  BY <1>1, <1>2 DEF Message
<1>4. Ids(after) = IF matches(t, f) THEN Ids(topics) \cup {l + 1} ELSE Ids(topics)
  <2>1. since + 1 .. Len(after) = (since + 1 .. l) \cup {l + 1} /\ since + 1 .. Len(topics) = since + 1 .. l
    BY <1>1, <1>2
  <2>2. \A k \in since + 1 .. l : after[k] = topics[k]
    BY <1>2
  <2>3. l + 1 \notin since + 1 .. l
    BY <1>2
  <2> QED BY <1>2, <2>1, <2>2, <2>3
<1>5. \A n \in Ids(topics) : after[n] = topics[n]
  BY <1>1, <1>2
<1>6. Range(log) = Owed(topics) /\ \A j, k \in DOMAIN log : j < k => log[j].id < log[k].id
  BY DEF Stream
<1> HIDE DEF Ids
<1>7. CASE matches(t, f)
  <2>1. new = Append(log, m)
    BY <1>7
  <2>2. /\ DOMAIN new = DOMAIN log \cup {Len(log) + 1} /\ new[Len(log) + 1] = m /\ Len(log) \in Nat
        /\ DOMAIN log = 1 .. Len(log) /\ \A k \in DOMAIN log : new[k] = log[k]
    BY <1>3, <2>1, AppendedLog
  <2>3. Range(new) = Range(log) \cup {m}
    BY <2>2 DEF Range
  <2>4. Owed(after) = Owed(topics) \cup {m}
    <3>1. Ids(after) = Ids(topics) \cup {l + 1}
      BY <1>4, <1>7
    <3>2. \A n \in Ids(topics) : Item(after, n) = Item(topics, n)
      BY <1>5
    <3>3. Item(after, l + 1) = m
      BY <1>2, <1>3
    <3> HIDE DEF Item
    <3> QED BY <3>1, <3>2, <3>3
  <2>5. \A j, k \in DOMAIN new : j < k => new[j].id < new[k].id
    <3> SUFFICES ASSUME NEW j \in DOMAIN new, NEW k \in DOMAIN new, j < k
                 PROVE  new[j].id < new[k].id
      OBVIOUS
    <3>1. j \in DOMAIN log
      BY <2>2
    <3>2. CASE k \in DOMAIN log
      BY <1>6, <2>2, <3>1, <3>2
    <3>3. CASE k = Len(log) + 1
      <4>1. log[j] \in Message
        BY <3>1
      <4>1a. log[j].id <= l
        BY <1>1, <3>1
      <4>2. log[j].id \in Nat
        BY <4>1 DEF Message
      <4> QED BY <1>2, <1>3, <2>2, <3>1, <3>3, <4>1a, <4>2
    <3> QED BY <2>2, <3>2, <3>3
  <2> QED BY <1>1, <1>6, <2>3, <2>4, <2>5 DEF Stream, Ids
<1>8. CASE ~matches(t, f)
  <2>1. new = log /\ Ids(after) = Ids(topics)
    BY <1>4, <1>8
  <2>2. Owed(after) = Owed(topics)
    BY <1>5, <2>1
  <2> QED BY <1>1, <1>6, <2>1, <2>2 DEF Stream, Ids
<1> QED BY <1>7, <1>8

\* A publish that its client means for its topic goes to the streams it belongs to.
LEMMA AppendStreams ==
  ASSUME LogInv, LogOrder, LogIsStream, NEW p \in Pub, AppendToCommitlog(p, p.topic)
  PROVE  LogIsStream'
<1>1. PICK m : m = [id |-> Len(published) + 1, topic |-> p.topic]
  OBVIOUS
<1>2. p.topic \in Topics
  BY DEF Pub
<1>3. /\ DOMAIN native' = DOMAIN native
      /\ \A i \in DOMAIN native :
              /\ native'[i].filter = native[i].filter /\ native'[i].since = native[i].since
              /\ native'[i].log = IF matches(p.topic, native[i].filter)
                                  THEN Append(native[i].log, m) ELSE native[i].log
  BY <1>1, <1>2, AppendIs
<1>4. published' = Append(published, p.topic) /\ published \in Seq(Topics)
  BY DEF AppendToCommitlog, LogInv
<1>5. ASSUME NEW i \in DOMAIN native
      PROVE  Stream(native'[i].log, native'[i].since, native'[i].filter, published')
  <2>1. PICK log, new, since, f : /\ log = native[i].log /\ new = native'[i].log
                                  /\ since = native[i].since /\ f = native[i].filter
    OBVIOUS
  <2>2. native[i] \in Data
    BY DEF LogInv
  <2>3. log \in Seq(Message) /\ since \in Nat
    BY <2>1, <2>2 DEF Data
  <2>4. since <= Len(published) /\ \A k \in DOMAIN log : log[k].id <= Len(published)
    BY <2>1 DEF LogOrder, Rising
  <2>5. Stream(log, since, f, published)
    BY <2>1 DEF LogIsStream, Stream
  <2>6. new = IF matches(p.topic, f) THEN Append(log, m) ELSE log
    BY <1>3, <2>1
  <2>7. Stream(new, since, f, Append(published, p.topic))
    BY <1>1, <1>2, <1>4, <2>3, <2>4, <2>5, <2>6, StreamAppended
  <2> QED BY <1>3, <1>4, <2>1, <2>7
<1> QED BY <1>3, <1>5 DEF LogIsStream, Stream

\* A filter that comes later has the publishes from then on.
LEMMA CreateStreams ==
  ASSUME LogInv, LogIsStream, NEW f \in Filters, Create(f), published' = published
  PROVE  LogIsStream'
<1>1. CASE IndexOf(f) # {}
  BY <1>1 DEF Create, LogIsStream
<1>2. CASE IndexOf(f) = {}
  <2> DEFINE d == [filter |-> f, log |-> <<>>, since |-> Len(published)]
  <2>1. PICK l : l = Len(published)
    OBVIOUS
  <2>2. l \in Nat /\ native \in Seq(Data)
    BY <2>1 DEF LogInv
  <2>3. native' = Append(native, d)
    BY <1>2 DEF Create
  <2>4. d.log = <<>> /\ d.since = l /\ d.filter = f
    BY <2>1
  <2>5. /\ DOMAIN native' = DOMAIN native \cup {Len(native) + 1} /\ native'[Len(native) + 1] = d
        /\ \A i \in DOMAIN native : native'[i] = native[i]
    <3> HIDE DEF d
    <3> QED BY <2>2, <2>3
  <2> HIDE DEF d
  <2>6. Stream(d.log, d.since, d.filter, published)
    <3>1. l + 1 .. l = {} /\ DOMAIN <<>> = {}
      BY <2>2
    <3>2. Range(d.log) = {}
      BY <2>4, <3>1 DEF Range
    <3>3. {k \in d.since + 1 .. Len(published) : matches(published[k], d.filter)} = {}
      BY <2>1, <2>4, <3>1
    <3> QED BY <2>4, <3>1, <3>2, <3>3 DEF Stream
  <2>7. \A i \in DOMAIN native : Stream(native[i].log, native[i].since, native[i].filter, published)
    BY DEF LogIsStream, Stream
  <2>8. \A i \in DOMAIN native' : Stream(native'[i].log, native'[i].since, native'[i].filter, published')
    BY <2>5, <2>6, <2>7
  <2> QED BY <2>8 DEF LogIsStream, Stream
<1> QED BY <1>1, <1>2

\* An action is about what one client owes and has recorded.
LEMMA OneOwed ==
  ASSUME RecordedIsOwed, NEW c \in Clients,
         \A d \in Clients \ {c} : connections'[d] = connections[d] /\ owed'[d] = owed[d],
         Live(c)' => connections'[c].recorded \in {<<>>, owed'[c]}
  PROVE  RecordedIsOwed'
BY DEF RecordedIsOwed, Live

\* An action that leaves the data, what is recorded and what is owed alone.
LEMMA SameStreams ==
  ASSUME StreamInv, UNCHANGED <<native, published>>
  PROVE  LogIsStream'
BY DEF StreamInv, LogIsStream

\* handle_new_connection: nothing is recorded.
LEMMA ConnectStreams ==
  ASSUME SendsInv, StreamInv, NEW c \in Clients, NEW clean, Connect(c, clean)
  PROVE  StreamInv'
<1> DEFINE resume == ~clean /\ graveyard[c] # Gone
           new == [clean |-> clean, requests |-> IF resume THEN graveyard[c].requests ELSE <<>>,
                   mapped |-> {}, inflight |-> <<>>, aliases |-> <<>>, recorded |-> <<>>]
           owes == IF resume THEN owed[c] ELSE <<>>
<1>1. /\ connections' = [connections EXCEPT ![c] = new] /\ owed' = [owed EXCEPT ![c] = owes]
      /\ new.recorded = <<>>
  BY DEF Connect
<1> HIDE DEF new, owes
<1>2. /\ connections'[c] = new
      /\ \A d \in Clients \ {c} : connections'[d] = connections[d] /\ owed'[d] = owed[d]
  BY <1>1 DEF SendsInv, IInv, SessionInv
<1>3. RecordedIsOwed'
  BY <1>1, <1>2, OneOwed DEF StreamInv
<1> QED BY <1>3, SameStreams DEF StreamInv, Connect

\* A client that is gone has nothing recorded.
LEMMA GoneStreams ==
  ASSUME SendsInv, StreamInv, NEW c \in Clients, Leave(c), UNCHANGED <<native, published>>,
         \A d \in Clients \ {c} : owed'[d] = owed[d]
  PROVE  StreamInv'
<1>1. /\ connections'[c] = Gone
      /\ \A d \in Clients \ {c} : connections'[d] = connections[d]
  BY DEF Leave, SendsInv, IInv, SessionInv
<1>2. RecordedIsOwed'
  BY <1>1, OneOwed DEF StreamInv, Live
<1> QED BY <1>2, SameStreams DEF StreamInv

\* A connection that ends.
LEMMA DisconnectStreams ==
  ASSUME SendsInv, StreamInv, NEW c \in Clients, Disconnect(c)
  PROVE  StreamInv'
<1>1. \E owes : owed' = [owed EXCEPT ![c] = owes]
  BY DEF Disconnect
<1>2. \A d \in Clients \ {c} : owed'[d] = owed[d]
  BY <1>1 DEF SendsInv, IInv, SessionInv
<1> QED BY <1>2, GoneStreams DEF Disconnect

\* A PUBREL that finds nothing recorded.
LEMMA ReleaseUnknownStreams ==
  ASSUME SendsInv, StreamInv, NEW c \in Clients, ReleaseUnknown(c)
  PROVE  StreamInv'
BY GoneStreams DEF ReleaseUnknown

\* A connection that keeps what is recorded.
LEMMA RecordedStays ==
  ASSUME SendsInv, StreamInv, NEW c \in Clients, Live(c), owed' = owed,
         NEW new, connections' = [connections EXCEPT ![c] = new],
         new.recorded = connections[c].recorded
  PROVE  RecordedIsOwed'
<1>1. /\ connections'[c] = new
      /\ \A d \in Clients \ {c} : connections'[d] = connections[d] /\ owed'[d] = owed[d]
  BY DEF SendsInv, IInv, SessionInv
<1>2. connections[c].recorded \in {<<>>, owed[c]}
  BY DEF StreamInv, RecordedIsOwed
<1> QED BY <1>1, <1>2, OneOwed DEF StreamInv

\* PUBACK and PUBREC.
LEMMA AckStreams ==
  ASSUME SendsInv, StreamInv, NEW c \in Clients, Ack(c)
  PROVE  StreamInv'
<1> DEFINE new == [connections[c] EXCEPT !.inflight = Tail(@)]
<1>1. Live(c) /\ connections[c] \in Conn
  BY LiveSent DEF Ack
<1>2. connections' = [connections EXCEPT ![c] = new] /\ owed' = owed /\ new.recorded = connections[c].recorded
  BY <1>1 DEF Ack, Conn
<1> HIDE DEF new
<1>3. RecordedIsOwed'
  BY <1>1, <1>2, RecordedStays
<1> QED BY <1>3, SameStreams DEF StreamInv, Ack

\* UNSUBSCRIBE.
LEMMA UnsubscribeStreams ==
  ASSUME SendsInv, StreamInv, NEW c \in Clients, NEW f, Unsubscribe(c, f)
  PROVE  StreamInv'
<1> DEFINE new == [connections[c] EXCEPT !.mapped = @ \ {f}, !.requests = Without(@, f),
                     !.aliases = Without(@, f)]
<1>1. Live(c) /\ connections[c] \in Conn
  BY LiveSent DEF Unsubscribe
<1>2. connections' = [connections EXCEPT ![c] = new] /\ owed' = owed /\ new.recorded = connections[c].recorded
  BY <1>1 DEF Unsubscribe, Conn
<1> HIDE DEF new
<1>3. RecordedIsOwed'
  BY <1>1, <1>2, RecordedStays
<1> QED BY <1>3, SameStreams DEF StreamInv, Unsubscribe

\* SUBSCRIBE, which may add a log.
LEMMA SubscribeStreams ==
  ASSUME SendsInv, StreamInv, NEW c \in Clients, NEW s \in Subscribes[c], Subscribe(c, s.filter, s.qos)
  PROVE  StreamInv'
<1>1. PICK f : f = s.filter
  OBVIOUS
<1>2. f \in Filters
  BY <1>1, DeliveryAssumption
<1>3. Live(c) /\ Create(f) /\ owed' = owed /\ published' = published
  BY <1>1 DEF Subscribe
<1>4. connections[c] \in Conn
  BY <1>3, LiveSent
<1>5. \E table : connections' = [connections EXCEPT ![c] =
                    [connections[c] EXCEPT !.mapped = @ \cup {f}, !.requests = table]]
  BY <1>1 DEF Subscribe
<1>6. PICK table : connections' = [connections EXCEPT ![c] =
                    [connections[c] EXCEPT !.mapped = @ \cup {f}, !.requests = table]]
  BY <1>5
<1> DEFINE new == [connections[c] EXCEPT !.mapped = @ \cup {f}, !.requests = table]
<1>7. connections' = [connections EXCEPT ![c] = new] /\ new.recorded = connections[c].recorded
  BY <1>4, <1>6 DEF Conn
<1> HIDE DEF new
<1>8. RecordedIsOwed'
  BY <1>3, <1>7, RecordedStays
<1>9. LogIsStream'
  BY <1>2, <1>3, CreateStreams DEF SendsInv, IInv, StreamInv
<1> QED BY <1>8, <1>9 DEF StreamInv

\* forward_device_data, which reads.
LEMMA ForwardStreams ==
  ASSUME SendsInv, StreamInv, NEW c \in Clients, NEW f \in Filters, Forward(c, f)
  PROVE  StreamInv'
<1>1. Live(c) /\ owed' = owed /\ native' = native /\ published' = published
  BY DEF Forward
<1>2. connections[c] \in Conn
  BY <1>1, LiveSent
<1>3. \E order, n, a : connections' = [connections EXCEPT ![c] = Pushed(c, f, order, n, a)]
  BY ForwardIs
<1>4. PICK order, n, a : connections' = [connections EXCEPT ![c] = Pushed(c, f, order, n, a)]
  BY <1>3
<1>5. Pushed(c, f, order, n, a).recorded = connections[c].recorded
  BY <1>2 DEF Pushed, Conn
<1>6. PICK new : new = Pushed(c, f, order, n, a)
  OBVIOUS
<1>7. RecordedIsOwed'
  BY <1>1, <1>4, <1>5, <1>6, RecordedStays
<1> QED BY <1>1, <1>7, SameStreams DEF StreamInv

\* PUBLISH with QoS 0 or 1 means the topic it carries.
LEMMA PublishStreams ==
  ASSUME SendsInv, StreamInv, NEW c \in Clients, NEW p \in Publishes[c], Publish(c, p)
  PROVE  StreamInv'
<1>1. p \in Pub
  BY DeliveryAssumption DEF Pub
<1>2. LogIsStream'
  BY <1>1, AppendStreams DEF SendsInv, IInv, StreamInv, Publish
<1>3. RecordedIsOwed'
  BY DEF StreamInv, RecordedIsOwed, Publish, Live
<1> QED BY <1>2, <1>3 DEF StreamInv

\* What is recorded when nothing else is owed is owed.
LEMMA RecordStreams ==
  ASSUME SendsInv, StreamInv, NEW c \in Clients, NEW p \in Publishes[c], Record(c, p)
  PROVE  StreamInv'
<1> DEFINE new == [connections[c] EXCEPT !.recorded = Append(@, p)]
<1>1. Live(c) /\ connections[c] \in Conn /\ owed[c] \in Seq(Pub) /\ connections[c].recorded \in Seq(Pub)
  <2>1. Live(c) /\ connections[c] \in Conn
    BY LiveSent DEF Record
  <2> QED BY <2>1, LiveOK DEF SendsInv, IInv, Conn
<1>2. connections[c].recorded = owed[c]
  <2>1. connections[c].recorded \in {<<>>, owed[c]}
    BY <1>1 DEF StreamInv, RecordedIsOwed
  <2>2. Len(owed[c]) = Len(connections[c].recorded)
    BY DEF Record
  <2>3. PICK s, t : s = connections[c].recorded /\ t = owed[c]
    OBVIOUS
  <2>4. s \in Seq(Pub) /\ t \in Seq(Pub) /\ Len(t) = Len(s) /\ s \in {<<>>, t}
    BY <1>1, <2>1, <2>2, <2>3
  <2>5. s = t
    BY ONLY <2>4
  <2> QED BY <2>3, <2>5
<1>3. connections' = [connections EXCEPT ![c] = new] /\ owed' = [owed EXCEPT ![c] = Append(@, p)]
  BY DEF Record
<1>4. new.recorded = Append(connections[c].recorded, p)
  BY <1>1 DEF Conn
<1> HIDE DEF new
<1>5. /\ connections'[c] = new /\ owed'[c] = Append(owed[c], p)
      /\ \A d \in Clients \ {c} : connections'[d] = connections[d] /\ owed'[d] = owed[d]
  BY <1>3 DEF SendsInv, IInv, SessionInv
<1>6. RecordedIsOwed'
  BY <1>2, <1>4, <1>5, OneOwed DEF StreamInv
<1> QED BY <1>6, SameStreams DEF StreamInv, Record

\* What is released is what its client means.
LEMMA ReleaseStreams ==
  ASSUME SendsInv, StreamInv, NEW c \in Clients, Release(c)
  PROVE  StreamInv'
<1> DEFINE new == [connections[c] EXCEPT !.recorded = Tail(@)]
<1>1. Live(c) /\ connections[c] \in Conn /\ owed[c] # <<>> /\ connections[c].recorded # <<>>
  BY LiveSent DEF Release
<1>2. connections[c].recorded \in Seq(Pub)
  BY <1>1 DEF Conn
<1>3. connections[c].recorded = owed[c]
  BY <1>1 DEF StreamInv, RecordedIsOwed
<1>4. PICK p : p = Head(owed[c])
  OBVIOUS
<1>5. p \in Pub
  BY <1>1, <1>2, <1>3, <1>4
<1>6. AppendToCommitlog(p, p.topic)
  BY <1>3, <1>4 DEF Release
<1>7. LogIsStream'
  BY <1>5, <1>6, AppendStreams DEF SendsInv, IInv, StreamInv
<1>8. connections' = [connections EXCEPT ![c] = new] /\ owed' = [owed EXCEPT ![c] = Tail(@)]
  BY DEF Release
<1>9. new.recorded = Tail(connections[c].recorded)
  BY <1>1 DEF Conn
<1> HIDE DEF new
<1>10. /\ connections'[c] = new /\ owed'[c] = Tail(owed[c])
       /\ \A d \in Clients \ {c} : connections'[d] = connections[d] /\ owed'[d] = owed[d]
  BY <1>8 DEF SendsInv, IInv, SessionInv
<1>11. RecordedIsOwed'
  BY <1>3, <1>9, <1>10, OneOwed DEF StreamInv
<1> QED BY <1>7, <1>11 DEF StreamInv

\* No log holds anything at the start.
LEMMA InitStreams == Init => StreamInv
<1> SUFFICES ASSUME Init PROVE StreamInv
  OBVIOUS
<1>1. RecordedIsOwed
  BY DEF Init, RecordedIsOwed, Live
<1>2. ASSUME NEW i \in DOMAIN native
      PROVE  Stream(native[i].log, native[i].since, native[i].filter, published)
  <2>1. native[i].log = <<>> /\ native[i].since = 0 /\ published = <<>>
    BY DEF Init
  <2>2. Len(<<>>) = 0 /\ DOMAIN <<>> = {} /\ 0 + 1 .. 0 = {}
    OBVIOUS
  <2>3. Range(native[i].log) = {}
    BY <2>1, <2>2 DEF Range
  <2>4. {k \in native[i].since + 1 .. Len(published) : matches(published[k], native[i].filter)} = {}
    BY <2>1, <2>2
  <2> QED BY <2>1, <2>2, <2>3, <2>4 DEF Stream
<1> QED BY <1>1, <1>2 DEF StreamInv, LogIsStream, Stream

\* Every log stays a stream with every action.
LEMMA NextStreams == SendsInv /\ StreamInv /\ [Next]_vars => StreamInv'
<1> SUFFICES ASSUME SendsInv, StreamInv, [Next]_vars PROVE StreamInv'
  OBVIOUS
<1>1. CASE UNCHANGED vars
  BY <1>1 DEF StreamInv, RecordedIsOwed, LogIsStream, Live, vars
<1>2. ASSUME NEW c \in Clients, \E clean \in Cleans[c] : Connect(c, clean)
      PROVE  StreamInv'
  BY <1>2, ConnectStreams
<1>3. ASSUME NEW c \in Clients, \E s \in Subscribes[c] : Subscribe(c, s.filter, s.qos)
      PROVE  StreamInv'
  BY <1>3, SubscribeStreams
<1>4. ASSUME NEW c \in Clients, \E f \in Unsubscribes[c] : Unsubscribe(c, f)
      PROVE  StreamInv'
  BY <1>4, UnsubscribeStreams
<1>5. ASSUME NEW c \in Clients, \E f \in Filters : Forward(c, f)
      PROVE  StreamInv'
  BY <1>5, ForwardStreams
<1>6. ASSUME NEW c \in Clients, \E p \in Publishes[c] : Publish(c, p) \/ Record(c, p)
      PROVE  StreamInv'
  BY <1>6, PublishStreams, RecordStreams
<1>7. ASSUME NEW c \in Clients, Release(c) \/ ReleaseUnknown(c) \/ Ack(c) \/ Disconnect(c)
      PROVE  StreamInv'
  BY <1>7, ReleaseStreams, ReleaseUnknownStreams, AckStreams, DisconnectStreams
<1> QED BY <1>1, <1>2, <1>3, <1>4, <1>5, <1>6, <1>7 DEF Next

\* The log of a filter is the stream its subscribers are owed, for any number of
\* clients, filters, topics and messages: the cache of filters misses none, and a
\* PUBREL releases the message its client means.
THEOREM LogsAreStreams == Spec => []LogIsStream
<1>1. Init => SendsInv /\ StreamInv
  BY InitIInv, InitSent, InitStreams DEF SendsInv
<1>2. SendsInv /\ StreamInv /\ [Next]_vars => (SendsInv /\ StreamInv)'
  BY NextSent, NextStreams
<1>3. StreamInv => LogIsStream
  BY DEF StreamInv
<1> QED BY <1>1, <1>2, <1>3, PTL DEF Spec
=============================================================================
