------------------------------ MODULE Delivery ------------------------------
(***************************************************************************)
(* What a subscriber is sent: DataLog (router/logs.rs) with its cache of   *)
(* the filters of a topic and its retained messages, the publishes of      *)
(* QoS 2 that AckLog records, BrokerAliases (router/connection.rs), and    *)
(* what handle_device_payload, forward_device_data, handle_new_connection  *)
(* and handle_disconnection (router/routing.rs) do with them.              *)
(*                                                                         *)
(* When a request is read is Router's matter: here it may be read whenever *)
(* it has something to read.  Packet ids are Outgoing's, segments and what *)
(* retention drops CommitLog's, wills LastWill's.  Left out: shared groups,*)
(* expiry, aliases set by clients, subscription identifiers.               *)
(***************************************************************************)
EXTENDS TopicMatch, FiniteSets, SequencesExt

CONSTANTS
  Clients, Topics, Filters,
  Subscribes,     \* [Clients -> SUBSET [filter, qos]]: what a client subscribes to
  Unsubscribes,   \* [Clients -> SUBSET Filters]: what it unsubscribes from
  Publishes,      \* [Clients -> SUBSET [topic, retain, empty, qos]]: what it publishes
  Cleans,         \* [Clients -> SUBSET BOOLEAN]: the clean_session flags it may connect with
  Leaves,         \* the clients whose connections may end
  TopicAliasMax,  \* [Clients -> Nat]: topic_alias_maximum of the CONNECT
  WarmupFilters,  \* config.initialized_filters
  ReadCount,      \* config.max_outgoing_packet_count
  MaxInflight,    \* MAX_INFLIGHT (100)
  MaxOwed,        \* bound on a client's QoS 2 publishes under way
  MaxPublished,   \* bound on the publishes that reach the logs
  MaxConnects     \* [Clients -> Nat]: bound on its connections

ASSUME DeliveryAssumption ==
  /\ Subscribes \in [Clients -> SUBSET [filter : Filters, qos : {0, 1}]]
  /\ Unsubscribes \in [Clients -> SUBSET Filters]
  /\ Publishes \in [Clients -> SUBSET [topic : Topics, retain : BOOLEAN, empty : BOOLEAN,
                                      qos : {0, 1, 2}]]
  /\ Cleans \in [Clients -> SUBSET BOOLEAN]
  /\ Leaves \subseteq Clients
  /\ TopicAliasMax \in [Clients -> Nat] /\ MaxConnects \in [Clients -> Nat]
  /\ WarmupFilters \in Seq(Filters) /\ IsInjective(WarmupFilters)
  /\ ReadCount \in Nat \ {0} /\ MaxInflight \in Nat /\ MaxOwed \in Nat /\ MaxPublished \in Nat
  /\ <<>> \notin Topics /\ IsFiniteSet(Topics)

VARIABLES
  native,              \* DataLog.native: a filter and its log, by filter index
  publish_filters,     \* the indices a topic's publishes go to, once cached
  retained_publishes,  \* by topic, the ordinal of the message kept, or 0
  connections,         \* by client: its live connection, or Gone
  graveyard,           \* by client: the requests of its saved session, or Gone
  learned,             \* by client: the topic it knows an alias by
  owed,                \* by client: its QoS 2 publishes that wait for PUBREL
  connects,            \* how often each client connected
  published            \* the topic of every publish, in order (history)

vars == <<native, publish_filters, retained_publishes, connections, graveyard, learned, owed,
          connects, published>>

-----------------------------------------------------------------------------
Gone == [is |-> "gone"]
Unknown  == <<>>
NotInLog == -1                   \* the cursor of a retained message in flight

Message == [id : Nat, topic : Topics]
Data    == [filter : Filters, log : Seq(Message), since : Nat]

\* A DataRequest; `start', `missed' and `last' are history: where the request
\* began, which topics' retained messages it never got for want of room, and
\* the newest message of each topic that was pushed for it.
Request == [cursor : Nat, qos : {0, 1}, forward_retained : BOOLEAN,
            start : Nat, missed : SUBSET Topics, last : [Topics -> Nat]]

Slot == [filter : Filters, cursor : Nat \cup {NotInLog}]

Live(c)      == connections[c] # Gone
Requests(c)  == connections[c].requests
Aliases(c)   == connections[c].aliases

\* The sequences that name every element of a finite set once.
Orders(S) == {s \in [1 .. Cardinality(S) -> S] : Range(s) = S}

IndexOf(f) == {i \in DOMAIN native : native[i].filter = f}

-----------------------------------------------------------------------------
\* DataLog::matches: the indices a publish on t goes to.  In the code their
\* order is that of a hash map; nothing here depends on it.
Matches(t) ==
  IF publish_filters[t] # <<>> THEN publish_filters[t]
  ELSE CHOOSE s \in Orders({i \in DOMAIN native : matches(t, native[i].filter)}) : TRUE

\* Slip: topics that are cached keep the filters they have.
CreateUncached(f) ==
  IF IndexOf(f) # {} THEN UNCHANGED <<native, publish_filters>>
  ELSE /\ native' = Append(native, [filter |-> f, log |-> <<>>, since |-> Len(published)])
       /\ UNCHANGED publish_filters

\* DataLog::next_native_offset, of a filter without a log: it gets one, and is
\* added to every cached topic it matches.
Create(f) ==
  IF IndexOf(f) # {} THEN UNCHANGED <<native, publish_filters>>
  ELSE /\ native' = Append(native, [filter |-> f, log |-> <<>>, since |-> Len(published)])
       /\ publish_filters' = [t \in Topics |->
             IF publish_filters[t] # <<>> /\ matches(t, f)
             THEN Append(publish_filters[t], Len(native) + 1) ELSE publish_filters[t]]

\* The end of f's log, once it has one.
EndOf(f) == IF IndexOf(f) = {} THEN 0 ELSE Len(native[CHOOSE i \in IndexOf(f) : TRUE].log)
LogOf(f) == native[CHOOSE i \in IndexOf(f) : TRUE].log

\* An empty payload removes the retained message of its topic, with RETAIN or
\* without.
Retained(p, id) ==
  [retained_publishes EXCEPT ![p.topic] = IF p.empty THEN 0 ELSE IF p.retain THEN id ELSE @]

\* append_to_commitlog, of a publish its client means for topic `meant'.
AppendToCommitlog(p, meant) ==
  LET id  == Len(published) + 1
      hit == Matches(p.topic)
  IN  /\ Len(published) < MaxPublished
      /\ retained_publishes' = Retained(p, id)
      /\ publish_filters' = [publish_filters EXCEPT ![p.topic] = hit]
      /\ native' = [i \in DOMAIN native |->
           [native[i] EXCEPT !.log = @ \o [n \in 1 .. Cardinality({k \in DOMAIN hit : hit[k] = i}) |->
                                             [id |-> id, topic |-> p.topic]]]]
      /\ published' = Append(published, meant)

-----------------------------------------------------------------------------
\* handle_new_connection: a client that does not ask for a clean session gets
\* the requests of its saved one back; aliases and recorded publishes start
\* anew.  Told that no session was found, the client forgets its own part.
Connect(c, clean) ==
  /\ ~Live(c) /\ connects[c] < MaxConnects[c]
  /\ connects' = [connects EXCEPT ![c] = @ + 1]
  /\ LET resume == ~clean /\ graveyard[c] # Gone IN
      /\ connections' = [connections EXCEPT ![c] =
            [clean |-> clean, requests |-> IF resume THEN graveyard[c].requests ELSE <<>>,
             mapped |-> {}, inflight |-> <<>>, aliases |-> <<>>, recorded |-> <<>>]]
      /\ owed' = [owed EXCEPT ![c] = IF resume THEN @ ELSE <<>>]
  /\ graveyard' = [graveyard EXCEPT ![c] = Gone]
  /\ learned' = [learned EXCEPT ![c] = [a \in DOMAIN @ |-> Unknown]]
  /\ UNCHANGED <<native, publish_filters, retained_publishes, published>>

\* Outgoing::retransmission_map, applied to the request of f.
Rewound(c, f) ==
  LET back == {n \in DOMAIN connections[c].inflight :
                  /\ connections[c].inflight[n].filter = f
                  /\ connections[c].inflight[n].cursor # NotInLog}
  IN  IF back = {} THEN Requests(c)[f]
      ELSE [Requests(c)[f] EXCEPT !.cursor =
              connections[c].inflight[CHOOSE n \in back : \A m \in back : n <= m].cursor]

\* handle_disconnection.
Leave(c) ==
  /\ connections' = [connections EXCEPT ![c] = Gone]
  /\ graveyard' = [graveyard EXCEPT ![c] =
        IF connections[c].clean THEN Gone
        ELSE [requests |-> [f \in DOMAIN Requests(c) |-> Rewound(c, f)]]]

\* The network fails or the client says DISCONNECT.  The client has seen the
\* PUBREC of some of the publishes it owes a PUBREL for; the rest it must send
\* again as if they were new.
Disconnect(c) ==
  /\ Live(c) /\ c \in Leaves
  /\ Leave(c)
  /\ \E n \in 0 .. Len(owed[c]) : owed' = [owed EXCEPT ![c] = SubSeq(@, 1, n)]
  /\ UNCHANGED <<native, publish_filters, retained_publishes, learned, connects, published>>

-----------------------------------------------------------------------------
With(fcn, key, value) ==
  [k \in DOMAIN fcn \cup {key} |-> IF k = key THEN value ELSE fcn[k]]
Without(fcn, key) == [k \in DOMAIN fcn \ {key} |-> fcn[k]]

\* SUBSCRIBE and prepare_filter: a filter the session does not have yet gets a
\* request that starts at the end of its log, and is to be sent the retained
\* messages once.
Subscribe(c, f, qos) ==
  /\ Live(c)
  /\ Create(f)
  /\ connections' = [connections EXCEPT ![c].mapped = @ \cup {f}, ![c].requests =
        IF f \in DOMAIN @ THEN @
        ELSE With(@, f, [cursor |-> EndOf(f), qos |-> qos, forward_retained |-> TRUE,
                         start |-> EndOf(f), missed |-> {}, last |-> [t \in Topics |-> 0]])]
  /\ UNCHANGED <<retained_publishes, graveyard, learned, owed, connects, published>>

\* UNSUBSCRIBE, of a filter subscription_map has the connection under: one of
\* a resumed session is passed over until it is subscribed to again.
Unsubscribe(c, f) ==
  /\ Live(c) /\ f \in connections[c].mapped
  /\ connections' = [connections EXCEPT ![c].mapped = @ \ {f},
        ![c].requests = Without(@, f), ![c].aliases = Without(@, f)]
  /\ UNCHANGED <<native, publish_filters, retained_publishes, graveyard, learned, owed, connects,
                 published>>

\* PUBLISH with QoS 0 or 1.
Publish(c, p) ==
  /\ Live(c) /\ p.qos < 2
  /\ AppendToCommitlog(p, p.topic)
  /\ UNCHANGED <<connections, graveyard, learned, owed, connects>>

\* PUBLISH with QoS 2 is recorded.  A client sends none while it owes PUBRELs
\* from before its connection.
Record(c, p) ==
  /\ Live(c) /\ p.qos = 2
  /\ Len(owed[c]) = Len(connections[c].recorded)
  /\ Len(owed[c]) < MaxOwed
  /\ connections' = [connections EXCEPT ![c].recorded = Append(@, p)]
  /\ owed' = [owed EXCEPT ![c] = Append(@, p)]
  /\ UNCHANGED <<native, publish_filters, retained_publishes, graveyard, learned, connects, published>>

\* Slip: the last one recorded is released.
ReleaseLast(c) ==
  /\ Live(c) /\ owed[c] # <<>> /\ connections[c].recorded # <<>>
  /\ AppendToCommitlog(Last(connections[c].recorded), Head(owed[c]).topic)
  /\ connections' = [connections EXCEPT ![c].recorded = Front(@)]
  /\ owed' = [owed EXCEPT ![c] = Tail(@)]
  /\ UNCHANGED <<graveyard, learned, connects>>

\* PUBREL: AckLog::pubcomp releases the oldest publish recorded, whatever the
\* packet id.  Clients send PUBRELs in the order of their publishes.
Release(c) ==
  /\ Live(c) /\ owed[c] # <<>> /\ connections[c].recorded # <<>>
  /\ AppendToCommitlog(Head(connections[c].recorded), Head(owed[c]).topic)
  /\ connections' = [connections EXCEPT ![c].recorded = Tail(@)]
  /\ owed' = [owed EXCEPT ![c] = Tail(@)]
  /\ UNCHANGED <<graveyard, learned, connects>>

\* A PUBREL finds nothing recorded, as it does after a reconnection: the
\* client is disconnected, and what it published stays with it.
ReleaseUnknown(c) ==
  /\ Live(c) /\ owed[c] # <<>> /\ connections[c].recorded = <<>>
  /\ Leave(c)
  /\ UNCHANGED <<native, publish_filters, retained_publishes, learned, owed, connects, published>>

\* PUBACK or PUBREC of the oldest message in flight.
Ack(c) ==
  /\ Live(c) /\ connections[c].inflight # <<>>
  /\ connections' = [connections EXCEPT ![c].inflight = Tail(@)]
  /\ UNCHANGED <<native, publish_filters, retained_publishes, graveyard, learned, owed, connects,
                 published>>

-----------------------------------------------------------------------------
Least(m, n) == IF m <= n THEN m ELSE n

\* Slip: the window is taken for one larger than it is.
SlotsBeyond(c, r) == IF r.qos = 0 THEN ReadCount ELSE MaxInflight + 1 - Len(connections[c].inflight)

\* forward_device_data.  The window of a QoS 1 request, the packet count of
\* another.
Slots(c, r) == IF r.qos = 0 THEN ReadCount ELSE MaxInflight - Len(connections[c].inflight)

\* What read_retained_messages finds for a request that is to be sent them.
RetainedFor(f, r) ==
  {t \in Topics : r.forward_retained /\ matches(t, f) /\ retained_publishes[t] # 0}

\* Some topics' retained messages, as many as there is room for, in any order.
Truncations(f, r, slots) ==
  UNION {Orders(S) : S \in {T \in SUBSET RetainedFor(f, r) :
                              Cardinality(T) = Least(slots, Cardinality(RetainedFor(f, r)))}}

\* Slip: the log's messages are pushed first.
BatchLogFirst(f, r, order, n) ==
  [k \in 1 .. n |-> [id |-> LogOf(f)[r.cursor + k].id, topic |-> LogOf(f)[r.cursor + k].topic,
                     cursor |-> r.cursor + k - 1]]
  \o [k \in 1 .. Len(order) |->
        [id |-> retained_publishes[order[k]], topic |-> order[k], cursor |-> NotInLog]]

\* The messages pushed: the retained ones, then n of the log.
Batch(f, r, order, n) ==
  [k \in 1 .. Len(order) |->
      [id |-> retained_publishes[order[k]], topic |-> order[k], cursor |-> NotInLog]]
  \o [k \in 1 .. n |-> [id |-> LogOf(f)[r.cursor + k].id, topic |-> LogOf(f)[r.cursor + k].topic,
                       cursor |-> r.cursor + k - 1]]

\* BrokerAliases::set_new_alias.  The slab gives the number it freed last.
NewAliases(c) ==
  LET free == 1 .. TopicAliasMax[c] \ Range(Aliases(c))
  IN  IF free = {} THEN {0} ELSE free

\* Slip: an alias is set before it is known that there is anything to push.
AliasBeforeRead(c, f, batch) == IF f \in DOMAIN Aliases(c) THEN {0} ELSE NewAliases(c)

\* The alias a batch introduces, 0 for none: one per filter, at its first push.
AliasToSet(c, f, batch) ==
  IF batch = <<>> \/ f \in DOMAIN Aliases(c) THEN {0} ELSE NewAliases(c)

LastOf(batch, last) ==
  [t \in Topics |-> LET at == {k \in DOMAIN batch : batch[k].topic = t} IN
     IF at = {} THEN last[t] ELSE batch[CHOOSE k \in at : \A m \in at : m <= k].id]

\* A request is read and what it reads is pushed.  Once its filter has an alias
\* the messages go without their topic; the first ones carry both, and the
\* client takes the alias for the topic of the last of them.
Forward(c, f) ==
  /\ Live(c) /\ f \in DOMAIN Requests(c)
  /\ LET r     == Requests(c)[f]
         slots == Slots(c, r)
         ahead == Len(LogOf(f)) - r.cursor
     IN  /\ slots > 0
         /\ r.forward_retained \/ ahead > 0
         /\ \E order \in Truncations(f, r, slots) :
             LET n     == Least(slots - Len(order), ahead)
                 batch == Batch(f, r, order, n)
                 read  == [r EXCEPT !.cursor = @ + n, !.forward_retained = FALSE,
                             !.missed = @ \cup (RetainedFor(f, r) \ Range(order)),
                             !.last = LastOf(batch, @)]
             IN  \E a \in AliasToSet(c, f, batch) :
                  /\ connections' = [connections EXCEPT ![c].requests = With(@, f, read),
                        ![c].aliases = IF a = 0 THEN @ ELSE With(@, f, a),
                        ![c].inflight = IF r.qos = 0 THEN @ ELSE
                           @ \o [k \in DOMAIN batch |-> [filter |-> f, cursor |-> batch[k].cursor]]]
                  /\ learned' = IF a = 0 \/ batch = <<>> THEN learned
                                ELSE [learned EXCEPT ![c][a] = Last(batch).topic]
  /\ UNCHANGED <<native, publish_filters, retained_publishes, graveyard, owed, connects, published>>

-----------------------------------------------------------------------------
Init ==
  /\ native = [i \in DOMAIN WarmupFilters |-> [filter |-> WarmupFilters[i], log |-> <<>>, since |-> 0]]
  /\ publish_filters = [t \in Topics |-> <<>>]
  /\ retained_publishes = [t \in Topics |-> 0]
  /\ connections = [c \in Clients |-> Gone]
  /\ graveyard = [c \in Clients |-> Gone]
  /\ learned = [c \in Clients |-> [a \in 1 .. TopicAliasMax[c] |-> Unknown]]
  /\ owed = [c \in Clients |-> <<>>]
  /\ connects = [c \in Clients |-> 0]
  /\ published = <<>>

Next ==
  \E c \in Clients :
    \/ \E clean \in Cleans[c] : Connect(c, clean)
    \/ \E s \in Subscribes[c] : Subscribe(c, s.filter, s.qos)
    \/ \E f \in Unsubscribes[c] : Unsubscribe(c, f)
    \/ \E f \in Filters : Forward(c, f)
    \/ \E p \in Publishes[c] : Publish(c, p) \/ Record(c, p)
    \/ Release(c) \/ ReleaseUnknown(c) \/ Ack(c) \/ Disconnect(c)

Spec == Init /\ [][Next]_vars

-----------------------------------------------------------------------------
\* A function from some of the filters to S.
IsTable(table, S) ==
  /\ DOMAIN table \subseteq Filters
  /\ table = [f \in DOMAIN table |-> table[f]] /\ \A f \in DOMAIN table : table[f] \in S

TypeOK ==
  /\ native \in Seq(Data)
  /\ publish_filters \in [Topics -> Seq(DOMAIN native)]
  /\ retained_publishes \in [Topics -> 0 .. Len(published)]
  /\ \A c \in Clients : graveyard[c] # Gone => IsTable(graveyard[c].requests, Request)
  /\ learned \in [Clients -> Seq(Topics \cup {Unknown})]
  /\ connects \in [Clients -> Nat] /\ published \in Seq(Topics)
  /\ \A c \in Clients : Live(c) =>
       /\ IsTable(Requests(c), Request)
       /\ connections[c].mapped \subseteq DOMAIN Requests(c)
       /\ DOMAIN Aliases(c) \subseteq DOMAIN Requests(c)
       /\ connections[c].inflight \in Seq(Slot) /\ Len(connections[c].inflight) <= MaxInflight
       /\ Len(connections[c].recorded) <= Len(owed[c])

\* The cache of matches is complete: what is published goes to every filter
\* that matches its topic, once, whichever of the two came first.
CacheComplete ==
  \A t \in Topics : publish_filters[t] # <<>> =>
    /\ IsInjective(publish_filters[t])
    /\ Range(publish_filters[t]) = {i \in DOMAIN native : matches(t, native[i].filter)}

\* The log of a filter is the stream a subscriber of it is owed: every publish
\* on a topic it matches since the filter is there, under the topic its client
\* meant, once and in order, whatever the cache held and whichever way the
\* message came in (a QoS 2 message is that of the PUBREL that released it).
LogIsStream ==
  \A i \in DOMAIN native : LET d == native[i] IN
    /\ Range(d.log) = {[id |-> n, topic |-> published[n]] :
                          n \in {k \in d.since + 1 .. Len(published) : matches(published[k], d.filter)}}
    /\ \A m, n \in DOMAIN d.log : m < n => d.log[m].id < d.log[n].id

\* Who has read all there is has been sent the newest message last: for every
\* topic, the newest since the subscription began or, with none, the retained
\* one, unless there was no room for it.  A retained message sent late never
\* hides a newer one.
Newest(c, f, t) ==
  LET r    == Requests(c)[f]
      seen == {LogOf(f)[n].id : n \in {k \in r.start + 1 .. r.cursor : LogOf(f)[k].topic = t}}
                \cup (IF t \in r.missed THEN {} ELSE {retained_publishes[t]})
  IN  CHOOSE id \in seen \cup {0} : \A m \in seen : m <= id

LastValue ==
  \A c \in Clients : Live(c) =>
    \A f \in DOMAIN Requests(c) : LET r == Requests(c)[f] IN
      ~r.forward_retained /\ r.cursor = Len(LogOf(f)) =>
        \A t \in Topics : matches(t, f) => r.last[t] >= Newest(c, f, t)

\* The broker sends a message without its topic only when the client knows the
\* alias, from that very filter: no two filters share one, also after one gave
\* its number back, and none goes past what the client allowed.
AliasKnown ==
  \A c \in Clients : Live(c) =>
    /\ IsInjective(Aliases(c))
    /\ \A f \in DOMAIN Aliases(c) :
         /\ Aliases(c)[f] \in 1 .. TopicAliasMax[c]
         /\ learned[c][Aliases(c)[f]] # Unknown
         /\ matches(learned[c][Aliases(c)[f]], f)

\* What connection.rs says of an alias ("alias used for the topic"): a client
\* takes a message sent under it for one of the topic it was published on.
AliasMeansTopic ==
  [][\A c \in Clients : \A f \in Filters : \A t \in Topics :
       /\ Live(c) /\ Live(c)'
       /\ f \in DOMAIN Aliases(c) /\ f \in DOMAIN Requests(c)'
       /\ Requests(c)'[f].last[t] # Requests(c)[f].last[t]
       => learned[c][Aliases(c)[f]] = t]_vars
=============================================================================
