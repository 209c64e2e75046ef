--------------------------- MODULE OutgoingProofs ---------------------------
(***************************************************************************)
(* Theorems about Outgoing for every window size, number of requests and    *)
(* filters, and every length of the logs.                                   *)
(***************************************************************************)
EXTENDS Outgoing, WellFoundedInduction, TLAPS

------------------------------------------------------------------------------
\* The least-number principle, for sets.
Lt == {p \in Nat \X Nat : p[1] < p[2]}

\* The order of the naturals, as a set of pairs, is well founded.
LEMMA LtWellFounded == IsWellFoundedOn(Lt, Nat)
<1>1. IsWellFoundedOn(OpToRel(<, Nat), Nat)
  BY NatLessThanWellFounded
<1>2. OpToRel(<, Nat) = {ss \in Nat \X Nat : ss[1] < ss[2]}
  BY DEF OpToRel
<1>3. OpToRel(<, Nat) = Lt
  BY <1>2 DEF Lt
<1> QED BY <1>1, <1>3

\* A set of naturals that is not empty has a least member.
LEMMA Least ==
    ASSUME NEW T \in SUBSET Nat, T # {}
    PROVE  \E x \in T : \A y \in T : x <= y
<1>1. PICK x \in T : \A y \in T : ~ (<<y, x>> \in Lt)
  BY LtWellFounded, WFMin
<1>2. ASSUME NEW y \in T PROVE x <= y
  <2>1. x \in Nat /\ y \in Nat /\ ~ (<<y, x>> \in Lt)
    BY <1>1
  <2>2. ~ (y < x)
    BY <2>1 DEF Lt
  <2> QED BY <2>1, <2>2
<1> QED BY <1>2

\* retransmission_map finds an entry when there is one, and the first.
Holds(window, i, f) == window[i].filter_idx = f /\ window[i].cursor # NoCursor

\* retransmission_map (iobufs.rs): what FirstCursor returns is the cursor of
\* the oldest slot of the filter that has one.
LEMMA FirstCursorIsFirst ==
    ASSUME NEW window \in Seq(Slot), NEW f, HasCursor(window, f)
    PROVE  \E k \in 1 .. Len(window) :
              /\ Holds(window, k, f)
              /\ \A j \in 1 .. k - 1 : ~Holds(window, j, f)
              /\ FirstCursor(window, f) = window[k].cursor
<1> DEFINE T == {i \in 1 .. Len(window) : Holds(window, i, f)}
           First(k) == /\ Holds(window, k, f)
                       /\ \A j \in 1 .. k - 1 : ~Holds(window, j, f)
<1>1. T \in SUBSET Nat /\ T # {}
  BY DEF HasCursor, Holds
<1>2. PICK x \in T : \A y \in T : x <= y
  BY <1>1, Least
<1>3. First(x) /\ x \in 1 .. Len(window)
  <2>1. x \in 1 .. Len(window) /\ Holds(window, x, f)
    OBVIOUS
  <2>2. ASSUME NEW j \in 1 .. x - 1 PROVE ~Holds(window, j, f)
    <3>1. j \in 1 .. Len(window) /\ ~(x <= j)
      BY <2>1
    <3>2. j \notin T
      BY <1>2, <3>1
    <3> QED BY <3>1, <3>2
  <2> QED BY <2>1, <2>2
<1> DEFINE k == CHOOSE i \in 1 .. Len(window) : First(i)
<1>4. k \in 1 .. Len(window) /\ First(k)
  BY <1>3
<1>5. FirstCursor(window, f) = window[k].cursor
  <2>1. \A i : First(i) <=>
           /\ window[i].filter_idx = f /\ window[i].cursor # NoCursor
           /\ \A j \in 1 .. i - 1 : window[j].filter_idx # f \/ window[j].cursor = NoCursor
    BY DEF Holds
  <2>2. k = CHOOSE i \in 1 .. Len(window) :
                /\ window[i].filter_idx = f /\ window[i].cursor # NoCursor
                /\ \A j \in 1 .. i - 1 : window[j].filter_idx # f \/ window[j].cursor = NoCursor
    BY <2>1
  <2> QED BY <2>2 DEF FirstCursor
<1> QED BY <1>4, <1>5

------------------------------------------------------------------------------
\* The inductive invariant.

\* Ids follow one another around the ring and end at last_pkid.
RingId(v) == IF v <= 0 THEN v + MaxInflight ELSE v

Ring == \A i \in 1 .. Len(inflight) :
            inflight[i].pkid = RingId(last_pkid - (Len(inflight) - i))

\* No cursor is past the end of its log.
InLog ==
    /\ \A q \in Request : cursor[q] <= log[FilterIdx[q]]
    /\ \A i \in 1 .. Len(inflight) :
          inflight[i].cursor # NoCursor => inflight[i].cursor < log[inflight[i].filter_idx]

\* Nothing is kept for a link that is gone, but the PubRels.
Gone == ~up => inflight = <<>> /\ committed = <<>>

BaseInv == TypeOK /\ WindowBounded /\ Ring /\ InLog /\ Gone /\ PubRelBeforeReuse

\* With one request per filter index, the window holds ascending cursors below
\* that of the request.
Alone == \A q, p \in Request : FilterIdx[q] = FilterIdx[p] => q = p

Below ==
    \A i \in 1 .. Len(inflight), q \in Request :
        Holds(inflight, i, FilterIdx[q]) => q \in subscribed /\ inflight[i].cursor < cursor[q]

Ascending ==
    \A i, j \in 1 .. Len(inflight) :
        /\ i < j
        /\ inflight[i].filter_idx = inflight[j].filter_idx
        /\ inflight[i].cursor # NoCursor
        /\ inflight[j].cursor # NoCursor
        => inflight[i].cursor < inflight[j].cursor

AloneInv == Below /\ Ascending /\ NothingLost

\* Ids of a ring that is not overfull are distinct.
LEMMA RingDistinct == BaseInv => PkidsDistinct
<1> SUFFICES ASSUME BaseInv, NEW i \in 1 .. Len(inflight), NEW j \in 1 .. Len(inflight),
                    inflight[i].pkid = inflight[j].pkid
             PROVE  i = j
  BY DEF PkidsDistinct
<1> DEFINE n == Len(inflight)
           a == last_pkid - (n - i)
           b == last_pkid - (n - j)
<1>1. /\ n \in Nat /\ n <= MaxInflight /\ MaxInflight \in Nat \ {0}
      /\ last_pkid \in 0 .. MaxInflight - 1 /\ i \in 1 .. n /\ j \in 1 .. n
  BY OutgoingAssumption DEF BaseInv, TypeOK, WindowBounded
<1>2. RingId(a) = RingId(b)
  BY DEF BaseInv, Ring
<1> HIDE DEF n
<1>3. a = b
  <2>1. a \in Int /\ b \in Int /\ a - b < MaxInflight /\ b - a < MaxInflight
    BY <1>1
  <2> HIDE DEF a, b
  <2> QED BY <1>1, <1>2, <2>1 DEF RingId
<1> QED BY <1>1, <1>3

\* Ascending cursors: the first of a filter is its least.
LEMMA AscendingFirst ==
    ASSUME NEW window \in Seq(Slot), NEW i \in 1 .. Len(window), window[i].cursor # NoCursor,
           \A a, b \in 1 .. Len(window) :
              /\ a < b
              /\ window[a].filter_idx = window[b].filter_idx
              /\ window[a].cursor # NoCursor
              /\ window[b].cursor # NoCursor
              => window[a].cursor < window[b].cursor
    PROVE  /\ HasCursor(window, window[i].filter_idx)
           /\ FirstCursor(window, window[i].filter_idx) <= window[i].cursor
<1> DEFINE f == window[i].filter_idx
<1>1. HasCursor(window, f)
  BY DEF HasCursor
<1>2. PICK k \in 1 .. Len(window) :
              /\ Holds(window, k, f)
              /\ \A j \in 1 .. k - 1 : ~Holds(window, j, f)
              /\ FirstCursor(window, f) = window[k].cursor
  BY <1>1, FirstCursorIsFirst
<1>3. Holds(window, i, f)
  BY DEF Holds
<1>4. k <= i
  BY <1>2, <1>3
<1>5. window[i] \in Slot /\ window[k] \in Slot
  OBVIOUS
<1>6. window[i].cursor \in Int /\ window[k].cursor \in Int
  BY <1>5 DEF Slot, NoCursor
<1>7. CASE k = i
  BY <1>1, <1>2, <1>6, <1>7
<1>8. CASE k < i
  <2>1. window[k].cursor < window[i].cursor
    BY <1>2, <1>3, <1>8 DEF Holds
  <2> QED BY <1>1, <1>2, <1>6, <2>1
<1> QED BY <1>4, <1>7, <1>8

------------------------------------------------------------------------------
\* push_forwards into the free slots.
LEMMA Pushed ==
    ASSUME BaseInv, NEW q \in Request, NEW retained \in Nat, NEW read \in Nat,
           retained + read <= free_slots, PushForwards(q, retained, read)
    PROVE  /\ inflight' \in Seq(Slot)
           /\ Len(inflight') = Len(inflight) + (retained + read)
           /\ \A i \in 1 .. Len(inflight) : inflight'[i] = inflight[i]
           /\ \A j \in 1 .. retained + read :
                /\ inflight'[Len(inflight) + j].filter_idx = FilterIdx[q]
                /\ inflight'[Len(inflight) + j].cursor =
                       IF j <= retained THEN NoCursor ELSE cursor[q] + (j - retained) - 1
           /\ last_pkid' \in 0 .. MaxInflight - 1
           /\ Ring'
<1> DEFINE n == Len(inflight)
           m == retained + read
           slot(i) == Forward(q, retained, i)
           new == [i \in 1 .. m |-> slot(i)]
<1>1. /\ n \in Nat /\ m \in Nat /\ n + m <= MaxInflight /\ MaxInflight \in Nat \ {0}
      /\ last_pkid \in 0 .. MaxInflight - 1 /\ cursor[q] \in Nat /\ FilterIdx[q] \in Filter
      /\ inflight \in Seq(Slot)
  BY OutgoingAssumption DEF BaseInv, TypeOK, WindowBounded, free_slots
<1>2. ASSUME NEW i \in 1 .. m PROVE slot(i) \in Slot
  <2>1. Wrap(last_pkid + i) \in Pkid
    BY <1>1 DEF Wrap, Pkid
  <2>2. (IF i <= retained THEN NoCursor ELSE cursor[q] + (i - retained) - 1)
           \in Nat \cup {NoCursor}
    BY <1>1
  <2> QED BY <1>1, <2>1, <2>2 DEF Slot, Forward
<1>3. inflight' = inflight \o new
  BY DEF PushForwards
<1>4. last_pkid' = IF m = 0 THEN last_pkid ELSE Reset(Wrap(last_pkid + m))
  BY DEF PushForwards
<1> HIDE DEF slot
<1>5. new \in Seq(Slot) /\ Len(new) = m /\ \A i \in 1 .. m : new[i] = slot(i)
  <2>1. new \in [1 .. m -> Slot]
    BY <1>2
  <2>2. \A i \in 1 .. m : new[i] = slot(i)
    OBVIOUS
  <2> HIDE DEF m, new
  <2> QED BY <2>1, <2>2, <1>1
<1> HIDE DEF n, m, new
<1>6. /\ inflight' \in Seq(Slot)
      /\ Len(inflight') = n + m
      /\ \A i \in 1 .. n : inflight'[i] = inflight[i]
      /\ \A j \in 1 .. m : inflight'[n + j] = slot(j)
  <2>1. inflight \o new \in Seq(Slot) /\ Len(inflight \o new) = n + m
    BY <1>1, <1>5 DEF n
  <2>2. \A i \in 1 .. n : (inflight \o new)[i] = inflight[i]
    BY <1>1, <1>5 DEF n
  <2>3. \A j \in 1 .. m : (inflight \o new)[n + j] = new[j]
    BY <1>1, <1>5 DEF n
  <2> QED BY <1>3, <1>5, <2>1, <2>2, <2>3
<1>7. \A j \in 1 .. m :
         /\ inflight'[n + j].pkid = Wrap(last_pkid + j)
         /\ inflight'[n + j].filter_idx = FilterIdx[q]
         /\ inflight'[n + j].cursor =
                IF j <= retained THEN NoCursor ELSE cursor[q] + (j - retained) - 1
  <2> SUFFICES ASSUME NEW j \in 1 .. m
               PROVE  /\ inflight'[n + j].pkid = Wrap(last_pkid + j)
                      /\ inflight'[n + j].filter_idx = FilterIdx[q]
                      /\ inflight'[n + j].cursor =
                           IF j <= retained THEN NoCursor ELSE cursor[q] + (j - retained) - 1
    OBVIOUS
  <2>1. inflight'[n + j] = Forward(q, retained, j)
    BY <1>6 DEF slot
  <2>2. /\ Forward(q, retained, j).pkid = Wrap(last_pkid + j)
        /\ Forward(q, retained, j).filter_idx = FilterIdx[q]
        /\ Forward(q, retained, j).cursor =
               IF j <= retained THEN NoCursor ELSE cursor[q] + (j - retained) - 1
    BY DEF Forward
  <2> QED BY <2>1, <2>2
<1>8. /\ last_pkid' = IF last_pkid + m < MaxInflight THEN last_pkid + m
                      ELSE last_pkid + m - MaxInflight
      /\ last_pkid' \in 0 .. MaxInflight - 1
  BY <1>1, <1>4 DEF Wrap, Reset
<1>9. Ring'
  <2> SUFFICES ASSUME NEW i \in 1 .. n + m
               PROVE  inflight'[i].pkid = RingId(last_pkid' - ((n + m) - i))
    BY <1>6, <1>1 DEF Ring, RingId
  <2>1. CASE i <= n
    <3>1. inflight'[i].pkid = RingId(last_pkid - (n - i))
      <4>1. i \in 1 .. n
        BY <2>1, <1>1
      <4>2. inflight[i].pkid = RingId(last_pkid - (n - i))
        BY <4>1 DEF BaseInv, Ring, n
      <4> QED BY <4>1, <4>2, <1>6
    <3>2. RingId(last_pkid - (n - i)) = RingId(last_pkid' - ((n + m) - i))
      <4> DEFINE v == last_pkid - (n - i)
                 w == last_pkid' - ((n + m) - i)
      <4>1. /\ last_pkid \in Nat /\ n \in Nat /\ m \in Nat /\ MaxInflight \in Nat
            /\ i \in Nat /\ 1 <= i /\ i <= n /\ n + m <= MaxInflight
            /\ last_pkid < MaxInflight
        BY <1>1, <2>1
      <4>2. CASE last_pkid + m < MaxInflight
        <5>1. last_pkid' = last_pkid + m
          BY <4>2, <1>8
        <5>2. w = v
          BY <4>1, <5>1
        <5> QED BY <5>2
      <4>3. CASE ~(last_pkid + m < MaxInflight)
        <5>1. last_pkid' = last_pkid + m - MaxInflight
          BY <4>3, <1>8
        <5>2. w = v - MaxInflight /\ v \in Int
          BY <4>1, <5>1
        <5>3. 0 < v /\ v < MaxInflight
          BY <4>1, <4>3
        <5> HIDE DEF v, w
        <5>4. w <= 0 /\ w + MaxInflight = v /\ ~(v <= 0)
          BY <4>1, <5>2, <5>3
        <5>5. RingId(v) = v /\ RingId(w) = w + MaxInflight
          BY <5>4 DEF RingId
        <5> QED BY <5>4, <5>5 DEF v, w
      <4> QED BY <4>2, <4>3
    <3> QED BY <3>1, <3>2
  <2>2. CASE i > n
    <3>1. i - n \in 1 .. m /\ i = n + (i - n)
      BY <2>2, <1>1
    <3>2. inflight'[i].pkid = Wrap(last_pkid + (i - n))
      BY <3>1, <1>7
    <3>3. Wrap(last_pkid + (i - n)) = RingId(last_pkid' - ((n + m) - i))
      BY <1>1, <1>8, <3>1 DEF RingId, Wrap
    <3> QED BY <3>2, <3>3
  <2> QED BY <2>1, <2>2, <1>1
<1> QED BY <1>6, <1>7, <1>8, <1>9 DEF n, m

\* An ack takes the head of the window.
LEMMA Popped ==
    ASSUME BaseInv, inflight # <<>>
    PROVE  /\ Tail(inflight) \in Seq(Slot)
           /\ Head(inflight) = inflight[1]
           /\ Head(inflight) \in Slot
           /\ Len(inflight) \in Nat \ {0}
           /\ Len(Tail(inflight)) = Len(inflight) - 1
           /\ \A i \in 1 .. Len(inflight) - 1 : Tail(inflight)[i] = inflight[i + 1]
<1>1. inflight \in Seq(Slot)
  BY DEF BaseInv, TypeOK
<1> QED BY <1>1

\* What a bad ack, a bad PubComp or a lost link does to a window.
LEMMA Disconnected ==
    ASSUME BaseInv, NEW window \in Seq(Slot), Disconnect(window), UNCHANGED <<log, subscribed>>,
           \A i \in 1 .. Len(window) :
              window[i].cursor # NoCursor => window[i].cursor < log[window[i].filter_idx]
    PROVE  /\ cursor' \in [Request -> Nat]
           /\ \A q \in Request : cursor'[q] <= log[FilterIdx[q]]
           /\ inflight' = <<>> /\ last_pkid' = 0 /\ committed' = <<>> /\ up' = FALSE
<1>1. /\ cursor' = [q \in Request |->
                    IF q \in subscribed /\ HasCursor(window, FilterIdx[q])
                    THEN FirstCursor(window, FilterIdx[q]) ELSE cursor[q]]
      /\ inflight' = <<>> /\ last_pkid' = 0 /\ committed' = <<>> /\ up' = FALSE
  BY DEF Disconnect
<1>2. ASSUME NEW q \in Request
      PROVE  cursor'[q] \in Nat /\ cursor'[q] <= log[FilterIdx[q]]
  <2>0. /\ FilterIdx[q] \in Filter /\ log[FilterIdx[q]] \in Nat
        /\ cursor[q] \in Nat /\ cursor[q] <= log[FilterIdx[q]]
    BY OutgoingAssumption DEF BaseInv, TypeOK, InLog
  <2>1. CASE q \in subscribed /\ HasCursor(window, FilterIdx[q])
    <3>1. PICK k \in 1 .. Len(window) : /\ Holds(window, k, FilterIdx[q])
                                        /\ FirstCursor(window, FilterIdx[q]) = window[k].cursor
      BY <2>1, FirstCursorIsFirst
    <3>2. window[k] \in Slot
      OBVIOUS
    <3>3. window[k].cursor \in Nat
      BY <3>1, <3>2 DEF Slot, Holds
    <3>4. window[k].cursor < log[FilterIdx[q]]
      BY <3>1 DEF Holds
    <3> QED BY <1>1, <2>0, <2>1, <3>1, <3>3, <3>4
  <2>2. CASE ~(q \in subscribed /\ HasCursor(window, FilterIdx[q]))
    BY <1>1, <2>0, <2>2
  <2> QED BY <2>1, <2>2
<1>3. cursor' \in [Request -> Nat]
  BY <1>1, <1>2
<1> QED BY <1>1, <1>2, <1>3

------------------------------------------------------------------------------
\* Every step keeps BaseInv.

\* No window, no log: the start of the broker satisfies the invariant.
LEMMA InitBase == Init => BaseInv
BY OutgoingAssumption
   DEF Init, BaseInv, TypeOK, WindowBounded, Ring, InLog, Gone, PubRelBeforeReuse

\* append_to_commitlog only lets the logs grow.
LEMMA PublishBase ==
    ASSUME BaseInv, NEW f \in Filter, Publish(f)
    PROVE  BaseInv'
<1>1. /\ log' = [log EXCEPT ![f] = @ + 1]
      /\ UNCHANGED <<up, subscribed, from, cursor, forward_retained, inflight, last_pkid,
                     unacked_pubrels, committed, acked, dropped>>
  BY DEF Publish, reqvars
<1>2. log \in [Filter -> Nat] /\ log' \in [Filter -> Nat]
  BY <1>1 DEF BaseInv, TypeOK
<1>3. \A g \in Filter : log[g] <= log'[g] /\ log[g] \in Nat /\ log'[g] \in Nat
  BY <1>1, <1>2
<1>4. TypeOK'
  BY <1>1, <1>2 DEF BaseInv, TypeOK
<1>5. InLog'
  <2>1. ASSUME NEW q \in Request PROVE cursor'[q] <= log'[FilterIdx[q]]
    <3>1. /\ FilterIdx[q] \in Filter /\ cursor[q] \in Nat
          /\ cursor[q] <= log[FilterIdx[q]]
      BY OutgoingAssumption DEF BaseInv, TypeOK, InLog
    <3> QED BY <1>1, <1>3, <3>1
  <2>2. ASSUME NEW i \in 1 .. Len(inflight), inflight[i].cursor # NoCursor
        PROVE  inflight[i].cursor < log'[inflight[i].filter_idx]
    <3>1. inflight[i] \in Slot
      BY DEF BaseInv, TypeOK
    <3>2. inflight[i].filter_idx \in Filter /\ inflight[i].cursor \in Nat
      BY <2>2, <3>1 DEF Slot
    <3>3. inflight[i].cursor < log[inflight[i].filter_idx]
      BY <2>2 DEF BaseInv, InLog
    <3> QED BY <1>3, <3>2, <3>3
  <2> QED BY <1>1, <2>1, <2>2 DEF InLog
<1> QED BY <1>1, <1>4, <1>5 DEF BaseInv, WindowBounded, Ring, Gone, PubRelBeforeReuse

\* prepare_filter starts a request at the end of its log.
LEMMA SubscribeBase ==
    ASSUME BaseInv, NEW q \in Request, Subscribe(q)
    PROVE  BaseInv'
<1>1. /\ subscribed' = subscribed \cup {q}
      /\ forward_retained' = forward_retained \cup {q}
      /\ from' = [from EXCEPT ![q] = log[FilterIdx[q]]]
      /\ cursor' = [cursor EXCEPT ![q] = log[FilterIdx[q]]]
      /\ UNCHANGED <<log, up, inflight, last_pkid, unacked_pubrels, committed, acked, dropped>>
  BY DEF Subscribe
<1>2. FilterIdx[q] \in Filter /\ log[FilterIdx[q]] \in Nat
  BY OutgoingAssumption DEF BaseInv, TypeOK
<1>3. TypeOK'
  BY <1>1, <1>2 DEF BaseInv, TypeOK
<1>4. InLog'
  <2>1. ASSUME NEW p \in Request PROVE cursor'[p] <= log[FilterIdx[p]]
    <3>1. cursor[p] <= log[FilterIdx[p]] /\ cursor \in [Request -> Nat]
      BY DEF BaseInv, InLog, TypeOK
    <3> QED BY <1>1, <1>2, <3>1
  <2> QED BY <1>1, <2>1 DEF BaseInv, InLog
<1> QED BY <1>1, <1>3, <1>4 DEF BaseInv, WindowBounded, Ring, Gone, PubRelBeforeReuse

\* ack_device_data empties the acks committed and touches no window.
LEMMA AckDeviceDataBase == BaseInv /\ AckDeviceData => BaseInv'
<1> SUFFICES ASSUME BaseInv, AckDeviceData PROVE BaseInv'
  OBVIOUS
<1>1. /\ committed' = <<>>
      /\ UNCHANGED <<log, up, subscribed, from, cursor, forward_retained, inflight, last_pkid,
                     unacked_pubrels, acked, dropped>>
  BY DEF AckDeviceData, reqvars
<1>2. committed' \in Seq(Pkid) /\ Len(committed') = 0
  BY <1>1
<1>3. TypeOK'
  BY <1>1, <1>2 DEF BaseInv, TypeOK
<1>4. PubRelBeforeReuse'
  BY <1>2 DEF PubRelBeforeReuse
<1> QED BY <1>1, <1>3, <1>4 DEF BaseInv, WindowBounded, Ring, InLog, Gone

\* What one forward_device_data pushed: it fits, and is in the log.
LEMMA Forwarded ==
    ASSUME BaseInv, NEW q \in Request, ForwardDeviceData(q)
    PROVE  \E retained, read \in Nat :
              /\ retained + read <= free_slots
              /\ cursor[q] + read <= log[FilterIdx[q]]
              /\ PushForwards(q, retained, read)
              /\ cursor' = [cursor EXCEPT ![q] = @ + read]
              /\ committed' = <<>>
              /\ up /\ q \in subscribed
              /\ forward_retained' = forward_retained \ {q}
              /\ UNCHANGED <<log, up, subscribed, from, unacked_pubrels, acked, dropped>>
<1>1. /\ free_slots \in Nat /\ MaxRetained \in Nat
      /\ log[FilterIdx[q]] \in Nat /\ cursor[q] \in Nat /\ cursor[q] <= log[FilterIdx[q]]
  <2>1. inflight \in Seq(Slot) /\ Len(inflight) <= MaxInflight
    BY DEF BaseInv, TypeOK, WindowBounded
  <2> QED BY <2>1, OutgoingAssumption DEF BaseInv, TypeOK, InLog, free_slots
<1>2. PICK matching \in 0 .. MaxRetained :
          LET retained == IF q \notin forward_retained THEN 0
                          ELSE IF matching > free_slots THEN free_slots ELSE matching
              slots    == free_slots - retained
              unread   == log[FilterIdx[q]] - cursor[q]
              read     == IF unread > slots THEN slots ELSE unread
          IN  /\ PushForwards(q, retained, read)
              /\ cursor' = [cursor EXCEPT ![q] = @ + read]
  BY DEF ForwardDeviceData
<1> DEFINE retained == IF q \notin forward_retained THEN 0
                       ELSE IF matching > free_slots THEN free_slots ELSE matching
           slots    == free_slots - retained
           unread   == log[FilterIdx[q]] - cursor[q]
           read     == IF unread > slots THEN slots ELSE unread
<1>3. PushForwards(q, retained, read) /\ cursor' = [cursor EXCEPT ![q] = @ + read]
  BY <1>2
<1>4. retained \in Nat /\ retained <= free_slots
  BY <1>1
<1> HIDE DEF retained
<1>5. /\ read \in Nat /\ retained + read <= free_slots
      /\ cursor[q] + read <= log[FilterIdx[q]]
  BY <1>1, <1>4
<1> HIDE DEF read
<1>6. /\ committed' = <<>> /\ up /\ q \in subscribed
      /\ forward_retained' = forward_retained \ {q}
      /\ UNCHANGED <<log, up, subscribed, from, unacked_pubrels, acked, dropped>>
  BY DEF ForwardDeviceData
<1> QED BY <1>3, <1>4, <1>5, <1>6

\* forward_device_data: what it reads fits the free slots and is in the log.
LEMMA ForwardBase ==
    ASSUME BaseInv, NEW q \in Request, ForwardDeviceData(q)
    PROVE  BaseInv'
<1>1. PICK retained, read \in Nat :
              /\ retained + read <= free_slots
              /\ cursor[q] + read <= log[FilterIdx[q]]
              /\ PushForwards(q, retained, read)
              /\ cursor' = [cursor EXCEPT ![q] = @ + read]
              /\ committed' = <<>>
              /\ up /\ q \in subscribed
              /\ forward_retained' = forward_retained \ {q}
              /\ UNCHANGED <<log, up, subscribed, from, unacked_pubrels, acked, dropped>>
  BY Forwarded
<1>2. /\ inflight' \in Seq(Slot)
      /\ Len(inflight') = Len(inflight) + (retained + read)
      /\ \A i \in 1 .. Len(inflight) : inflight'[i] = inflight[i]
      /\ \A j \in 1 .. retained + read :
           /\ inflight'[Len(inflight) + j].filter_idx = FilterIdx[q]
           /\ inflight'[Len(inflight) + j].cursor =
                  IF j <= retained THEN NoCursor ELSE cursor[q] + (j - retained) - 1
      /\ last_pkid' \in 0 .. MaxInflight - 1
      /\ Ring'
  BY <1>1, Pushed
<1>3. cursor' \in [Request -> Nat]
  BY <1>1 DEF BaseInv, TypeOK
<1>4. TypeOK'
  <2>1. committed' \in Seq(Pkid)
    BY <1>1
  <2> QED BY <1>1, <1>2, <1>3, <2>1 DEF BaseInv, TypeOK
<1>5. Len(inflight) \in Nat /\ MaxInflight \in Nat
  BY OutgoingAssumption DEF BaseInv, TypeOK
<1>6. WindowBounded'
  BY <1>1, <1>2, <1>5 DEF WindowBounded, free_slots
<1>7. InLog'
  <2>1. ASSUME NEW p \in Request PROVE cursor'[p] <= log[FilterIdx[p]]
    <3>1. cursor[p] <= log[FilterIdx[p]] /\ cursor \in [Request -> Nat]
      BY DEF BaseInv, InLog, TypeOK
    <3> QED BY <1>1, <3>1
  <2>2. ASSUME NEW i \in 1 .. Len(inflight'), inflight'[i].cursor # NoCursor
        PROVE  inflight'[i].cursor < log[inflight'[i].filter_idx]
    <3>1. CASE i <= Len(inflight)
      <4>1. inflight'[i] = inflight[i] /\ i \in 1 .. Len(inflight)
        BY <1>2, <1>5, <3>1
      <4> QED BY <4>1, <2>2 DEF BaseInv, InLog
    <3>2. CASE i > Len(inflight)
      <4> DEFINE j == i - Len(inflight)
      <4>1. j \in 1 .. retained + read /\ i = Len(inflight) + j
        BY <1>2, <1>5, <3>2
      <4> HIDE DEF j
      <4>2. /\ inflight'[i].filter_idx = FilterIdx[q]
            /\ inflight'[i].cursor =
                  IF j <= retained THEN NoCursor ELSE cursor[q] + (j - retained) - 1
        BY <1>2, <4>1
      <4>3. cursor[q] \in Nat /\ log[FilterIdx[q]] \in Nat
        BY OutgoingAssumption DEF BaseInv, TypeOK
      <4>4. ~(j <= retained) /\ inflight'[i].cursor = cursor[q] + (j - retained) - 1
        BY <2>2, <4>2
      <4> QED BY <1>1, <4>1, <4>2, <4>3, <4>4
    <3> QED BY <3>1, <3>2, <1>2, <1>5
  <2> QED BY <1>1, <2>1, <2>2 DEF InLog
<1>8. Gone' /\ PubRelBeforeReuse'
  BY <1>1 DEF Gone, PubRelBeforeReuse
<1> QED BY <1>2, <1>4, <1>6, <1>7, <1>8 DEF BaseInv

\* Every way to lose the connection.
LEMMA SeveredBase ==
    ASSUME BaseInv, NEW window \in Seq(Slot), Disconnect(window),
           UNCHANGED <<log, subscribed, from, forward_retained>>,
           \A i \in 1 .. Len(window) :
              window[i].cursor # NoCursor => window[i].cursor < log[window[i].filter_idx],
           unacked_pubrels' \in Seq(Pkid),
           acked' \in [Filter -> SUBSET Nat],
           dropped' \in [Filter -> SUBSET Nat]
    PROVE  BaseInv'
<1>1. /\ cursor' \in [Request -> Nat]
      /\ \A q \in Request : cursor'[q] <= log[FilterIdx[q]]
      /\ inflight' = <<>> /\ last_pkid' = 0 /\ committed' = <<>> /\ up' = FALSE
  BY Disconnected
<1>2. /\ inflight' \in Seq(Slot) /\ Len(inflight') = 0
      /\ committed' \in Seq(Pkid)
      /\ last_pkid' \in 0 .. MaxInflight - 1 /\ MaxInflight >= 0
  BY <1>1, OutgoingAssumption
<1>3. TypeOK'
  BY <1>1, <1>2 DEF BaseInv, TypeOK
<1>4. InLog' /\ Ring' /\ WindowBounded' /\ PubRelBeforeReuse' /\ Gone'
  BY <1>1, <1>2 DEF InLog, Ring, WindowBounded, PubRelBeforeReuse, Gone
<1> QED BY <1>3, <1>4 DEF BaseInv

\* The cursors a window holds are in the log, its head and tail included.
LEMMA WindowInLog ==
    ASSUME BaseInv
    PROVE  /\ inflight \in Seq(Slot)
           /\ \A i \in 1 .. Len(inflight) :
                inflight[i].cursor # NoCursor => inflight[i].cursor < log[inflight[i].filter_idx]
           /\ inflight # <<>> =>
                \A i \in 1 .. Len(Tail(inflight)) :
                   Tail(inflight)[i].cursor # NoCursor =>
                       Tail(inflight)[i].cursor < log[Tail(inflight)[i].filter_idx]
<1>1. /\ inflight \in Seq(Slot)
      /\ \A i \in 1 .. Len(inflight) :
           inflight[i].cursor # NoCursor => inflight[i].cursor < log[inflight[i].filter_idx]
  BY DEF BaseInv, TypeOK, InLog
<1>2. ASSUME inflight # <<>>, NEW i \in 1 .. Len(Tail(inflight)), Tail(inflight)[i].cursor # NoCursor
      PROVE  Tail(inflight)[i].cursor < log[Tail(inflight)[i].filter_idx]
  <2>1. Tail(inflight)[i] = inflight[i + 1] /\ i + 1 \in 1 .. Len(inflight)
    BY <1>2, Popped
  <2> QED BY <1>1, <1>2, <2>1
<1> QED BY <1>1, <1>2

\* What an ack settles are message numbers of a log.
LEMMA SettledType ==
    ASSUME NEW sets \in [Filter -> SUBSET Nat], NEW slot \in Slot
    PROVE  Settled(sets, slot) \in [Filter -> SUBSET Nat]
<1>1. slot.filter_idx \in Filter /\ slot.cursor \in Nat \cup {NoCursor}
  BY DEF Slot
<1>2. CASE slot.cursor = NoCursor
  BY <1>2 DEF Settled
<1>3. CASE slot.cursor \in Nat
  <2>1. sets[slot.filter_idx] \cup {slot.cursor} \in SUBSET Nat
    BY <1>1, <1>3
  <2> QED BY <1>1, <1>3, <2>1 DEF Settled
<1> QED BY <1>1, <1>2, <1>3

\* A lost link rewinds the requests and empties the window.
LEMMA LinkLostBase == BaseInv /\ LinkLost => BaseInv'
<1> SUFFICES ASSUME BaseInv, LinkLost PROVE BaseInv'
  OBVIOUS
<1>1. /\ Disconnect(inflight)
      /\ UNCHANGED <<log, subscribed, from, forward_retained, unacked_pubrels, acked, dropped>>
  BY DEF LinkLost
<1>2. /\ unacked_pubrels' \in Seq(Pkid)
      /\ acked' \in [Filter -> SUBSET Nat] /\ dropped' \in [Filter -> SUBSET Nat]
  BY <1>1 DEF BaseInv, TypeOK
<1> QED BY <1>1, <1>2, WindowInLog, SeveredBase

\* An ack out of order: register_ack pops the head, then disconnects.
LEMMA BadAckBase ==
    ASSUME BaseInv, NEW p \in Pkid, BadAck(p)
    PROVE  BaseInv'
<1>1. UNCHANGED <<log, subscribed, from, forward_retained, unacked_pubrels, acked>>
  BY DEF BadAck
<1>2. unacked_pubrels' \in Seq(Pkid) /\ acked' \in [Filter -> SUBSET Nat]
  BY <1>1 DEF BaseInv, TypeOK
<1>3. CASE inflight = <<>> /\ UNCHANGED dropped /\ Disconnect(inflight)
  <2>1. dropped' \in [Filter -> SUBSET Nat]
    BY <1>3 DEF BaseInv, TypeOK
  <2> QED BY <1>1, <1>2, <1>3, <2>1, WindowInLog, SeveredBase
<1>4. CASE /\ inflight # <<>>
           /\ dropped' = Settled(dropped, Head(inflight))
           /\ Disconnect(Tail(inflight))
  <2>1. dropped' \in [Filter -> SUBSET Nat]
    <3>1. dropped \in [Filter -> SUBSET Nat] /\ Head(inflight) \in Slot
      BY <1>4, Popped DEF BaseInv, TypeOK
    <3> QED BY <1>4, <3>1, SettledType
  <2>2. Tail(inflight) \in Seq(Slot)
    BY <1>4, Popped
  <2> QED BY <1>1, <1>2, <1>4, <2>1, <2>2, WindowInLog, SeveredBase
<1> QED BY <1>3, <1>4 DEF BadAck

\* A PubComp out of order: register_pubcomp pops, then disconnects.
LEMMA BadPubCompBase ==
    ASSUME BaseInv, NEW p \in Pkid, BadPubComp(p)
    PROVE  BaseInv'
<1>1. /\ UNCHANGED <<log, subscribed, from, forward_retained, acked, dropped>>
      /\ unacked_pubrels' = IF unacked_pubrels = <<>> THEN <<>> ELSE Tail(unacked_pubrels)
      /\ Disconnect(inflight)
  BY DEF BadPubComp
<1>2. unacked_pubrels' \in Seq(Pkid)
  <2>1. unacked_pubrels \in Seq(Pkid)
    BY DEF BaseInv, TypeOK
  <2> QED BY <1>1, <2>1
<1>3. acked' \in [Filter -> SUBSET Nat] /\ dropped' \in [Filter -> SUBSET Nat]
  BY <1>1 DEF BaseInv, TypeOK
<1> QED BY <1>1, <1>2, <1>3, WindowInLog, SeveredBase

\* A session resumed: retrieve hands the PubRels over again.
LEMMA ConnectBase == BaseInv /\ Connect => BaseInv'
<1> SUFFICES ASSUME BaseInv, Connect PROVE BaseInv'
  OBVIOUS
<1>1. /\ ~up /\ up' = TRUE /\ committed' = unacked_pubrels
      /\ UNCHANGED <<log, subscribed, from, cursor, forward_retained, inflight, last_pkid,
                     unacked_pubrels, acked, dropped>>
  BY DEF Connect, reqvars
<1>2. inflight' = <<>> /\ Len(inflight') = 0
  BY <1>1 DEF BaseInv, Gone
<1>3. TypeOK'
  BY <1>1 DEF BaseInv, TypeOK
<1>4. PubRelBeforeReuse' /\ Gone'
  BY <1>1, <1>2 DEF PubRelBeforeReuse, Gone
<1> QED BY <1>1, <1>3, <1>4 DEF BaseInv, WindowBounded, Ring, InLog

\* An in-order PubComp takes the oldest PubRel off.
LEMMA PubCompBase ==
    ASSUME BaseInv, NEW p \in Pkid, PubComp(p)
    PROVE  BaseInv'
<1>1. /\ unacked_pubrels # <<>> /\ unacked_pubrels' = Tail(unacked_pubrels)
      /\ UNCHANGED <<log, up, subscribed, from, cursor, forward_retained, inflight, last_pkid,
                     committed, acked, dropped>>
  BY DEF PubComp, Completes, reqvars
<1>2. unacked_pubrels' \in Seq(Pkid)
  <2>1. unacked_pubrels \in Seq(Pkid)
    BY DEF BaseInv, TypeOK
  <2> QED BY <1>1, <2>1
<1>3. TypeOK'
  BY <1>1, <1>2 DEF BaseInv, TypeOK
<1> QED BY <1>1, <1>3 DEF BaseInv, WindowBounded, Ring, InLog, Gone, PubRelBeforeReuse

\* An in-order ack: the ring loses its oldest id, and that id is free again.
LEMMA AcknowledgeBase ==
    ASSUME BaseInv, NEW p \in Pkid, up, Acknowledge(p),
           \/ UNCHANGED <<unacked_pubrels, committed>>
           \/ /\ unacked_pubrels' = Append(unacked_pubrels, p)
              /\ committed' = Append(committed, p)
    PROVE  BaseInv'
<1>1. /\ inflight # <<>> /\ p = Head(inflight).pkid
      /\ inflight' = Tail(inflight)
      /\ acked' = Settled(acked, Head(inflight))
      /\ UNCHANGED <<log, up, subscribed, from, cursor, forward_retained, last_pkid, dropped>>
  BY DEF Acknowledge, Solicited, reqvars
<1>2. /\ inflight' \in Seq(Slot)
      /\ Head(inflight) = inflight[1]
      /\ Head(inflight) \in Slot
      /\ Len(inflight) \in Nat \ {0}
      /\ Len(inflight') = Len(inflight) - 1
      /\ \A i \in 1 .. Len(inflight') : inflight'[i] = inflight[i + 1]
  BY <1>1, Popped
<1>3. /\ unacked_pubrels \in Seq(Pkid) /\ committed \in Seq(Pkid)
      /\ acked \in [Filter -> SUBSET Nat]
      /\ MaxInflight \in Nat /\ last_pkid \in Int
  BY OutgoingAssumption DEF BaseInv, TypeOK
<1>4. unacked_pubrels' \in Seq(Pkid) /\ committed' \in Seq(Pkid)
  <2>1. CASE UNCHANGED <<unacked_pubrels, committed>>
    BY <1>3, <2>1
  <2>2. CASE unacked_pubrels' = Append(unacked_pubrels, p) /\ committed' = Append(committed, p)
    <3>1. \A s \in Seq(Pkid) : Append(s, p) \in Seq(Pkid)
      OBVIOUS
    <3> QED BY <1>3, <2>2, <3>1
  <2> QED BY <2>1, <2>2
<1>5. acked' \in [Filter -> SUBSET Nat]
  BY <1>1, <1>2, <1>3, SettledType
<1>6. TypeOK'
  BY <1>1, <1>2, <1>4, <1>5 DEF BaseInv, TypeOK
<1>7. WindowBounded'
  BY <1>2, <1>3 DEF BaseInv, WindowBounded
<1>8. Ring'
  <2> SUFFICES ASSUME NEW i \in 1 .. Len(inflight')
               PROVE  inflight'[i].pkid = RingId(last_pkid - (Len(inflight') - i))
    BY <1>1 DEF Ring, RingId
  <2>1. i + 1 \in 1 .. Len(inflight) /\ Len(inflight) - (i + 1) = Len(inflight') - i
    BY <1>2
  <2>2. inflight[i + 1].pkid = RingId(last_pkid - (Len(inflight) - (i + 1)))
    BY <2>1 DEF BaseInv, Ring
  <2> QED BY <1>2, <2>1, <2>2
<1>9. InLog'
  BY <1>1, WindowInLog DEF BaseInv, InLog
<1>10. PubRelBeforeReuse'
  <2> SUFFICES ASSUME NEW i \in 1 .. Len(committed'), NEW j \in 1 .. Len(inflight')
               PROVE  committed'[i] # inflight'[j].pkid
    BY DEF PubRelBeforeReuse
  <2>1. /\ j + 1 \in 1 .. Len(inflight) /\ 1 \in 1 .. Len(inflight) /\ j + 1 # 1
        /\ inflight'[j] = inflight[j + 1]
    BY <1>2
  <2>2. inflight[j + 1].pkid # p
    BY <1>1, <1>2, <2>1, RingDistinct DEF PkidsDistinct
  <2>3. \/ i \in 1 .. Len(committed) /\ committed'[i] = committed[i]
        \/ committed'[i] = p
    <3>1. CASE UNCHANGED committed
      BY <3>1
    <3>2. CASE committed' = Append(committed, p)
      <4>1. /\ Len(committed') = Len(committed) + 1 /\ Len(committed) \in Nat
            /\ committed'[Len(committed) + 1] = p
            /\ \A k \in 1 .. Len(committed) : committed'[k] = committed[k]
        BY <3>2, <1>3
      <4> QED BY <4>1
    <3> QED BY <3>1, <3>2
  <2>4. CASE i \in 1 .. Len(committed) /\ committed'[i] = committed[i]
    BY <2>1, <2>4 DEF BaseInv, PubRelBeforeReuse
  <2> QED BY <2>1, <2>2, <2>3, <2>4
<1>11. Gone'
  BY <1>1 DEF Gone
<1> QED BY <1>6, <1>7, <1>8, <1>9, <1>10, <1>11 DEF BaseInv

\* Every step keeps the invariant.
LEMMA NextBase == BaseInv /\ [Next]_vars => BaseInv'
<1> SUFFICES ASSUME BaseInv, [Next]_vars PROVE BaseInv'
  OBVIOUS
<1>1. CASE \E f \in Filter : Publish(f)
  BY <1>1, PublishBase
<1>2. CASE \E q \in Request : Subscribe(q)
  BY <1>2, SubscribeBase
<1>3. CASE \E q \in Request : ForwardDeviceData(q)
  BY <1>3, ForwardBase
<1>4. CASE AckDeviceData
  BY <1>4, AckDeviceDataBase
<1>5. ASSUME NEW p \in Pkid, PubAck(p) \/ PubRec(p) PROVE BaseInv'
  BY <1>5, AcknowledgeBase DEF PubAck, PubRec
<1>6. ASSUME NEW p \in Pkid, BadAck(p) PROVE BaseInv'
  BY <1>6, BadAckBase
<1>7. ASSUME NEW p \in Pkid, PubComp(p) PROVE BaseInv'
  BY <1>7, PubCompBase
<1>8. ASSUME NEW p \in Pkid, BadPubComp(p) PROVE BaseInv'
  BY <1>8, BadPubCompBase
<1>9. CASE LinkLost
  BY <1>9, LinkLostBase
<1>10. CASE Connect
  BY <1>10, ConnectBase
<1>11. CASE UNCHANGED vars
  BY <1>11 DEF vars, BaseInv, TypeOK, WindowBounded, Ring, InLog, Gone, PubRelBeforeReuse
<1> QED BY <1>1, <1>2, <1>3, <1>4, <1>5, <1>6, <1>7, <1>8, <1>9, <1>10, <1>11 DEF Next

\* In every reachable state the window of the outgoing buffer (iobufs.rs) is
\* the last ids of the ring, in order, and every cursor is in its log.
THEOREM BaseInvariance == Spec => []BaseInv
BY InitBase, NextBase, PTL DEF Spec

\* Types are right: no cursor passes the end of its log, so no read length is
\* ever negative.
THEOREM TypeCorrect == Spec => []TypeOK
<1>1. BaseInv => TypeOK
  BY DEF BaseInv
<1> QED BY <1>1, BaseInvariance, PTL

\* The window of a connection never outgrows MAX_INFLIGHT, so free_slots does
\* not underflow, and its ids are distinct.
THEOREM WindowIsARing == Spec => [](WindowBounded /\ PkidsDistinct)
<1>1. BaseInv => WindowBounded /\ PkidsDistinct
  BY RingDistinct DEF BaseInv
<1> QED BY <1>1, BaseInvariance, PTL

\* A packet id is reused only behind the PubRel of its previous use.
THEOREM PubRelsGoFirst == Spec => []PubRelBeforeReuse
<1>1. BaseInv => PubRelBeforeReuse
  BY DEF BaseInv
<1> QED BY <1>1, BaseInvariance, PTL

------------------------------------------------------------------------------
\* One request per filter index: the session's cursors.

\* Nothing sent, nothing lost.
LEMMA InitAlone == Init => AloneInv
BY DEF Init, AloneInv, Below, Ascending, NothingLost

\* Steps that touch neither window nor requests.
LEMMA StutterAlone ==
    ASSUME AloneInv, UNCHANGED <<subscribed, from, cursor, inflight, acked, dropped>>
    PROVE  AloneInv'
BY DEF AloneInv, Below, Ascending, NothingLost, InWindow, Holds

\* A new request has nothing in the window: it is the only one of its filter.
LEMMA SubscribeAlone ==
    ASSUME Alone, BaseInv, AloneInv, NEW q \in Request, Subscribe(q)
    PROVE  AloneInv'
<1>1. /\ q \notin subscribed
      /\ subscribed' = subscribed \cup {q}
      /\ from' = [from EXCEPT ![q] = log[FilterIdx[q]]]
      /\ cursor' = [cursor EXCEPT ![q] = log[FilterIdx[q]]]
      /\ UNCHANGED <<inflight, acked, dropped>>
  BY DEF Subscribe
<1>2. cursor \in [Request -> Nat] /\ from \in [Request -> Nat] /\ log[FilterIdx[q]] \in Nat
  BY OutgoingAssumption DEF BaseInv, TypeOK
<1>3. Below'
  <2> SUFFICES ASSUME NEW i \in 1 .. Len(inflight), NEW p \in Request,
                      Holds(inflight, i, FilterIdx[p])
               PROVE  p \in subscribed' /\ inflight[i].cursor < cursor'[p]
    BY <1>1 DEF Below, Holds
  <2>1. p \in subscribed /\ inflight[i].cursor < cursor[p]
    BY DEF AloneInv, Below
  <2>2. p # q
    BY <1>1, <2>1
  <2> QED BY <1>1, <1>2, <2>1, <2>2
<1>4. Ascending'
  BY <1>1 DEF AloneInv, Ascending
<1>5. NothingLost'
  <2> SUFFICES ASSUME NEW p \in subscribed', NEW n \in from'[p] .. cursor'[p] - 1
               PROVE  n \in acked[FilterIdx[p]] \cup dropped[FilterIdx[p]]
                              \cup InWindow(FilterIdx[p])
    BY <1>1 DEF NothingLost, InWindow
  <2>1. p # q
    BY <1>1, <1>2
  <2>2. p \in subscribed /\ p \in Request
    BY <1>1, <2>1 DEF BaseInv, TypeOK
  <2>3. from'[p] = from[p] /\ cursor'[p] = cursor[p]
    BY <1>1, <1>2, <2>1, <2>2
  <2> QED BY <2>2, <2>3 DEF AloneInv, NothingLost
<1> QED BY <1>3, <1>4, <1>5 DEF AloneInv

\* Where an entry of the window is after a push: an old one, or a new one with
\* a cursor the request had not passed.
LEMMA ForwardAlone ==
    ASSUME Alone, BaseInv, AloneInv, NEW q \in Request, ForwardDeviceData(q)
    PROVE  AloneInv'
<1>1. PICK retained, read \in Nat :
              /\ retained + read <= free_slots
              /\ PushForwards(q, retained, read)
              /\ cursor' = [cursor EXCEPT ![q] = @ + read]
              /\ q \in subscribed
              /\ UNCHANGED <<log, subscribed, from, acked, dropped>>
  BY Forwarded
<1> DEFINE len == Len(inflight)
           old(i) == i \in 1 .. len /\ inflight'[i] = inflight[i]
           new(i) == /\ i \in len + 1 .. len + (retained + read)
                     /\ inflight'[i].filter_idx = FilterIdx[q]
                     /\ inflight'[i].cursor = IF i - len <= retained THEN NoCursor
                                              ELSE cursor[q] + (i - len - retained) - 1
<1>2. /\ Len(inflight') = len + (retained + read)
      /\ inflight \in Seq(Slot) /\ inflight' \in Seq(Slot)
      /\ \A i \in 1 .. len : inflight'[i] = inflight[i]
      /\ \A j \in 1 .. retained + read :
           /\ inflight'[len + j].filter_idx = FilterIdx[q]
           /\ inflight'[len + j].cursor =
                  IF j <= retained THEN NoCursor ELSE cursor[q] + (j - retained) - 1
  BY <1>1, Pushed DEF BaseInv, TypeOK
<1>3. /\ len \in Nat /\ cursor \in [Request -> Nat] /\ cursor[q] \in Nat
      /\ cursor'[q] = cursor[q] + read
      /\ \A p \in Request : p # q => cursor'[p] = cursor[p]
      /\ FilterIdx \in [Request -> Filter] /\ from \in [Request -> Nat]
  <2>1. /\ cursor \in [Request -> Nat] /\ from \in [Request -> Nat]
        /\ FilterIdx \in [Request -> Filter]
    BY OutgoingAssumption DEF BaseInv, TypeOK
  <2>2. len \in Nat
    BY <1>2
  <2> HIDE DEF len
  <2>3. cursor' = [cursor EXCEPT ![q] = cursor[q] + read]
    BY <1>1
  <2>4. cursor'[q] = cursor[q] + read /\ \A p \in Request : p # q => cursor'[p] = cursor[p]
    BY <2>1, <2>3
  <2> QED BY <2>1, <2>2, <2>4
<1>4. ASSUME NEW i \in 1 .. len PROVE inflight[i] \in Slot /\ inflight[i].cursor \in Int
  <2>1. inflight[i] \in Slot
    BY <1>2
  <2> QED BY <2>1 DEF Slot, NoCursor
<1> HIDE DEF len
<1>5. ASSUME NEW i \in 1 .. Len(inflight') PROVE old(i) \/ new(i)
  <2>1. CASE i <= len
    BY <1>2, <1>3, <2>1
  <2>2. CASE i > len
    <3> DEFINE j == i - len
    <3>1. j \in 1 .. retained + read /\ i = len + j
      BY <1>2, <1>3, <2>2
    <3>2. i \in len + 1 .. len + (retained + read)
      BY <1>2, <1>3, <2>2
    <3> HIDE DEF j
    <3>3. /\ inflight'[i].filter_idx = FilterIdx[q]
          /\ inflight'[i].cursor =
                IF j <= retained THEN NoCursor ELSE cursor[q] + (j - retained) - 1
      BY <1>2, <3>1
    <3> QED BY <3>2, <3>3 DEF j
  <2> QED BY <1>3, <2>1, <2>2
<1>6. \A i : new(i) /\ inflight'[i].cursor # NoCursor =>
             /\ inflight'[i].cursor = cursor[q] + (i - len - retained) - 1
             /\ cursor[q] <= inflight'[i].cursor /\ inflight'[i].cursor < cursor'[q]
  BY <1>3
<1>7. Below'
  <2> SUFFICES ASSUME NEW i \in 1 .. Len(inflight'), NEW p \in Request,
                      Holds(inflight', i, FilterIdx[p])
               PROVE  p \in subscribed /\ inflight'[i].cursor < cursor'[p]
    BY <1>1 DEF Below, Holds
  <2>1. CASE old(i)
    <3>1. i \in 1 .. len /\ Holds(inflight, i, FilterIdx[p]) /\ inflight'[i] = inflight[i]
      BY <2>1 DEF Holds
    <3>2. p \in subscribed /\ inflight[i].cursor < cursor[p]
      BY <3>1 DEF AloneInv, Below, len
    <3>3. cursor[p] <= cursor'[p] /\ cursor[p] \in Nat /\ cursor'[p] \in Nat
      BY <1>3
    <3> QED BY <1>4, <3>1, <3>2, <3>3
  <2>2. CASE new(i)
    <3>1. p = q
      BY <2>2 DEF Alone, Holds
    <3> QED BY <1>1, <1>6, <2>2, <3>1 DEF Holds
  <2> QED BY <1>5, <2>1, <2>2
<1>8. Ascending'
  <2> SUFFICES ASSUME NEW i \in 1 .. Len(inflight'), NEW j \in 1 .. Len(inflight'),
                      i < j,
                      inflight'[i].filter_idx = inflight'[j].filter_idx,
                      inflight'[i].cursor # NoCursor,
                      inflight'[j].cursor # NoCursor
               PROVE  inflight'[i].cursor < inflight'[j].cursor
    BY DEF Ascending
  <2>1. CASE old(i) /\ old(j)
    BY <2>1 DEF AloneInv, Ascending, len
  <2>2. CASE old(i) /\ new(j)
    <3>1. i \in 1 .. len /\ Holds(inflight, i, FilterIdx[q])
      BY <2>2 DEF Holds
    <3>2. inflight[i].cursor < cursor[q]
      BY <3>1 DEF AloneInv, Below, len
    <3>3. inflight'[i].cursor = inflight[i].cursor /\ inflight[i].cursor \in Int
      BY <1>4, <2>2
    <3>4. cursor[q] <= inflight'[j].cursor /\ inflight'[j].cursor \in Int
      BY <1>3, <1>6, <2>2
    <3> QED BY <1>3, <3>2, <3>3, <3>4
  <2>3. CASE new(i) /\ new(j)
    <3>1. /\ inflight'[i].cursor = cursor[q] + (i - len - retained) - 1
          /\ inflight'[j].cursor = cursor[q] + (j - len - retained) - 1
      BY <1>6, <2>3
    <3> QED BY <1>3, <3>1
  <2>4. CASE new(i) /\ old(j)
    BY <1>3, <2>4
  <2> QED BY <1>5, <2>1, <2>2, <2>3, <2>4
<1>9. NothingLost'
  <2> SUFFICES ASSUME NEW p \in subscribed, NEW n \in from[p] .. cursor'[p] - 1,
                      n \notin acked[FilterIdx[p]] \cup dropped[FilterIdx[p]]
               PROVE  \E i \in 1 .. Len(inflight') :
                         inflight'[i].filter_idx = FilterIdx[p] /\ inflight'[i].cursor = n
    BY <1>1 DEF NothingLost, InWindow
  <2>1. p \in Request /\ cursor[p] \in Nat /\ from[p] \in Nat
    BY <1>3 DEF BaseInv, TypeOK
  <2>2. CASE n < cursor[p]
    <3>1. n \in from[p] .. cursor[p] - 1
      BY <2>1, <2>2
    <3>2. n \in InWindow(FilterIdx[p])
      BY <3>1 DEF AloneInv, NothingLost
    <3>3. PICK i \in 1 .. len : inflight[i].filter_idx = FilterIdx[p] /\ inflight[i].cursor = n
      BY <3>2 DEF InWindow, len
    <3>4. i \in 1 .. Len(inflight') /\ inflight'[i] = inflight[i]
      BY <1>2, <1>3
    <3> QED BY <3>3, <3>4
  <2>3. CASE n >= cursor[p]
    <3>1. p = q
      BY <1>3, <2>1, <2>3
    <3>2. n \in Int /\ cursor[q] <= n /\ n < cursor[q] + read
      BY <1>3, <2>1, <2>3, <3>1
    <3> DEFINE j == retained + (n - cursor[q]) + 1
    <3>3. /\ j \in 1 .. retained + read /\ ~(j <= retained)
          /\ cursor[q] + (j - retained) - 1 = n
      BY <1>3, <3>2
    <3>5. len + j \in 1 .. Len(inflight')
      <4> HIDE DEF j
      <4> QED BY <1>2, <1>3, <3>3
    <3> HIDE DEF j
    <3>4. inflight'[len + j].filter_idx = FilterIdx[q] /\ inflight'[len + j].cursor = n
      BY <1>2, <3>3
    <3> QED BY <3>1, <3>5, <3>4
  <2> QED BY <2>1, <2>2, <2>3
<1> QED BY <1>7, <1>8, <1>9 DEF AloneInv

\* A lost connection: what was in the window is at or after the cursor the
\* request goes back to.
LEMMA SeveredAlone ==
    ASSUME BaseInv, AloneInv, NEW window \in Seq(Slot), Disconnect(window),
           UNCHANGED <<subscribed, from, acked>>,
           \A i, j \in 1 .. Len(window) :
              /\ i < j
              /\ window[i].filter_idx = window[j].filter_idx
              /\ window[i].cursor # NoCursor
              /\ window[j].cursor # NoCursor
              => window[i].cursor < window[j].cursor,
           \A f \in Filter : dropped[f] \subseteq dropped'[f],
           \A i \in 1 .. Len(inflight) :
              \/ \E j \in 1 .. Len(window) : window[j] = inflight[i]
              \/ inflight[i].cursor = NoCursor
              \/ inflight[i].cursor \in dropped'[inflight[i].filter_idx],
           \A j \in 1 .. Len(window) : \E i \in 1 .. Len(inflight) : window[j] = inflight[i]
    PROVE  AloneInv'
<1>1. /\ cursor' = [q \in Request |->
                    IF q \in subscribed /\ HasCursor(window, FilterIdx[q])
                    THEN FirstCursor(window, FilterIdx[q]) ELSE cursor[q]]
      /\ inflight' = <<>>
  BY DEF Disconnect
<1>2. Below' /\ Ascending'
  BY <1>1 DEF Below, Ascending
<1>3. NothingLost'
  <2> SUFFICES ASSUME NEW p \in subscribed, NEW n \in from[p] .. cursor'[p] - 1
               PROVE  n \in acked[FilterIdx[p]] \cup dropped'[FilterIdx[p]]
    BY DEF NothingLost
  <2> DEFINE f == FilterIdx[p]
  <2>1. p \in Request /\ f \in Filter /\ cursor[p] \in Nat /\ from[p] \in Nat
    BY OutgoingAssumption DEF BaseInv, TypeOK
  <2>2. cursor'[p] = IF HasCursor(window, f) THEN FirstCursor(window, f) ELSE cursor[p]
    BY <1>1, <2>1
  <2> HIDE DEF f
  <2>3. cursor'[p] \in Int /\ cursor'[p] <= cursor[p]
    <3>1. CASE HasCursor(window, f)
      <4>1. PICK k \in 1 .. Len(window) : /\ Holds(window, k, f)
                                          /\ FirstCursor(window, f) = window[k].cursor
        BY <3>1, FirstCursorIsFirst
      <4>2. PICK i \in 1 .. Len(inflight) : window[k] = inflight[i]
        OBVIOUS
      <4>3. Holds(inflight, i, FilterIdx[p])
        BY <4>1, <4>2 DEF Holds, f
      <4>4. inflight[i].cursor < cursor[p]
        BY <2>1, <4>3 DEF AloneInv, Below
      <4>5. window[k] \in Slot
        OBVIOUS
      <4>6. window[k].cursor \in Int
        BY <4>5 DEF Slot, NoCursor
      <4> QED BY <2>1, <2>2, <3>1, <4>1, <4>2, <4>4, <4>6
    <3> QED BY <2>1, <2>2, <3>1
  <2>4. n \in from[p] .. cursor[p] - 1 /\ n \in Nat /\ n < cursor'[p]
    BY <2>1, <2>3
  <2>5. n \in acked[f] \cup dropped[f] \cup InWindow(f)
    BY <2>4 DEF AloneInv, NothingLost, f
  <2>6. CASE n \in acked[f] \cup dropped[f]
    BY <2>1, <2>6 DEF f
  <2>7. CASE n \in InWindow(f)
    <3>1. PICK i \in 1 .. Len(inflight) : inflight[i].filter_idx = f /\ inflight[i].cursor = n
      BY <2>7 DEF InWindow
    <3>2. inflight[i].cursor # NoCursor
      BY <2>4, <3>1 DEF NoCursor
    <3>3. CASE inflight[i].cursor \in dropped'[inflight[i].filter_idx]
      BY <3>1, <3>3 DEF f
    <3>4. ASSUME NEW j \in 1 .. Len(window), window[j] = inflight[i] PROVE FALSE
      <4>1. window[j].cursor # NoCursor /\ window[j].filter_idx = f /\ window[j].cursor = n
        BY <3>1, <3>2, <3>4
      <4>2. HasCursor(window, f) /\ FirstCursor(window, f) <= n
        BY <4>1, AscendingFirst
      <4> QED BY <2>2, <2>3, <2>4, <4>2
    <3> QED BY <3>2, <3>3, <3>4
  <2> QED BY <2>5, <2>6, <2>7
<1> QED BY <1>2, <1>3 DEF AloneInv

\* What Settled adds to a set of message numbers, and that it only adds.
LEMMA SettledAdds ==
    ASSUME NEW sets \in [Filter -> SUBSET Nat], NEW slot \in Slot
    PROVE  /\ slot.cursor = NoCursor \/ slot.cursor \in Settled(sets, slot)[slot.filter_idx]
           /\ \A f \in Filter : sets[f] \subseteq Settled(sets, slot)[f]
<1>1. slot.filter_idx \in Filter
  BY DEF Slot
<1> QED BY <1>1 DEF Settled

\* A lost link rewinds to the first cursor in the window: nothing is lost.
LEMMA LinkLostAlone == BaseInv /\ AloneInv /\ (LinkLost \/ \E p \in Pkid : BadPubComp(p)) => AloneInv'
<1> SUFFICES ASSUME BaseInv, AloneInv, LinkLost \/ \E p \in Pkid : BadPubComp(p) PROVE AloneInv'
  OBVIOUS
<1>1. Disconnect(inflight) /\ UNCHANGED <<subscribed, from, acked, dropped>>
  BY DEF LinkLost, BadPubComp
<1>2. inflight \in Seq(Slot)
  BY DEF BaseInv, TypeOK
<1>3. \A f \in Filter : dropped[f] \subseteq dropped'[f]
  BY <1>1
<1> QED BY <1>1, <1>2, <1>3, SeveredAlone DEF AloneInv, Ascending

\* An ack out of order loses exactly the head it popped, which is in dropped.
LEMMA BadAckAlone ==
    ASSUME BaseInv, AloneInv, NEW p \in Pkid, BadAck(p)
    PROVE  AloneInv'
<1>1. UNCHANGED <<subscribed, from, acked>>
  BY DEF BadAck
<1>2. CASE inflight = <<>> /\ UNCHANGED dropped /\ Disconnect(inflight)
  <2>1. inflight \in Seq(Slot) /\ \A f \in Filter : dropped[f] \subseteq dropped'[f]
    BY <1>2 DEF BaseInv, TypeOK
  <2> QED BY <1>1, <1>2, <2>1, SeveredAlone DEF AloneInv, Ascending
<1>3. CASE /\ inflight # <<>>
           /\ dropped' = Settled(dropped, Head(inflight))
           /\ Disconnect(Tail(inflight))
  <2> DEFINE window == Tail(inflight)
  <2>1. /\ window \in Seq(Slot) /\ inflight[1] \in Slot /\ Head(inflight) = inflight[1]
        /\ Len(inflight) \in Nat \ {0} /\ Len(window) = Len(inflight) - 1
        /\ \A i \in 1 .. Len(inflight) - 1 : window[i] = inflight[i + 1]
    BY <1>3, Popped
  <2>2. dropped \in [Filter -> SUBSET Nat]
    BY DEF BaseInv, TypeOK
  <2> HIDE DEF window
  <2>3. /\ \A f \in Filter : dropped[f] \subseteq dropped'[f]
        /\ \/ inflight[1].cursor = NoCursor
           \/ inflight[1].cursor \in dropped'[inflight[1].filter_idx]
    BY <1>3, <2>1, <2>2, SettledAdds
  <2>4. ASSUME NEW i \in 1 .. Len(inflight)
        PROVE  \/ \E j \in 1 .. Len(window) : window[j] = inflight[i]
               \/ inflight[i].cursor = NoCursor
               \/ inflight[i].cursor \in dropped'[inflight[i].filter_idx]
    <3>1. CASE i = 1
      BY <2>3, <3>1
    <3>2. CASE i # 1
      <4>1. i - 1 \in 1 .. Len(window) /\ window[i - 1] = inflight[i]
        BY <2>1, <3>2
      <4> QED BY <4>1
    <3> QED BY <3>1, <3>2
  <2>5. \A j \in 1 .. Len(window) : j + 1 \in 1 .. Len(inflight) /\ window[j] = inflight[j + 1]
    BY <2>1
  <2>6. ASSUME NEW i \in 1 .. Len(window), NEW j \in 1 .. Len(window), i < j,
               window[i].filter_idx = window[j].filter_idx,
               window[i].cursor # NoCursor,
               window[j].cursor # NoCursor
        PROVE  window[i].cursor < window[j].cursor
    <3>1. i + 1 < j + 1
      BY <2>6
    <3> QED BY <2>5, <2>6, <3>1 DEF AloneInv, Ascending
  <2>7. \A j \in 1 .. Len(window) : \E i \in 1 .. Len(inflight) : window[j] = inflight[i]
    BY <2>5
  <2>8. Disconnect(window)
    BY <1>3 DEF window
  <2> QED BY <1>1, <2>1, <2>3, <2>4, <2>6, <2>7, <2>8, SeveredAlone
<1> QED BY <1>2, <1>3 DEF BadAck

\* An in-order ack moves the oldest cursor of its filter to acked.
LEMMA AcknowledgeAlone ==
    ASSUME BaseInv, AloneInv, NEW p \in Pkid, Acknowledge(p)
    PROVE  AloneInv'
<1>1. /\ inflight # <<>> /\ inflight' = Tail(inflight)
      /\ acked' = Settled(acked, Head(inflight))
      /\ UNCHANGED <<subscribed, from, cursor, dropped>>
  BY DEF Acknowledge, Solicited, reqvars
<1>2. /\ inflight[1] \in Slot /\ Head(inflight) = inflight[1]
      /\ Len(inflight) \in Nat \ {0} /\ Len(inflight') = Len(inflight) - 1
      /\ \A i \in 1 .. Len(inflight') : i + 1 \in 1 .. Len(inflight) /\ inflight'[i] = inflight[i + 1]
  BY <1>1, Popped
<1>3. acked \in [Filter -> SUBSET Nat]
  BY DEF BaseInv, TypeOK
<1>4. /\ \A f \in Filter : acked[f] \subseteq acked'[f]
      /\ inflight[1].cursor = NoCursor \/ inflight[1].cursor \in acked'[inflight[1].filter_idx]
  BY <1>1, <1>2, <1>3, SettledAdds
<1>5. Below'
  BY <1>1, <1>2 DEF AloneInv, Below, Holds
<1>6. Ascending'
  <2> SUFFICES ASSUME NEW i \in 1 .. Len(inflight'), NEW j \in 1 .. Len(inflight'), i < j,
                      inflight'[i].filter_idx = inflight'[j].filter_idx,
                      inflight'[i].cursor # NoCursor,
                      inflight'[j].cursor # NoCursor
               PROVE  inflight'[i].cursor < inflight'[j].cursor
    BY DEF Ascending
  <2>1. i + 1 < j + 1
    OBVIOUS
  <2> QED BY <1>2, <2>1 DEF AloneInv, Ascending
<1>7. NothingLost'
  <2> SUFFICES ASSUME NEW q \in subscribed, NEW n \in from[q] .. cursor[q] - 1,
                      n \notin acked'[FilterIdx[q]] \cup dropped[FilterIdx[q]]
               PROVE  \E i \in 1 .. Len(inflight') :
                         inflight'[i].filter_idx = FilterIdx[q] /\ inflight'[i].cursor = n
    BY <1>1 DEF NothingLost, InWindow
  <2>1. q \in Request /\ FilterIdx[q] \in Filter /\ n \in Nat
    BY OutgoingAssumption DEF BaseInv, TypeOK
  <2>2. n \in InWindow(FilterIdx[q])
    BY <1>4, <2>1 DEF AloneInv, NothingLost
  <2>3. PICK i \in 1 .. Len(inflight) :
             inflight[i].filter_idx = FilterIdx[q] /\ inflight[i].cursor = n
    BY <2>2 DEF InWindow
  <2>4. i # 1
    BY <1>4, <2>1, <2>3 DEF NoCursor
  <2>5. i - 1 \in 1 .. Len(inflight') /\ i = (i - 1) + 1
    BY <1>2, <2>4
  <2>6. inflight'[i - 1] = inflight[i]
    BY <1>2, <2>5
  <2> QED BY <2>3, <2>5, <2>6
<1> QED BY <1>5, <1>6, <1>7 DEF AloneInv

\* Every step keeps the invariant of a filter index with one request.
LEMMA NextAlone == ASSUME Alone PROVE BaseInv /\ AloneInv /\ [Next]_vars => AloneInv'
<1> SUFFICES ASSUME BaseInv, AloneInv, [Next]_vars PROVE AloneInv'
  OBVIOUS
<1>1. ASSUME NEW f \in Filter, Publish(f) PROVE AloneInv'
  BY <1>1, StutterAlone DEF Publish, reqvars
<1>2. CASE \E q \in Request : Subscribe(q)
  BY <1>2, SubscribeAlone
<1>3. CASE \E q \in Request : ForwardDeviceData(q)
  BY <1>3, ForwardAlone
<1>4. CASE AckDeviceData
  BY <1>4, StutterAlone DEF AckDeviceData, reqvars
<1>5. ASSUME NEW p \in Pkid, PubAck(p) \/ PubRec(p) PROVE AloneInv'
  BY <1>5, AcknowledgeAlone DEF PubAck, PubRec
<1>6. ASSUME NEW p \in Pkid, BadAck(p) PROVE AloneInv'
  BY <1>6, BadAckAlone
<1>7. ASSUME NEW p \in Pkid, PubComp(p) PROVE AloneInv'
  BY <1>7, StutterAlone DEF PubComp, reqvars
<1>8. CASE LinkLost \/ \E p \in Pkid : BadPubComp(p)
  BY <1>8, LinkLostAlone
<1>9. CASE Connect
  BY <1>9, StutterAlone DEF Connect, reqvars
<1>10. CASE UNCHANGED vars
  BY <1>10, StutterAlone DEF vars
<1> QED BY <1>1, <1>2, <1>3, <1>4, <1>5, <1>6, <1>7, <1>8, <1>9, <1>10 DEF Next

\* When no two requests share a filter index, every message of a request
\* is acknowledged, in the window, popped by a bad ack, or still to be read.
THEOREM AloneInvariance == ASSUME Alone PROVE Spec => []AloneInv
<1>1. Init => AloneInv
  BY InitAlone
<1>2. BaseInv /\ AloneInv /\ [Next]_vars => AloneInv'
  BY NextAlone
<1> QED BY <1>1, <1>2, BaseInvariance, PTL DEF Spec

\* When no two requests of the session share a filter index, the comment on
\* retransmission_map is right: the first cursor found is the least.
THEOREM FirstCursorIsLeast == ASSUME Alone PROVE Spec => []FirstIsLeast
<1>1. BaseInv /\ AloneInv => FirstIsLeast
  <2> SUFFICES ASSUME BaseInv, AloneInv, NEW i \in 1 .. Len(inflight),
                      inflight[i].cursor # NoCursor
               PROVE  FirstCursor(inflight, inflight[i].filter_idx) <= inflight[i].cursor
    BY DEF FirstIsLeast
  <2>1. inflight \in Seq(Slot)
    BY DEF BaseInv, TypeOK
  <2> QED BY <2>1, AscendingFirst DEF AloneInv, Ascending
<1> QED BY <1>1, BaseInvariance, AloneInvariance, PTL

\* And then no disconnection, resumption or bad ack makes a request pass a
\* message that is not acknowledged, in flight or popped by a bad ack.
THEOREM NothingIsLost == ASSUME Alone PROVE Spec => []NothingLost
<1>1. AloneInv => NothingLost
  BY DEF AloneInv
<1> QED BY <1>1, AloneInvariance, PTL
==============================================================================
