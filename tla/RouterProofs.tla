---------------------------- MODULE RouterProofs ----------------------------
(***************************************************************************)
(* Theorems about Router, for any links, clients, filters and bounds.       *)
(*                                                                          *)
(* 1. Sequences: what RemoveWaiter(s), RequestsOf, Unregistered and the     *)
(*    other helpers leave and take.                                         *)
(* 2. Core, the inductive invariant the rest stands on: the types, no       *)
(*    request or message in flight beyond the end of its log, and no waiter *)
(*    of a connection that is gone.  One lemma per action says what it does *)
(*    (...Is) and that Core is kept (...Type, ...Ahead, ...Waiters).        *)
(* 3. The same steps in fewer words: EventsAre, ConsumesAre, PacketsAre and *)
(*    the three handlers that make or end a connection.                     *)
(* 4. One invariant of the runs after the other, each with what it takes on *)
(*    top of Core: parked requests, subscription_map, the ready queue, the  *)
(*    requests of every subscription, connection_map, what a link and its   *)
(*    connection know of one another, and from that the links of the        *)
(*    connections and what wakes a Busy one.                                *)
(***************************************************************************)
EXTENDS Router, SequenceTheorems, FiniteSetTheorems, NaturalsInduction, TLAPS

Before == {p \in Nat \X Nat : p[1] < p[2]}

\* What is true of 0 and passes from each number to the next is true of all.
LEMMA Induct ==
  ASSUME NEW m \in Nat, NEW P, 0 \in P, \A i \in 0 .. m - 1 : i \in P => i + 1 \in P
  PROVE  \A i \in 0 .. m : i \in P
<1> DEFINE Bad == {i \in 0 .. m : i \notin P}
<1>1. SUFFICES ASSUME Bad # {} PROVE FALSE
  OBVIOUS
<1>2. IsWellFoundedOn(Before, Nat)
  <2>1. OpToRel(<, Nat) = Before
    BY DEF OpToRel, Before
  <2> QED BY <2>1, NatLessThanWellFounded
<1>3. Bad \subseteq Nat
  OBVIOUS
<1>4. PICK x \in Bad : \A y \in Bad : ~ (<<y, x>> \in Before)
  BY <1>1, <1>2, <1>3, WFMin
<1>5. x \in 0 .. m /\ x \notin P /\ x - 1 \in 0 .. m - 1
  OBVIOUS
<1>6. x - 1 \notin Bad
  <2>1. x - 1 \in Nat /\ x \in Nat /\ x - 1 < x
    BY <1>5
  <2>2. <<x - 1, x>> \in Before
    BY <2>1 DEF Before
  <2> QED BY <1>4, <2>2
<1>7. x - 1 \in P
  BY <1>5, <1>6
<1>8. x - 1 + 1 \in P
  BY <1>5, <1>7
<1> QED BY <1>5, <1>8

\* A set of numbers that is not empty has a least one.
LEMMA LeastOf ==
  ASSUME NEW I, I \subseteq Nat, I # {}
  PROVE  \E x \in I : \A y \in I : x <= y
<1>1. IsWellFoundedOn(Before, Nat)
  <2>1. OpToRel(<, Nat) = Before
    BY DEF OpToRel, Before
  <2> QED BY <2>1, NatLessThanWellFounded
<1>2. PICK x \in I : \A y \in I : ~ (<<y, x>> \in Before)
  BY <1>1, WFMin
<1>3. ASSUME NEW y \in I PROVE x <= y
  <2>1. x \in Nat /\ y \in Nat /\ ~ (<<y, x>> \in Before)
    BY <1>2
  <2> QED BY <2>1 DEF Before
<1> QED BY <1>3

\* A fold over the first n numbers exists.
IsFold(f, T, base, n, step) ==
  /\ f \in [0 .. n -> T] /\ f[0] = base
  /\ \A i \in 1 .. n : f[i] = step[<<i, f[i - 1]>>]

\* One step after the other: the function IsFold describes is there.
LEMMA FoldExists ==
  ASSUME NEW T, NEW base \in T, NEW n \in Nat, NEW step \in [Nat \X T -> T]
  PROVE  \E f : IsFold(f, T, base, n, step)
<1> DEFINE Fold(f, k) == f[0] = base /\ \A i \in 1 .. k : f[i] = step[<<i, f[i - 1]>>]
           P == {k \in 0 .. n : \E f \in [0 .. k -> T] : Fold(f, k)}
<1>1. 0 \in P
  <2> DEFINE g == [i \in 0 .. 0 |-> base]
  <2>1. g \in [0 .. 0 -> T]
    OBVIOUS
  <2>2. Fold(g, 0)
    OBVIOUS
  <2>3. \E f \in [0 .. 0 -> T] : Fold(f, 0)
    <3> HIDE DEF g, Fold
    <3> QED BY <2>1, <2>2
  <2> QED BY <2>3
<1>2. ASSUME NEW k \in 0 .. n - 1, k \in P PROVE k + 1 \in P
  <2>1. PICK f \in [0 .. k -> T] : Fold(f, k)
    BY <1>2
  <2> DEFINE g == [i \in 0 .. k + 1 |-> IF i <= k THEN f[i] ELSE step[<<k + 1, f[k]>>]]
  <2>2. step[<<k + 1, f[k]>>] \in T
    OBVIOUS
  <2>3. g \in [0 .. k + 1 -> T]
    BY <2>2
  <2>4. g[0] = base
    BY <2>1
  <2>5. ASSUME NEW i \in 1 .. k + 1 PROVE g[i] = step[<<i, g[i - 1]>>]
    <3>1. CASE i <= k
      <4>1. i \in 1 .. k /\ i - 1 \in 0 .. k
        BY <3>1
      <4>2. f[i] = step[<<i, f[i - 1]>>]
        BY <2>1, <4>1
      <4>3. g[i] = f[i] /\ g[i - 1] = f[i - 1]
        BY <3>1, <4>1
      <4> QED BY <4>2, <4>3
    <3>2. CASE i = k + 1
      <4>1. /\ k + 1 \in 0 .. k + 1 /\ ~(k + 1 <= k)
            /\ k \in 0 .. k + 1 /\ k <= k /\ (k + 1) - 1 = k
        OBVIOUS
      <4>2. g[k + 1] = step[<<k + 1, f[k]>>] /\ g[k] = f[k]
        BY ONLY <4>1
      <4> QED BY ONLY <3>2, <4>1, <4>2
    <3> QED BY <3>1, <3>2
  <2>6. Fold(g, k + 1)
    BY <2>4, <2>5
  <2> HIDE DEF Fold, g
  <2> QED BY <2>3, <2>6
<1> HIDE DEF P
<1>3. n \in P
  BY <1>1, <1>2, Induct
<1> QED BY <1>3 DEF P, IsFold

------------------------------------------------------------------------------
\* What sequences are made of.
LEMMA SeqFacts ==
  ASSUME NEW S, NEW s \in Seq(S), NEW t \in Seq(S)
  PROVE  /\ <<>> \in Seq(S) /\ Len(s) \in Nat
         /\ \A i \in 1 .. Len(s) : s[i] \in S
         /\ s \o t \in Seq(S) /\ Len(s \o t) = Len(s) + Len(t)
         /\ s # <<>> => Head(s) \in S /\ Tail(s) \in Seq(S)
OBVIOUS

\* The members of a sequence are what it has at its indices.
LEMMA InRange ==
  ASSUME NEW S, NEW s \in Seq(S), NEW x
  PROVE  x \in Range(s) <=> \E i \in 1 .. Len(s) : s[i] = x
BY DEF Range

\* The index of the first waiter of id.
LEMMA FirstOf ==
  ASSUME NEW S, NEW ws \in Seq(S), NEW id
  PROVE  LET i == SelectInSeq(ws, LAMBDA w : w.id = id)
         IN  \/ i = 0 /\ \A j \in 1 .. Len(ws) : ws[j].id # id
             \/ i \in 1 .. Len(ws) /\ ws[i].id = id
<1> DEFINE I == {j \in 1 .. Len(ws) : ws[j].id = id}
           i == SelectInSeq(ws, LAMBDA w : w.id = id)
<1>1. i = IF I # {} THEN Min(I) ELSE 0
  BY DEF SelectInSeq
<1>2. I \subseteq Nat
  OBVIOUS
<1>3. CASE I = {}
  BY <1>1, <1>3
<1>4. CASE I # {}
  <2>3. \E x \in I : \A y \in I : x <= y
    BY <1>2, <1>4, LeastOf
  <2>4. Min(I) \in I
    BY <2>3 DEF Min
  <2> QED BY <1>1, <1>4, <2>4
<1> QED BY <1>3, <1>4

\* RemoveWaiter takes nothing but a waiter of id, and one if there is one.
LEMMA RemoveWaiterIs ==
  ASSUME NEW S, NEW ws \in Seq(S), NEW id
  PROVE  LET r == RemoveWaiter(ws, id)
         IN  /\ r \in Seq(S)
             /\ Range(r) \subseteq Range(ws)
             /\ \A w \in Range(ws) : w.id # id => w \in Range(r)
             /\ \/ Len(r) = Len(ws) - 1
                \/ r = ws /\ \A w \in Range(ws) : w.id # id
<1> DEFINE i == SelectInSeq(ws, LAMBDA w : w.id = id)
           r == RemoveWaiter(ws, id)
           n == Len(ws)
<1>1. n \in Nat /\ ws \in [1 .. n -> S] /\ DOMAIN ws = 1 .. n
  OBVIOUS
<1>2. \/ i = 0 /\ \A j \in 1 .. n : ws[j].id # id
      \/ i \in 1 .. n /\ ws[i].id = id
  BY FirstOf
<1>3. r = IF i = 0 THEN ws ELSE IF i = n THEN Front(ws) ELSE [Front(ws) EXCEPT ![i] = Last(ws)]
  BY DEF RemoveWaiter
<1> HIDE DEF i, n, r
<1>4. CASE i = 0
  <2>1. r = ws
    BY <1>3, <1>4
  <2>2. ASSUME NEW w \in Range(ws) PROVE w.id # id
    <3>1. PICK j \in 1 .. n : ws[j] = w
      BY <1>1, InRange
    <3> QED BY <1>2, <1>4, <3>1
  <2> QED BY <2>1, <2>2 DEF n, r
<1>5. CASE i \in 1 .. n /\ ws[i].id = id
  <2> DEFINE f == Front(ws)
  <2>1. f \in Seq(S) /\ Len(f) = n - 1 /\ \A j \in 1 .. n - 1 : f[j] = ws[j]
    BY <1>1, <1>5 DEF Front
  <2>2. CASE i = n
    <3>1. r = f
      BY <1>1, <1>3, <1>5, <2>2
    <3> HIDE DEF f
    <3>2. ASSUME NEW w \in Range(ws), w.id # id PROVE w \in Range(f)
      <4>1. PICK j \in 1 .. n : ws[j] = w
        BY <1>1, InRange
      <4>2. j \in 1 .. n - 1 /\ f[j] = w
        BY <1>1, <1>5, <2>1, <2>2, <3>2, <4>1
      <4> QED BY <2>1, <4>2, InRange
    <3>3. ASSUME NEW w \in Range(f) PROVE w \in Range(ws)
      <4>1. PICK j \in 1 .. n - 1 : f[j] = w
        BY <2>1, InRange
      <4>2. j \in 1 .. n /\ ws[j] = w
        BY <1>1, <2>1, <4>1
      <4> QED BY <4>2, InRange DEF n
    <3> QED BY <2>1, <3>1, <3>2, <3>3 DEF n, r
  <2>3. CASE i \in 1 .. n - 1
    <3>1. r = [f EXCEPT ![i] = Last(ws)]
      BY <1>1, <1>3, <2>3
    <3> HIDE DEF f
    <3>2. ws[n] \in S /\ Last(ws) = ws[n]
      BY <1>1, <2>3 DEF Last
    <3>3. r \in Seq(S) /\ Len(r) = n - 1
      BY <2>1, <2>3, <3>1, <3>2, ExceptSeq
    <3>4. ASSUME NEW j \in 1 .. n - 1 PROVE r[j] = IF j = i THEN ws[n] ELSE ws[j]
      BY <2>1, <2>3, <3>1, <3>2
    <3>5. ASSUME NEW w \in Range(ws), w.id # id PROVE w \in Range(r)
      <4>1. PICK j \in 1 .. n : ws[j] = w
        BY <1>1, InRange
      <4>2. CASE j = n
        <5>1. r[i] = w
          BY <2>3, <3>4, <4>1, <4>2
        <5> QED BY <2>3, <3>3, <5>1, InRange
      <4>3. CASE j # n
        <5>1. j \in 1 .. n - 1 /\ j # i
          BY <1>1, <1>5, <3>5, <4>1, <4>3
        <5>2. r[j] = w
          BY <3>4, <4>1, <5>1
        <5> QED BY <3>3, <5>1, <5>2, InRange
      <4> QED BY <4>2, <4>3
    <3>6. ASSUME NEW w \in Range(r) PROVE w \in Range(ws)
      <4>1. PICK j \in 1 .. n - 1 : r[j] = w
        BY <3>3, InRange
      <4>2. w = ws[n] \/ w = ws[j]
        BY <3>4, <4>1
      <4>3. n \in 1 .. n /\ j \in 1 .. n
        BY <1>1, <2>3
      <4> QED BY <4>2, <4>3, InRange DEF n
    <3> QED BY <3>3, <3>5, <3>6 DEF n, r
  <2>4. i = n \/ i \in 1 .. n - 1
    BY <1>1, <1>5
  <2> HIDE DEF f
  <2> QED BY <2>2, <2>3, <2>4
<1> QED BY <1>2, <1>4, <1>5

\* Waiters::remove leaves no waiter of id, keeps the others and adds none.
LEMMA RemoveWaitersIs ==
  ASSUME NEW S, NEW ws \in Seq(S), NEW id
  PROVE  /\ RemoveWaiters(ws, id) \in Seq(S)
         /\ \A w : w \in Range(RemoveWaiters(ws, id)) <=> w \in Range(ws) /\ w.id # id
<1> DEFINE n == Len(ws)
           step == [p \in Nat \X Seq(S) |-> RemoveWaiter(p[2], id)]
           left == CHOOSE g : g = [k \in 0 .. n |-> IF k = 0 THEN ws
                                                  ELSE RemoveWaiter(g[k - 1], id)]
<1>1. n \in Nat
  OBVIOUS
<1>2. step \in [Nat \X Seq(S) -> Seq(S)]
  BY RemoveWaiterIs
<1>3. PICK f : IsFold(f, Seq(S), ws, n, step)
  <2> HIDE DEF step, n
  <2> QED BY <1>1, <1>2, FoldExists
<1>4. ASSUME NEW k \in 1 .. n PROVE f[k] = RemoveWaiter(f[k - 1], id)
  <2>1. k \in Nat /\ k - 1 \in 0 .. n
    BY <1>1
  <2>2. f[k - 1] \in Seq(S) /\ f[k] = step[<<k, f[k - 1]>>]
    BY <1>3, <2>1 DEF IsFold
  <2>3. step[<<k, f[k - 1]>>] = RemoveWaiter(f[k - 1], id)
    BY <2>1, <2>2
  <2> QED BY <2>2, <2>3
<1> HIDE DEF n, step
<1>5. f = [k \in 0 .. n |-> IF k = 0 THEN ws ELSE RemoveWaiter(f[k - 1], id)]
  BY <1>1, <1>3, <1>4 DEF IsFold
<1>6. left = [k \in 0 .. n |-> IF k = 0 THEN ws ELSE RemoveWaiter(left[k - 1], id)]
  BY <1>5
<1>7. RemoveWaiters(ws, id) = left[n]
  BY DEF RemoveWaiters, n
<1> HIDE DEF left
<1> DEFINE Good(r, k) == /\ r \in Seq(S)
                         /\ Range(r) \subseteq Range(ws)
                         /\ \A w \in Range(ws) : w.id # id => w \in Range(r)
                         /\ Len(r) = n - k \/ \A w \in Range(r) : w.id # id
           P == {k \in 0 .. n : Good(left[k], k)}
<1>8. 0 \in P
  BY <1>1, <1>6 DEF n
<1>9. ASSUME NEW k \in 0 .. n - 1, k \in P PROVE k + 1 \in P
  <2> DEFINE s == left[k]
             r == RemoveWaiter(left[k], id)
  <2>1. k + 1 \in 1 .. n /\ k + 1 - 1 = k
    BY <1>1
  <2>2. left[k + 1] = r
    BY <1>1, <1>6, <2>1
  <2>3. Good(s, k)
    BY <1>9
  <2>4. /\ r \in Seq(S)
        /\ Range(r) \subseteq Range(s)
        /\ \A w \in Range(s) : w.id # id => w \in Range(r)
        /\ Len(r) = Len(s) - 1 \/ (r = s /\ \A w \in Range(s) : w.id # id)
    BY <2>3, RemoveWaiterIs
  <2> HIDE DEF s, r
  <2>5. Range(r) \subseteq Range(ws)
    BY <2>3, <2>4
  <2>6. \A w \in Range(ws) : w.id # id => w \in Range(r)
    BY <2>3, <2>4
  <2>7. Len(r) = n - (k + 1) \/ \A w \in Range(r) : w.id # id
    <3>1. CASE \A w \in Range(s) : w.id # id
      BY <2>4, <3>1
    <3>2. CASE Len(s) = n - k /\ Len(r) = Len(s) - 1
      BY <1>1, <3>2
    <3>3. CASE r = s /\ \A w \in Range(s) : w.id # id
      BY <3>3
    <3> QED BY <2>3, <2>4, <3>1, <3>2, <3>3
  <2>8. Good(r, k + 1)
    BY <2>4, <2>5, <2>6, <2>7
  <2> HIDE DEF Good
  <2> QED BY <2>1, <2>2, <2>8
<1>10. n \in P
  <2> HIDE DEF P
  <2>1. \A k \in 0 .. n : k \in P
    BY <1>1, <1>8, <1>9, Induct
  <2> QED BY <1>1, <2>1
<1>11. Good(left[n], n)
  BY <1>10
<1>12. \A w \in Range(left[n]) : w.id # id
  <2>1. CASE Len(left[n]) = n - n
    <3>1. Len(left[n]) = 0
      BY <1>1, <2>1
    <3> QED BY <1>11, <3>1, InRange
  <2> QED BY <1>11, <2>1
<1> QED BY <1>7, <1>11, <1>12

\* RequestsOf gives the requests of the waiters of id, and no other.
LEMMA RequestsOfIs ==
  ASSUME NEW ws \in Seq(Waiter), NEW id
  PROVE  /\ RequestsOf(ws, id) \in Seq(Request)
         /\ \A q : q \in Range(RequestsOf(ws, id)) <=>
                     \E j \in 1 .. Len(ws) : ws[j].id = id /\ ws[j].request = q
<1> DEFINE n == Len(ws)
           Of(s, k) == IF ws[k].id = id THEN Append(s, ws[k].request) ELSE s
           step == [p \in Nat \X Seq(Request) |->
                      IF p[1] \in 1 .. n THEN Of(p[2], p[1]) ELSE p[2]]
           of == CHOOSE g : g = [k \in 0 .. n |-> IF k = 0 THEN <<>>
                     ELSE IF ws[k].id = id THEN Append(g[k - 1], ws[k].request) ELSE g[k - 1]]
<1>1. n \in Nat
  OBVIOUS
<1>r. ASSUME NEW k \in 1 .. n PROVE ws[k].request \in Request
  <2>1. ws[k] \in Waiter
    OBVIOUS
  <2> QED BY <2>1 DEF Waiter
<1>2. ASSUME NEW s \in Seq(Request), NEW k \in 1 .. n PROVE Of(s, k) \in Seq(Request)
  BY <1>r
<1>3. step \in [Nat \X Seq(Request) -> Seq(Request)]
  <2> HIDE DEF Of, n
  <2> QED BY <1>2
<1>4. PICK f : IsFold(f, Seq(Request), <<>>, n, step)
  <2> HIDE DEF step, n
  <2>1. <<>> \in Seq(Request)
    OBVIOUS
  <2> QED BY <1>1, <1>3, <2>1, FoldExists
<1>5. ASSUME NEW k \in 1 .. n PROVE f[k] = Of(f[k - 1], k)
  <2> HIDE DEF Of, n
  <2>1. k \in Nat /\ k - 1 \in 0 .. n
    BY <1>1
  <2>2. f[k - 1] \in Seq(Request) /\ f[k] = step[<<k, f[k - 1]>>]
    BY <1>4, <2>1 DEF IsFold
  <2>3. step[<<k, f[k - 1]>>] = Of(f[k - 1], k)
    BY <2>1, <2>2
  <2> QED BY <2>2, <2>3
<1> HIDE DEF n, step
<1>6. f = [k \in 0 .. n |-> IF k = 0 THEN <<>>
             ELSE IF ws[k].id = id THEN Append(f[k - 1], ws[k].request) ELSE f[k - 1]]
  <2> DEFINE F(k) == IF k = 0 THEN <<>>
               ELSE IF ws[k].id = id THEN Append(f[k - 1], ws[k].request) ELSE f[k - 1]
  <2>1. ASSUME NEW k \in 0 .. n PROVE f[k] = F(k)
    <3>1. CASE k = 0
      BY <1>4, <3>1 DEF IsFold
    <3>2. CASE k # 0
      <4>1. k \in 1 .. n
        BY <1>1, <3>2
      <4> QED BY <1>5, <3>2, <4>1
    <3> QED BY <3>1, <3>2
  <2> HIDE DEF F
  <2>2. f = [k \in 0 .. n |-> F(k)]
    BY <1>4, <2>1 DEF IsFold
  <2> QED BY <2>2 DEF F
<1>7. of = [k \in 0 .. n |-> IF k = 0 THEN <<>>
             ELSE IF ws[k].id = id THEN Append(of[k - 1], ws[k].request) ELSE of[k - 1]]
  BY <1>6
<1>p. ASSUME NEW k \in 1 .. n
      PROVE  of[k] = IF ws[k].id = id THEN Append(of[k - 1], ws[k].request) ELSE of[k - 1]
  <2>1. k \in 0 .. n /\ k # 0
    BY <1>1
  <2> HIDE DEF of
  <2> QED BY <1>7, <2>1
<1>8. RequestsOf(ws, id) = of[n]
  BY DEF RequestsOf, n
<1> HIDE DEF of
<1> DEFINE Mine(q, k) == \E j \in 1 .. k : ws[j].id = id /\ ws[j].request = q
           Good(s, k) == s \in Seq(Request) /\ \A q : q \in Range(s) <=> Mine(q, k)
           P == {k \in 0 .. n : Good(of[k], k)}
<1>9. 0 \in P
  <2>1. of[0] = <<>>
    BY <1>1, <1>7
  <2>2. Range(<<>>) = {}
    BY DEF Range
  <2>3. Good(<<>>, 0)
    BY <2>2
  <2> HIDE DEF Good
  <2> QED BY <1>1, <2>1, <2>3
<1>10. ASSUME NEW k \in 0 .. n - 1, k \in P PROVE k + 1 \in P
  <2> DEFINE s == of[k]
             w == ws[k + 1]
             t == IF w.id = id THEN Append(s, w.request) ELSE s
  <2>1. k + 1 \in 1 .. n /\ k + 1 - 1 = k /\ k \in Nat
    BY <1>1
  <2>2. of[k + 1] = t
    <3>1. of[k + 1] = IF ws[k + 1].id = id THEN Append(of[k + 1 - 1], ws[k + 1].request)
                      ELSE of[k + 1 - 1]
      BY <1>p, <2>1
    <3> QED BY <2>1, <3>1
  <2>3. Good(s, k) /\ w.request \in Request
    BY <1>10, <1>r, <2>1
  <2> HIDE DEF s, w
  <2>4. t \in Seq(Request) /\ \A q : q \in Range(t) <=> q \in Range(s) \/ (w.id = id /\ q = w.request)
    <3>1. CASE w.id = id
      <4>1. t = Append(s, w.request)
        BY <3>1
      <4>2. /\ t \in Seq(Request) /\ Len(t) = Len(s) + 1 /\ t[Len(s) + 1] = w.request
            /\ \A j \in 1 .. Len(s) : t[j] = s[j]
        BY <2>3, <4>1
      <4> HIDE DEF t
      <4>3. ASSUME NEW q PROVE q \in Range(t) <=> q \in Range(s) \/ q = w.request
        <5>1. q \in Range(t) <=> \E j \in 1 .. Len(s) + 1 : t[j] = q
          BY <4>2, InRange
        <5>2. q \in Range(s) <=> \E j \in 1 .. Len(s) : s[j] = q
          BY <2>3, InRange
        <5>3. Len(s) \in Nat
          BY <2>3
        <5> QED BY <4>2, <5>1, <5>2, <5>3
      <4> QED BY <3>1, <4>2, <4>3
    <3>2. CASE w.id # id
      BY <2>3, <3>2
    <3> QED BY <3>1, <3>2
  <2>5. ASSUME NEW q PROVE Mine(q, k + 1) <=> Mine(q, k) \/ (w.id = id /\ q = w.request)
    <3>1. \A j : j \in 1 .. k + 1 <=> j \in 1 .. k \/ j = k + 1
      BY <2>1
    <3> QED BY <3>1 DEF w
  <2> HIDE DEF Mine, t
  <2>6. Good(t, k + 1)
    BY <2>3, <2>4, <2>5
  <2> QED BY <2>1, <2>2, <2>6
<1>11. n \in P
  <2> HIDE DEF P
  <2>1. \A k \in 0 .. n : k \in P
    BY <1>1, <1>9, <1>10, Induct
  <2> QED BY <1>1, <2>1
<1>12. Good(of[n], n)
  BY <1>11
<1> QED BY <1>8, <1>12 DEF n

\* Appending adds its element, joining the elements of the second sequence.
LEMMA AppendIs ==
  ASSUME NEW S, NEW s \in Seq(S), NEW e \in S
  PROVE  /\ Append(s, e) \in Seq(S)
         /\ \A x : x \in Range(Append(s, e)) <=> x \in Range(s) \/ x = e
<1> DEFINE t == Append(s, e)
<1>1. /\ t \in Seq(S) /\ Len(t) = Len(s) + 1 /\ t[Len(s) + 1] = e
      /\ \A j \in 1 .. Len(s) : t[j] = s[j]
  OBVIOUS
<1>2. Len(s) \in Nat
  OBVIOUS
<1> HIDE DEF t
<1>3. ASSUME NEW x PROVE x \in Range(t) <=> x \in Range(s) \/ x = e
  <2>1. x \in Range(t) <=> \E j \in 1 .. Len(s) + 1 : t[j] = x
    BY <1>1, InRange
  <2>2. x \in Range(s) <=> \E j \in 1 .. Len(s) : s[j] = x
    BY InRange
  <2> QED BY <1>1, <1>2, <2>1, <2>2
<1> QED BY <1>1, <1>3 DEF t

\* What two sequences hold together.
LEMMA JoinIs ==
  ASSUME NEW S, NEW s \in Seq(S), NEW t \in Seq(S)
  PROVE  /\ s \o t \in Seq(S)
         /\ \A x : x \in Range(s \o t) <=> x \in Range(s) \/ x \in Range(t)
BY ConcatProperties, RangeConcatenation

\* What unregistering leaves are the requests for other filters.
LEMMA UnregisteredIs ==
  ASSUME NEW rs \in Seq(Request), NEW f
  PROVE  /\ Unregistered(rs, f) \in Seq(Request)
         /\ \A q : q \in Range(Unregistered(rs, f)) <=> q \in Range(rs) /\ q.filter # f
<1> DEFINE n == Len(rs)
           Kept(s, k) == IF rs[k].filter = f THEN s ELSE Append(s, rs[k])
           step == [p \in Nat \X Seq(Request) |->
                      IF p[1] \in 1 .. n THEN Kept(p[2], p[1]) ELSE p[2]]
           kept == CHOOSE g : g = [k \in 0 .. n |-> IF k = 0 THEN <<>>
                     ELSE IF rs[k].filter = f THEN g[k - 1] ELSE Append(g[k - 1], rs[k])]
<1>1. n \in Nat
  OBVIOUS
<1>2. ASSUME NEW s \in Seq(Request), NEW k \in 1 .. n PROVE Kept(s, k) \in Seq(Request)
  <2>1. rs[k] \in Request
    OBVIOUS
  <2> QED BY <2>1
<1>3. step \in [Nat \X Seq(Request) -> Seq(Request)]
  <2> HIDE DEF Kept, n
  <2> QED BY <1>2
<1>4. PICK g : IsFold(g, Seq(Request), <<>>, n, step)
  <2> HIDE DEF step, n
  <2>1. <<>> \in Seq(Request)
    OBVIOUS
  <2> QED BY <1>1, <1>3, <2>1, FoldExists
<1>5. ASSUME NEW k \in 1 .. n PROVE g[k] = Kept(g[k - 1], k)
  <2> HIDE DEF Kept, n
  <2>1. k \in Nat /\ k - 1 \in 0 .. n
    BY <1>1
  <2>2. g[k - 1] \in Seq(Request) /\ g[k] = step[<<k, g[k - 1]>>]
    BY <1>4, <2>1 DEF IsFold
  <2>3. step[<<k, g[k - 1]>>] = Kept(g[k - 1], k)
    BY <2>1, <2>2
  <2> QED BY <2>2, <2>3
<1> HIDE DEF n, step
<1>6. g = [k \in 0 .. n |-> IF k = 0 THEN <<>>
             ELSE IF rs[k].filter = f THEN g[k - 1] ELSE Append(g[k - 1], rs[k])]
  <2> DEFINE F(k) == IF k = 0 THEN <<>>
               ELSE IF rs[k].filter = f THEN g[k - 1] ELSE Append(g[k - 1], rs[k])
  <2>1. ASSUME NEW k \in 0 .. n PROVE g[k] = F(k)
    <3>1. CASE k = 0
      BY <1>4, <3>1 DEF IsFold
    <3>2. CASE k # 0
      <4>1. k \in 1 .. n
        BY <1>1, <3>2
      <4> QED BY <1>5, <3>2, <4>1
    <3> QED BY <3>1, <3>2
  <2> HIDE DEF F
  <2>2. g = [k \in 0 .. n |-> F(k)]
    BY <1>4, <2>1 DEF IsFold
  <2> QED BY <2>2 DEF F
<1>7. kept = [k \in 0 .. n |-> IF k = 0 THEN <<>>
                ELSE IF rs[k].filter = f THEN kept[k - 1] ELSE Append(kept[k - 1], rs[k])]
  BY <1>6
<1>8. Unregistered(rs, f) = kept[n]
  BY DEF Unregistered, n
<1> HIDE DEF kept
<1>9. ASSUME NEW k \in 1 .. n
      PROVE  kept[k] = Kept(kept[k - 1], k)
  <2>1. k \in 0 .. n /\ k # 0
    BY <1>1
  <2> QED BY <1>7, <2>1
<1> DEFINE Other(q, k) == \E j \in 1 .. k : rs[j] = q /\ q.filter # f
           Good(s, k) == s \in Seq(Request) /\ \A q : q \in Range(s) <=> Other(q, k)
           P == {k \in 0 .. n : Good(kept[k], k)}
<1>10. 0 \in P
  <2>1. kept[0] = <<>>
    BY <1>1, <1>7
  <2>2. Range(<<>>) = {}
    BY DEF Range
  <2>3. Good(<<>>, 0)
    BY <2>2
  <2> HIDE DEF Good
  <2> QED BY <1>1, <2>1, <2>3
<1>11. ASSUME NEW k \in 0 .. n - 1, k \in P PROVE k + 1 \in P
  <2> DEFINE s == kept[k]
             r == rs[k + 1]
             t == IF r.filter = f THEN s ELSE Append(s, r)
  <2>1. k + 1 \in 1 .. n /\ k + 1 - 1 = k /\ k \in Nat
    BY <1>1
  <2>2. kept[k + 1] = t
    <3>1. kept[k + 1] = Kept(kept[k + 1 - 1], k + 1)
      BY <1>9, <2>1
    <3> QED BY <2>1, <3>1
  <2>3. Good(s, k) /\ r \in Request
    BY <1>11, <2>1 DEF n
  <2> HIDE DEF s, r
  <2>4. t \in Seq(Request) /\ \A q : q \in Range(t) <=> q \in Range(s) \/ (r.filter # f /\ q = r)
    <3>1. CASE r.filter # f
      BY <2>3, <3>1, AppendIs
    <3>2. CASE r.filter = f
      BY <2>3, <3>2
    <3> QED BY <3>1, <3>2
  <2>5. ASSUME NEW q PROVE Other(q, k + 1) <=> Other(q, k) \/ (r.filter # f /\ q = r)
    <3>1. \A j : j \in 1 .. k + 1 <=> j \in 1 .. k \/ j = k + 1
      BY <2>1
    <3> QED BY <3>1 DEF r
  <2> HIDE DEF Other, t
  <2>6. Good(t, k + 1)
    BY <2>3, <2>4, <2>5
  <2> QED BY <2>1, <2>2, <2>6
<1>12. n \in P
  <2> HIDE DEF P
  <2>1. \A k \in 0 .. n : k \in P
    BY <1>1, <1>10, <1>11, Induct
  <2> QED BY <1>1, <2>1
<1>13. Good(kept[n], n)
  BY <1>12
<1>14. ASSUME NEW q PROVE Other(q, n) <=> q \in Range(rs) /\ q.filter # f
  BY InRange DEF n
<1> HIDE DEF Other
<1> QED BY <1>8, <1>13, <1>14

\* FlattenSeq joins sequences: it has the elements of each.
LEMMA FlattenIs ==
  ASSUME NEW S, NEW ss \in Seq(Seq(S))
  PROVE  /\ FlattenSeq(ss) \in Seq(S)
         /\ \A x : x \in Range(FlattenSeq(ss)) <=>
                     \E i \in 1 .. Len(ss) : x \in Range(ss[i])
<1> DEFINE n == Len(ss)
           Joined(s, k) == s \o ss[k]
           step == [p \in Nat \X Seq(S) |->
                      IF p[1] \in 1 .. n THEN Joined(p[2], p[1]) ELSE p[2]]
           flat == CHOOSE g : g = [i \in 1 .. n |-> IF i = 1 THEN ss[i] ELSE g[i - 1] \o ss[i]]
<1>1. n \in Nat
  OBVIOUS
<1>e. ASSUME NEW k \in 1 .. n PROVE ss[k] \in Seq(S)
  OBVIOUS
<1>2. ASSUME NEW s \in Seq(S), NEW k \in 1 .. n PROVE Joined(s, k) \in Seq(S)
  BY <1>e, JoinIs
<1>3. step \in [Nat \X Seq(S) -> Seq(S)]
  <2> HIDE DEF Joined, n
  <2> QED BY <1>2
<1>4. PICK f : IsFold(f, Seq(S), <<>>, n, step)
  <2> HIDE DEF step, n
  <2>1. <<>> \in Seq(S)
    OBVIOUS
  <2> QED BY <1>1, <1>3, <2>1, FoldExists
<1>5. ASSUME NEW k \in 1 .. n PROVE f[k] = Joined(f[k - 1], k)
  <2> HIDE DEF Joined, n
  <2>1. k \in Nat /\ k - 1 \in 0 .. n
    BY <1>1
  <2>2. f[k - 1] \in Seq(S) /\ f[k] = step[<<k, f[k - 1]>>]
    BY <1>4, <2>1 DEF IsFold
  <2>3. step[<<k, f[k - 1]>>] = Joined(f[k - 1], k)
    BY <2>1, <2>2
  <2> QED BY <2>2, <2>3
<1> HIDE DEF n, step
<1> DEFINE g == [i \in 1 .. n |-> f[i]]
<1>6. g = [i \in 1 .. n |-> IF i = 1 THEN ss[i] ELSE g[i - 1] \o ss[i]]
  <2> DEFINE F(i) == IF i = 1 THEN ss[i] ELSE g[i - 1] \o ss[i]
  <2>1. ASSUME NEW i \in 1 .. n PROVE g[i] = F(i)
    <3>1. CASE i = 1
      <4>1. f[1] = <<>> \o ss[1]
        <5>1. 1 \in 1 .. n /\ 1 - 1 = 0 /\ f[0] = <<>>
          BY <1>1, <1>4, <3>1 DEF IsFold
        <5>2. f[1] = Joined(f[1 - 1], 1)
          BY <1>5, <5>1
        <5> QED BY <5>1, <5>2
      <4>2. ss[1] \in Seq(S)
        BY <1>e, <3>1
      <4>3. f[1] = ss[1]
        BY <4>1, <4>2, ConcatEmptySeq
      <4> QED BY <3>1, <4>3
    <3>2. CASE i # 1
      <4>1. i - 1 \in 1 .. n
        BY <1>1, <3>2
      <4>2. f[i] = f[i - 1] \o ss[i]
        BY <1>5
      <4> QED BY <3>2, <4>1, <4>2
    <3> QED BY <3>1, <3>2
  <2>2. g = [i \in 1 .. n |-> g[i]]
    OBVIOUS
  <2> HIDE DEF F, g
  <2>3. g = [i \in 1 .. n |-> F(i)]
    BY <2>1, <2>2
  <2> QED BY <2>3 DEF F
<1> HIDE DEF g
<1>7. flat = [i \in 1 .. n |-> IF i = 1 THEN ss[i] ELSE flat[i - 1] \o ss[i]]
  BY <1>6
<1>p. ASSUME NEW i \in 1 .. n, i # 1 PROVE flat[i] = flat[i - 1] \o ss[i]
  <2> HIDE DEF flat
  <2> QED BY <1>7, <1>p
<1>8. FlattenSeq(ss) = IF n = 0 THEN ss ELSE flat[n]
  BY DEF FlattenSeq, n
<1> HIDE DEF flat
<1> DEFINE Some(x, k) == \E i \in 1 .. k : x \in Range(ss[i])
           Good(s, k) == s \in Seq(S) /\ \A x : x \in Range(s) <=> Some(x, k)
           P == {k \in 0 .. n : k = 0 \/ Good(flat[k], k)}
<1>9. 0 \in P
  BY <1>1
<1>10. ASSUME NEW k \in 0 .. n - 1, k \in P PROVE k + 1 \in P
  <2>1. k + 1 \in 1 .. n /\ k + 1 - 1 = k /\ k \in Nat /\ k + 1 \in 0 .. n
    BY <1>1
  <2>2. ss[k + 1] \in Seq(S)
    BY <1>e, <2>1
  <2>3. CASE k = 0
    <3>1. flat[1] = ss[1]
      BY <1>7, <2>1, <2>3
    <3>2. Good(ss[1], 1)
      BY <2>2, <2>3
    <3> HIDE DEF Good
    <3> QED BY <2>1, <2>3, <3>1, <3>2
  <2>4. CASE k # 0
    <3> DEFINE s == flat[k]
               r == ss[k + 1]
               t == s \o r
    <3>1. flat[k + 1] = t
      <4>1. k + 1 # 1
        BY <2>1, <2>4
      <4> DEFINE i == k + 1
      <4>2. i \in 1 .. n /\ i # 1 /\ i - 1 = k
        BY <2>1, <4>1
      <4> HIDE DEF i
      <4>3. flat[i] = flat[i - 1] \o ss[i]
        BY <1>p, <4>2
      <4> QED BY <4>2, <4>3 DEF i
    <3>2. Good(s, k)
      BY <1>10, <2>4
    <3>3. r \in Seq(S)
      BY <2>2
    <3> HIDE DEF s, r
    <3>4. t \in Seq(S) /\ \A x : x \in Range(t) <=> x \in Range(s) \/ x \in Range(r)
      BY <3>2, <3>3, JoinIs
    <3>5. ASSUME NEW x PROVE Some(x, k + 1) <=> Some(x, k) \/ x \in Range(r)
      <4>1. \A j : j \in 1 .. k + 1 <=> j \in 1 .. k \/ j = k + 1
        BY <2>1
      <4> QED BY <4>1 DEF r
    <3> HIDE DEF Some, t
    <3>6. Good(t, k + 1)
      BY <3>2, <3>4, <3>5
    <3> HIDE DEF Good
    <3> QED BY <2>1, <3>1, <3>6
  <2> QED BY <2>3, <2>4
<1>11. n \in P
  <2> HIDE DEF P
  <2>1. \A k \in 0 .. n : k \in P
    BY <1>1, <1>9, <1>10, Induct
  <2> QED BY <1>1, <2>1
<1>12. CASE n = 0
  <2>1. ss = <<>> /\ FlattenSeq(ss) = <<>>
    BY <1>8, <1>12 DEF n
  <2>2. Range(<<>>) = {} /\ <<>> \in Seq(S)
    BY DEF Range
  <2>3. 1 .. Len(ss) = {}
    BY <1>12 DEF n
  <2> QED BY <2>1, <2>2, <2>3
<1>13. CASE n # 0
  <2>1. Good(flat[n], n)
    BY <1>11, <1>13
  <2> QED BY <1>8, <1>13, <2>1 DEF n
<1> QED BY <1>12, <1>13

\* A finite set has an enumeration.
LEMMA SetToSeqIs ==
  ASSUME NEW S, IsFiniteSet(S)
  PROVE  SetToSeq(S) \in Seq(S) /\ Range(SetToSeq(S)) = S
<1> DEFINE n == Cardinality(S)
<1>1. n \in Nat /\ ExistsBijection(1 .. n, S)
  BY FS_CardinalityType
<1>2. PICK b \in Bijection(1 .. n, S) : TRUE
  BY <1>1 DEF ExistsBijection
<1>3. b \in [1 .. n -> S] /\ IsInjective(b)
  BY <1>2 DEF Bijection, Injection, IsInjective
<1> DEFINE s == SetToSeq(S)
<1>4. s = CHOOSE f \in [1 .. n -> S] : IsInjective(f)
  BY DEF SetToSeq
<1> HIDE DEF s, n
<1>5. s \in [1 .. n -> S] /\ IsInjective(s)
  BY <1>3, <1>4
<1>6. s \in Injection(1 .. n, S)
  BY <1>5 DEF Injection
<1>7. Cardinality(1 .. n) = Cardinality(S)
  BY <1>1, FS_Interval DEF n
<1>8. s \in Surjection(1 .. n, S)
  BY <1>6, <1>7, FS_Injection
<1> QED BY <1>1, <1>5, <1>8 DEF Surjection, Range, s

\* An order of a finite set holds the members of the set.
LEMMA OrderIs ==
  ASSUME NEW S, IsFiniteSet(S), NEW s \in SetToSeqs(S)
  PROVE  s \in Seq(S) /\ Range(s) = S
<1> DEFINE n == Cardinality(S)
<1>1. n \in Nat
  BY FS_CardinalityType
<1>2. s \in [1 .. n -> S] /\ \A i, j \in 1 .. n : i # j => s[i] # s[j]
  BY DEF SetToSeqs
<1>3. s \in Injection(1 .. n, S)
  BY <1>2 DEF Injection, IsInjective
<1>4. Cardinality(1 .. n) = Cardinality(S)
  BY <1>1, FS_Interval
<1>5. s \in Surjection(1 .. n, S)
  BY <1>3, <1>4, FS_Injection
<1> QED BY <1>1, <1>2, <1>5 DEF Surjection, Range
------------------------------------------------------------------------------
\* What the router is in the middle of, one record set per handler.
ConsumeWork == [op : {"consume"}, id : Slot, requests : Seq(Request), count : Nat]
ConnectWork == [op : {"connect"}, link : Link]
DisconnectWork ==
  [op : {"disconnect"}, id : Slot, reason : BOOLEAN, link : Link \cup {NoLink}]
PacketsWork ==
  [op : {"packets"}, id : Slot, packets : Seq(Packet), force_ack : BOOLEAN,
   new_data : BOOLEAN, broken : BOOLEAN, disconnect : BOOLEAN, reason : BOOLEAN]
NotifyWork ==
  [op : {"notify"}, id : Slot, new_data : BOOLEAN, disconnect : BOOLEAN, reason : BOOLEAN]

OfLive == {"consume", "disconnect", "packets", "notify"}
WorkOK ==
  /\ work \in {Idle} \cup ConsumeWork \cup ConnectWork \cup DisconnectWork
               \cup PacketsWork \cup NotifyWork
  /\ work.op \in OfLive => work.id \in Slot /\ Live(work.id)

\* TypeOK by parts, each with what its actions need besides.
ChanOK == chan \in Seq(Event) /\ Len(chan) <= ChannelCapacity
ConnsOK ==
  /\ conns \in [Slot -> Connection \cup {Vacant}]
  /\ \A id \in Slot : Live(id) => Len(conns[id].inflight) <= MaxInflight
VacantOK ==
  /\ vacant \in Seq(Slot) /\ IsInjective(vacant)
  /\ \A id \in Slot : id \in Range(vacant) <=> ~Live(id)

\* The id of a client is that of its live connection.
MapOK ==
  /\ connection_map \in [Client -> Slot \cup {NoId}]
  /\ \A c \in Client : connection_map[c] # NoId =>
       Live(connection_map[c]) /\ ClientOf[conns[connection_map[c]].link] = c
QueueOK == readyqueue \in Seq(Slot)
DataOK ==
  /\ subscription_map \in [Filter -> SUBSET Slot]
  /\ waiters \in [Filter -> Seq(Waiter)]
  /\ notifications \in Seq(Waiter)
  /\ log \in [Filter -> Nat]
Session == [saved : {TRUE}, subs : SUBSET Filter, requests : Seq(Request)]
GraveOK == graveyard \in [Client -> {NoSession} \cup Session]
PhaseOK == phase \in [at : {"first", "recv", "drain", "sweep", "panicked"}, n : Nat]
LinksOK ==
  /\ at \in [Link -> {"new", "connecting", "serving", "notifying", "waking", "gone", "lost"}]
  /\ cid \in [Link -> Slot]
  /\ unacked \in [Link -> Nat] /\ sent \in [Link -> Nat]

\* A link whose CONNACK is signalled finds it in the buffer.
BufsOK ==
  /\ ibuf \in [Link -> Seq(Packet)] /\ obuf \in [Link -> Seq(Notification)]
  /\ sig \in [Link -> 0 .. BufferCapacity]
  /\ \A l \in Link : at[l] \in {"new", "connecting"} /\ sig[l] > 0 => obuf[l] # <<>>

TypeInv ==
  /\ ChanOK /\ ConnsOK /\ VacantOK /\ MapOK /\ QueueOK /\ DataOK
  /\ GraveOK /\ PhaseOK /\ WorkOK /\ LinksOK /\ BufsOK

\* No request, and no message in flight, lies beyond the end of its log.
Within(q) == q.cursor <= log[q.filter]
WithinConn(c) ==
  /\ \A q \in Range(c.requests) : Within(q)
  /\ \A s \in Range(c.inflight) : Within(s)
ConnsWithin == \A id \in Slot : Live(id) => WithinConn(conns[id])
WaitersWithin == \A f \in Filter : \A w \in Range(waiters[f]) : Within(w.request)
NoticesWithin == \A w \in Range(notifications) : Within(w.request)
WorkWithin == InConsume => \A q \in Range(work.requests) : Within(q)
SavedWithin ==
  \A c \in Client : graveyard[c].saved => \A q \in Range(graveyard[c].requests) : Within(q)
NotAhead == ConnsWithin /\ WaitersWithin /\ NoticesWithin /\ WorkWithin /\ SavedWithin

\* The parts together are the type invariant the runs check.
LEMMA TypeInvIsType ==
  ASSUME TypeInv
  PROVE  TypeOK
<1>1. \A id \in LiveIds : Len(conns[id].inflight) <= MaxInflight
  BY DEF TypeInv, ConnsOK, LiveIds
<1>2. Range(vacant) = Slot \ LiveIds
  <2>1. Range(vacant) \subseteq Slot
    BY RangeOfSeq DEF TypeInv, VacantOK
  <2>2. \A id \in Slot : id \in LiveIds <=> Live(id)
    BY DEF LiveIds
  <2>3. \A id \in Slot : id \in Range(vacant) <=> ~Live(id)
    BY DEF TypeInv, VacantOK
  <2> HIDE DEF Live
  <2>4. LiveIds \subseteq Slot
    BY DEF LiveIds
  <2> QED BY <2>1, <2>2, <2>3, <2>4
<1> QED BY <1>1, <1>2 DEF TypeInv, TypeOK, ChanOK, ConnsOK, VacantOK, MapOK, QueueOK, DataOK,
       GraveOK, Session, PhaseOK, LinksOK, BufsOK

\* What a work record holds, by its handler.
LEMMA WorkIs ==
  ASSUME WorkOK
  PROVE  /\ work.op = "consume" => work \in ConsumeWork
         /\ work.op = "connect" => work \in ConnectWork
         /\ work.op = "disconnect" => work \in DisconnectWork
         /\ work.op = "packets" => work \in PacketsWork
         /\ work.op = "notify" => work \in NotifyWork
BY DEF WorkOK, Idle, ConsumeWork, ConnectWork, DisconnectWork, PacketsWork, NotifyWork

\* A live connection has the fields of one.
LEMMA LiveIs ==
  ASSUME ConnsOK, NEW id \in Slot
  PROVE  Live(id) <=> conns[id] \in Connection
<1>1. \A c \in Connection : c.status # "Vacant"
  BY DEF Connection
<1>2. Vacant \notin Connection
  BY <1>1 DEF Vacant
<1> QED BY <1>2 DEF ConnsOK, Live

\* No connection comes, goes or changes its link.
SameLinks ==
  \A i \in Slot : /\ Live(i)' <=> Live(i)
                  /\ Live(i) => conns'[i].link = conns[i].link

\* A step that changes one connection, and not its link.
LEMMA ConnKept ==
  ASSUME ConnsOK, NEW id \in Slot, Live(id), NEW c \in Connection,
         Len(c.inflight) <= MaxInflight, c.link = conns[id].link,
         conns' = [conns EXCEPT ![id] = c]
  PROVE  ConnsOK' /\ SameLinks
<1>1. c # Vacant
  BY DEF Connection, Vacant
<1>2. conns' \in [Slot -> Connection \cup {Vacant}]
  BY DEF ConnsOK
<1>3. \A i \in Slot : conns'[i] = IF i = id THEN c ELSE conns[i]
  BY DEF ConnsOK
<1>4. ConnsOK'
  BY <1>2, <1>3 DEF ConnsOK, Live
<1> QED BY <1>1, <1>3, <1>4 DEF SameLinks, Live

\* Rescheduling a connection queues its id at most; slab and queue keep their
\* types.
LEMMA RescheduleKept ==
  ASSUME ConnsOK, QueueOK, NEW id \in Slot, Live(id), NEW c \in Connection,
         Len(c.inflight) <= MaxInflight, c.link = conns[id].link,
         NEW reason, Reschedule(id, c, reason)
  PROVE  ConnsOK' /\ SameLinks /\ QueueOK'
<1> DEFINE d == IF Wakes(reason, c.status) THEN [c EXCEPT !.status = "Ready"] ELSE c
<1>1. d \in Connection /\ d.link = c.link /\ d.inflight = c.inflight
  BY DEF Connection
<1>2. conns' = [conns EXCEPT ![id] = d]
  BY DEF Reschedule
<1>3. QueueOK'
  BY DEF Reschedule, QueueOK
<1> HIDE DEF d
<1> QED BY <1>1, <1>2, <1>3, ConnKept

\* So they do when a connection is paused.
LEMMA PauseKept ==
  ASSUME ConnsOK, QueueOK, NEW id \in Slot, Live(id), NEW c \in Connection,
         Len(c.inflight) <= MaxInflight, c.link = conns[id].link,
         NEW reason \in {"Caughtup", "InflightFull", "Busy"}, Pause(id, c, reason)
  PROVE  ConnsOK' /\ SameLinks /\ QueueOK'
<1> DEFINE d == [c EXCEPT !.status = reason]
<1>1. d \in Connection /\ d.link = c.link /\ d.inflight = c.inflight
  BY DEF Connection
<1>2. conns' = [conns EXCEPT ![id] = d]
  BY DEF Pause
<1>3. QueueOK'
  BY DEF Pause, QueueOK, Front
<1> HIDE DEF d
<1> QED BY <1>1, <1>2, <1>3, ConnKept

\* What depends on the connections only by their links.
LEMMA LinksKept ==
  ASSUME TypeInv, SameLinks, UNCHANGED <<vacant, connection_map>>
  PROVE  VacantOK' /\ MapOK'
<1>1. VacantOK'
  <2> HIDE DEF Live
  <2> QED BY DEF TypeInv, SameLinks, VacantOK
<1>2. MapOK'
  <2> SUFFICES ASSUME NEW c \in Client, connection_map[c] # NoId
               PROVE  Live(connection_map[c])' /\ ClientOf[conns'[connection_map[c]].link] = c
    BY DEF TypeInv, MapOK
  <2>1. /\ connection_map[c] \in Slot /\ Live(connection_map[c])
        /\ ClientOf[conns[connection_map[c]].link] = c
    BY DEF TypeInv, MapOK
  <2> HIDE DEF Live
  <2> QED BY <2>1 DEF SameLinks
<1> QED BY <1>1, <1>2

\* A send finds room in the channel, so its bound is kept.
LEMMA SendKept ==
  ASSUME ChanOK, NEW id \in Slot, NEW l \in Link,
         NEW event \in {"Connect", "DeviceData", "Disconnect", "Ready"}, Send(id, event, l)
  PROVE  ChanOK'
<1>1. [id |-> id, event |-> event, link |-> l] \in Event
  BY DEF Event
<1> QED BY <1>1, RouterAssumption DEF Send, ChanOK

\* What only the router changes.
routervars ==
  <<slabvars, readyqueue, datavars, phase, work>>

\* What a link leaves alone keeps its type.
LEMMA RouterStays ==
  ASSUME TypeInv, UNCHANGED routervars
  PROVE  /\ ConnsOK' /\ VacantOK' /\ MapOK' /\ QueueOK' /\ DataOK'
         /\ GraveOK' /\ PhaseOK' /\ WorkOK'
<1>1. ConnsOK' /\ VacantOK' /\ MapOK' /\ QueueOK'
  BY DEF TypeInv, routervars, slabvars, ConnsOK, VacantOK, MapOK, QueueOK, Live
<1>2. DataOK' /\ GraveOK' /\ PhaseOK'
  BY DEF TypeInv, routervars, datavars, DataOK, GraveOK, PhaseOK
<1>3. WorkOK'
  BY DEF TypeInv, routervars, slabvars, WorkOK, Live
<1> QED BY <1>1, <1>2, <1>3

LinkStep(l) ==
  \/ SendConnect(l) \/ ConnAckLost(l) \/ NetError(l) \/ Serve(l)
  \/ \E p \in Sends[l] : NetRead(l, p)

\* A link changes nothing of what only the router changes.
LEMMA LinkStepFrame ==
  ASSUME NEW l \in Link, LinkStep(l)
  PROVE  UNCHANGED routervars
BY DEF LinkStep, SendConnect, ConnAckLost, NetError, Serve, Opened, RouterDrop, Exchange, Wake,
       NotifyRouter, NetRead, routervars

\* A link that takes its CONNACK takes a signal and a notification that are
\* there.
LEMMA TakeConnAckKept ==
  ASSUME TypeInv, NEW l \in Link, TakeConnAck(l), NEW s \in {"serving", "lost"},
         at' = [at EXCEPT ![l] = s], UNCHANGED <<ibuf, cid, unacked, sent>>
  PROVE  LinksOK' /\ BufsOK'
<1>1. obuf[l] # <<>> /\ obuf[l] \in Seq(Notification)
  BY DEF TakeConnAck, TypeInv, BufsOK
<1>2. Tail(obuf[l]) \in Seq(Notification)
  BY <1>1
<1>3. sig[l] - 1 \in 0 .. BufferCapacity
  BY RouterAssumption DEF TakeConnAck, TypeInv, BufsOK
<1>4. LinksOK'
  BY DEF TypeInv, LinksOK
<1>5. obuf' \in [Link -> Seq(Notification)] /\ sig' \in [Link -> 0 .. BufferCapacity]
  BY <1>2, <1>3 DEF TypeInv, BufsOK, TakeConnAck
<1>6. \A k \in Link : at'[k] \in {"new", "connecting"} /\ sig'[k] > 0 => obuf'[k] # <<>>
  <2> SUFFICES ASSUME NEW k \in Link, at'[k] \in {"new", "connecting"}, sig'[k] > 0
               PROVE  obuf'[k] # <<>>
    OBVIOUS
  <2>1. k # l
    BY DEF TypeInv, LinksOK
  <2> QED BY <2>1 DEF TypeInv, BufsOK, LinksOK, TakeConnAck
<1> QED BY <1>4, <1>5, <1>6 DEF TypeInv, BufsOK

\* Every step of a link keeps the types.
LEMMA LinkStepType ==
  ASSUME TypeInv, NEW l \in Link, LinkStep(l)
  PROVE  TypeInv'
<1>1. SUFFICES ChanOK' /\ LinksOK' /\ BufsOK'
  BY LinkStepFrame, RouterStays DEF TypeInv
<1>2. 0 \in Slot /\ cid[l] \in Slot
  BY RouterAssumption DEF TypeInv, LinksOK, Slot
<1>3. CASE SendConnect(l)
  <2>1. ChanOK'
    BY <1>2, <1>3, SendKept DEF SendConnect, TypeInv
  <2>2. LinksOK' /\ BufsOK'
    BY <1>3 DEF SendConnect, TypeInv, LinksOK, BufsOK, bufvars
  <2> QED BY <2>1, <2>2
<1>4. CASE ConnAckLost(l)
  <2>1. ChanOK'
    BY <1>4 DEF ConnAckLost, TypeInv, ChanOK
  <2>2. LinksOK' /\ BufsOK'
    BY <1>4, TakeConnAckKept DEF ConnAckLost
  <2> QED BY <2>1, <2>2
<1>5. CASE NetError(l)
  <2>1. ChanOK'
    BY <1>2, <1>5, SendKept DEF NetError, TypeInv
  <2>2. LinksOK' /\ BufsOK'
    BY <1>5 DEF NetError, TypeInv, LinksOK, BufsOK, bufvars
  <2> QED BY <2>1, <2>2
<1>6. CASE Opened(l)
  <2>1. ChanOK'
    BY <1>6 DEF Opened, TypeInv, ChanOK
  <2>2. LinksOK' /\ BufsOK'
    BY <1>6, TakeConnAckKept DEF Opened
  <2> QED BY <2>1, <2>2
<1>7. CASE RouterDrop(l)
  BY <1>7 DEF RouterDrop, TypeInv, ChanOK, LinksOK, BufsOK, bufvars
<1>8. CASE Exchange(l)
  <2>1. ChanOK'
    BY <1>8 DEF Exchange, TypeInv, ChanOK
  <2> DEFINE n == Cardinality({i \in 1 .. Len(obuf[l]) : obuf[l][i] = "Forward1"})
  <2>2. n \in Nat
    <3>1. Len(obuf[l]) \in Nat
      BY DEF TypeInv, BufsOK
    <3>2. IsFiniteSet(1 .. Len(obuf[l]))
      BY <3>1, FS_Interval
    <3>3. IsFiniteSet({i \in 1 .. Len(obuf[l]) : obuf[l][i] = "Forward1"})
      BY <3>2, FS_Subset
    <3> QED BY <3>3, FS_CardinalityType
  <2>3. unacked' = [unacked EXCEPT ![l] = @ + n]
    BY <1>8 DEF Exchange
  <2> HIDE DEF n
  <2>4. unacked' \in [Link -> Nat]
    BY <2>2, <2>3 DEF TypeInv, LinksOK
  <2>5. at' \in [Link -> {"new", "connecting", "serving", "notifying", "waking", "gone", "lost"}]
    BY <1>8 DEF Exchange, TypeInv, LinksOK
  <2>6. LinksOK'
    BY <1>8, <2>4, <2>5 DEF Exchange, TypeInv, LinksOK
  <2>7. /\ obuf' = [obuf EXCEPT ![l] = <<>>] /\ sig' = [sig EXCEPT ![l] = @ - 1]
        /\ sig[l] > 0 /\ UNCHANGED ibuf
    BY <1>8 DEF Exchange
  <2>8. obuf' \in [Link -> Seq(Notification)] /\ sig' \in [Link -> 0 .. BufferCapacity]
    <3>1. <<>> \in Seq(Notification)
      OBVIOUS
    <3>2. sig[l] - 1 \in 0 .. BufferCapacity
      BY <2>7, RouterAssumption DEF TypeInv, BufsOK
    <3> QED BY <2>7, <3>1, <3>2 DEF TypeInv, BufsOK
  <2>9. \A k \in Link : at'[k] \in {"new", "connecting"} /\ sig'[k] > 0 => obuf'[k] # <<>>
    <3> SUFFICES ASSUME NEW k \in Link, at'[k] \in {"new", "connecting"}, sig'[k] > 0
                 PROVE  obuf'[k] # <<>>
      OBVIOUS
    <3>1. k # l
      BY <1>8 DEF TypeInv, LinksOK, Exchange
    <3>2. at'[k] = at[k] /\ sig'[k] = sig[k] /\ obuf'[k] = obuf[k]
      BY <1>8, <3>1 DEF TypeInv, LinksOK, BufsOK, Exchange
    <3> QED BY <3>2 DEF TypeInv, BufsOK
  <2>10. BufsOK'
    BY <2>7, <2>8, <2>9 DEF TypeInv, BufsOK
  <2> QED BY <2>1, <2>6, <2>10
<1>9. CASE Wake(l)
  <2>1. ChanOK'
    BY <1>2, <1>9, SendKept DEF Wake, TypeInv
  <2>2. LinksOK' /\ BufsOK'
    BY <1>9 DEF Wake, TypeInv, LinksOK, BufsOK, bufvars
  <2> QED BY <2>1, <2>2
<1>10. CASE NotifyRouter(l)
  <2>1. ChanOK'
    BY <1>2, <1>10, SendKept DEF NotifyRouter, TypeInv
  <2>2. LinksOK' /\ BufsOK'
    BY <1>10 DEF NotifyRouter, TypeInv, LinksOK, BufsOK, bufvars
  <2> QED BY <2>1, <2>2
<1>11. ASSUME NEW p \in Sends[l], NetRead(l, p) PROVE ChanOK' /\ LinksOK' /\ BufsOK'
  <2>1. p \in Packet
    BY SendsAssumption
  <2>2. ChanOK'
    BY <1>11 DEF NetRead, TypeInv, ChanOK
  <2>3. LinksOK'
    BY <1>11 DEF NetRead, TypeInv, LinksOK
  <2>4. ibuf' \in [Link -> Seq(Packet)]
    BY <1>11, <2>1 DEF NetRead, TypeInv, BufsOK
  <2>5. BufsOK'
    BY <1>11, <2>4 DEF NetRead, TypeInv, BufsOK, LinksOK
  <2> QED BY <2>2, <2>3, <2>5
<1> QED BY <1>3, <1>4, <1>5, <1>6, <1>7, <1>8, <1>9, <1>10, <1>11 DEF LinkStep, Serve

------------------------------------------------------------------------------
\* A request put back at its first message in flight reads the same filter,
\* from there or from where it was.
LEMMA RewindIs ==
  ASSUME NEW q \in Request, NEW inflight \in Seq([filter : Filter, cursor : Nat])
  PROVE  LET r == Rewind(q, inflight)
         IN  /\ r \in Request /\ r.filter = q.filter
             /\ \/ r = q
                \/ \E s \in Range(inflight) : s.filter = q.filter /\ s.cursor = r.cursor
<1> DEFINE i == SelectInSeq(inflight, LAMBDA s : s.filter = q.filter)
<1>1. i = 0 \/ (i \in 1 .. Len(inflight) /\ inflight[i].filter = q.filter)
  <2> DEFINE I == {j \in 1 .. Len(inflight) : inflight[j].filter = q.filter}
  <2>1. i = IF I # {} THEN Min(I) ELSE 0
    BY DEF SelectInSeq
  <2>2. I \subseteq Nat
    OBVIOUS
  <2>3. CASE I # {}
    <3>1. \E x \in I : \A y \in I : x <= y
      BY <2>2, <2>3, LeastOf
    <3>2. Min(I) \in I
      BY <3>1 DEF Min
    <3> QED BY <2>1, <2>3, <3>2
  <2> QED BY <2>1, <2>3
<1>2. Rewind(q, inflight) = IF i = 0 THEN q ELSE [q EXCEPT !.cursor = inflight[i].cursor]
  BY DEF Rewind
<1> HIDE DEF i
<1>3. CASE i = 0
  BY <1>2, <1>3
<1>4. CASE i \in 1 .. Len(inflight) /\ inflight[i].filter = q.filter
  <2> DEFINE s == inflight[i]
  <2>1. s \in [filter : Filter, cursor : Nat] /\ s.filter = q.filter
    BY <1>4, SeqFacts
  <2>2. s \in Range(inflight)
    BY <1>4, InRange
  <2>3. Rewind(q, inflight) = [q EXCEPT !.cursor = s.cursor]
    BY <1>2, <1>4
  <2> HIDE DEF s
  <2>4. s.cursor \in Nat
    BY <2>1
  <2> QED BY <2>1, <2>2, <2>3, <2>4 DEF Request
<1> QED BY <1>1, <1>3, <1>4

\* handle_disconnection saves the requests of the tracker and the parked ones.
LEMMA SavedIs ==
  ASSUME DataOK, NEW id \in Slot, conns[id] \in Connection
  PROVE  /\ SavedRequests(id) \in Seq(Request)
         /\ \A q : q \in Range(SavedRequests(id)) <=>
              \/ q \in Range(conns[id].requests)
              \/ \E f \in Filter : q \in Range(RequestsOf(waiters[f], id))
<1> DEFINE fs == SetToSeq(Filter)
           ss == [i \in 1 .. Len(fs) |-> RequestsOf(waiters[fs[i]], id)]
           rs == conns[id].requests
<1>1. fs \in Seq(Filter) /\ Range(fs) = Filter
  BY RouterAssumption, SetToSeqIs
<1>2. rs \in Seq(Request)
  BY DEF Connection
<1> HIDE DEF fs
<1>3. Len(fs) \in Nat
  BY <1>1
<1>4. ASSUME NEW i \in 1 .. Len(fs) PROVE ss[i] \in Seq(Request)
  <2>1. fs[i] \in Filter
    BY <1>1
  <2>2. waiters[fs[i]] \in Seq(Waiter)
    BY <2>1 DEF DataOK
  <2> QED BY <2>2, RequestsOfIs
<1>5. ss \in Seq(Seq(Request)) /\ Len(ss) = Len(fs)
  BY <1>3, <1>4
<1>6. SavedRequests(id) = rs \o FlattenSeq(ss)
  BY DEF SavedRequests, fs
<1>7. ASSUME NEW q
      PROVE  (\E i \in 1 .. Len(ss) : q \in Range(ss[i]))
               <=> \E f \in Filter : q \in Range(RequestsOf(waiters[f], id))
  <2>1. ASSUME NEW i \in 1 .. Len(ss), q \in Range(ss[i])
        PROVE  \E f \in Filter : q \in Range(RequestsOf(waiters[f], id))
    <3>1. fs[i] \in Filter /\ ss[i] = RequestsOf(waiters[fs[i]], id)
      BY <1>1, <1>5
    <3> QED BY <2>1, <3>1
  <2>2. ASSUME NEW f \in Filter, q \in Range(RequestsOf(waiters[f], id))
        PROVE  \E i \in 1 .. Len(ss) : q \in Range(ss[i])
    <3>1. PICK i \in 1 .. Len(fs) : fs[i] = f
      BY <1>1, InRange
    <3>2. ss[i] = RequestsOf(waiters[f], id)
      BY <3>1
    <3> QED BY <1>5, <2>2, <3>2
  <2> QED BY <2>1, <2>2
<1> HIDE DEF ss, rs
<1>8. /\ FlattenSeq(ss) \in Seq(Request)
      /\ \A q : q \in Range(FlattenSeq(ss)) <=> \E i \in 1 .. Len(ss) : q \in Range(ss[i])
  BY <1>5, FlattenIs
<1>9. /\ rs \o FlattenSeq(ss) \in Seq(Request)
      /\ \A q : q \in Range(rs \o FlattenSeq(ss)) <=>
                  q \in Range(rs) \/ q \in Range(FlattenSeq(ss))
  BY <1>2, <1>8, JoinIs
<1> QED BY <1>6, <1>7, <1>8, <1>9 DEF rs

\* append_to_commitlog takes the waiters of the logs it appends to, all of
\* them.
LEMMA TakenIs ==
  ASSUME DataOK, NEW filters \in SUBSET Filter, NEW order \in SetToSeqs(filters)
  PROVE  LET t == FlattenSeq([i \in 1 .. Len(order) |-> waiters[order[i]]])
         IN  /\ t \in Seq(Waiter)
             /\ \A w : w \in Range(t) <=> \E f \in filters : w \in Range(waiters[f])
<1> DEFINE ss == [i \in 1 .. Len(order) |-> waiters[order[i]]]
<1>1. order \in Seq(filters) /\ Range(order) = filters
  <2>1. IsFiniteSet(filters)
    BY RouterAssumption, FS_Subset
  <2> QED BY <2>1, OrderIs
<1>2. Len(order) \in Nat
  BY <1>1
<1>3. ASSUME NEW i \in 1 .. Len(order)
      PROVE  order[i] \in filters /\ ss[i] = waiters[order[i]] /\ ss[i] \in Seq(Waiter)
  <2>1. order[i] \in filters /\ order[i] \in Filter
    BY <1>1
  <2> QED BY <2>1 DEF DataOK
<1>4. ss \in Seq(Seq(Waiter)) /\ Len(ss) = Len(order)
  BY <1>2, <1>3
<1>5. ASSUME NEW w
      PROVE  (\E i \in 1 .. Len(ss) : w \in Range(ss[i]))
               <=> \E f \in filters : w \in Range(waiters[f])
  <2>1. ASSUME NEW i \in 1 .. Len(ss), w \in Range(ss[i])
        PROVE  \E f \in filters : w \in Range(waiters[f])
    BY <1>3, <1>4, <2>1
  <2>2. ASSUME NEW f \in filters, w \in Range(waiters[f])
        PROVE  \E i \in 1 .. Len(ss) : w \in Range(ss[i])
    <3>1. PICK i \in 1 .. Len(order) : order[i] = f
      BY <1>1, InRange
    <3>2. ss[i] = waiters[f]
      BY <3>1
    <3> QED BY <1>4, <2>2, <3>2
  <2> QED BY <2>1, <2>2
<1> HIDE DEF ss
<1>6. /\ FlattenSeq(ss) \in Seq(Waiter)
      /\ \A w : w \in Range(FlattenSeq(ss)) <=> \E i \in 1 .. Len(ss) : w \in Range(ss[i])
  BY <1>4, FlattenIs
<1>7. /\ FlattenSeq(ss) \in Seq(Waiter)
      /\ \A w : w \in Range(FlattenSeq(ss)) <=> \E f \in filters : w \in Range(waiters[f])
  BY <1>5, <1>6
<1> QED BY <1>7 DEF ss

------------------------------------------------------------------------------
\* The parts an action leaves alone.
LEMMA PartsStay ==
  ASSUME TypeInv
  PROVE  /\ UNCHANGED chan => ChanOK'
         /\ UNCHANGED conns => ConnsOK' /\ SameLinks
         /\ UNCHANGED readyqueue => QueueOK'
         /\ UNCHANGED <<subscription_map, waiters, notifications, log>> => DataOK'
         /\ UNCHANGED graveyard => GraveOK'
         /\ UNCHANGED phase => PhaseOK'
         /\ UNCHANGED linkvars => LinksOK'
         /\ UNCHANGED <<bufvars, at>> => BufsOK'
<1>1. UNCHANGED conns => ConnsOK' /\ SameLinks
  BY DEF TypeInv, ConnsOK, SameLinks, Live
<1> QED BY <1>1 DEF TypeInv, ChanOK, QueueOK, DataOK, GraveOK, PhaseOK, LinksOK, BufsOK,
       linkvars, bufvars

\* A step that ends with the router where it may be.
LEMMA IdleIs ==
  ASSUME work' = Idle
  PROVE  WorkOK'
BY DEF WorkOK, Idle, OfLive

\* A handler goes on with a connection that is live.
LEMMA WorkKept ==
  ASSUME SameLinks, NEW id \in Slot, Live(id), work'.id = id,
         \/ work' \in ConsumeWork \/ work' \in DisconnectWork
         \/ work' \in PacketsWork \/ work' \in NotifyWork
  PROVE  WorkOK'
<1>1. Live(id)'
  BY DEF SameLinks
<1> QED BY <1>1 DEF WorkOK, Live

\* A connect names the link it is for.
LEMMA ConnectIs ==
  ASSUME NEW l \in Link, work' = [op |-> "connect", link |-> l]
  PROVE  WorkOK'
<1>1. work' \in ConnectWork
  BY DEF ConnectWork
<1>2. work'.op \notin OfLive
  BY DEF OfLive
<1> QED BY <1>1, <1>2 DEF WorkOK

\* The phase after an event, or after a consume, is a phase.
LEMMA AfterIs ==
  ASSUME PhaseOK, phase' = After
  PROVE  PhaseOK'
BY DEF PhaseOK, After

\* A signal raises the number of those pending, up to the channel's bound.
LEMMA SignalIs ==
  ASSUME BufsOK, NEW l \in Link, Signal(l)
  PROVE  /\ sig' \in [Link -> 0 .. BufferCapacity]
         /\ \A k \in Link : k # l => sig'[k] = sig[k]
         /\ sig'[l] > 0 /\ sig'[l] >= sig[l]
         /\ sig[l] > 0 => sig'[l] > 1
BY RouterAssumption DEF BufsOK, Signal

\* The router pushes to one buffer, and signals only what it pushed.
LEMMA PushKept ==
  ASSUME BufsOK, LinksOK, NEW l \in Link, NEW out \in Seq(Notification),
         obuf' = [obuf EXCEPT ![l] = out], out = <<>> => obuf[l] = <<>>,
         UNCHANGED sig \/ (Signal(l) /\ out # <<>>), UNCHANGED <<at, ibuf>>
  PROVE  BufsOK'
<1>1. obuf' \in [Link -> Seq(Notification)]
  BY DEF BufsOK
<1>2. sig' \in [Link -> 0 .. BufferCapacity] /\ \A k \in Link : k # l => sig'[k] = sig[k]
  BY SignalIs DEF BufsOK
<1>3. ASSUME NEW k \in Link, at[k] \in {"new", "connecting"}, sig'[k] > 0 PROVE obuf'[k] # <<>>
  <2>1. CASE k # l
    BY <1>2, <1>3, <2>1 DEF BufsOK
  <2>2. CASE k = l
    BY <1>3, <2>2 DEF BufsOK
  <2> QED BY <2>1, <2>2
<1> QED BY <1>1, <1>2, <1>3 DEF BufsOK

\* A poll that returns no connection keeps the types.
LEMMA ConsumeNoneType ==
  ASSUME TypeInv, ConsumeNone
  PROVE  TypeInv' /\ SameLinks
<1>1. QueueOK'
  BY DEF ConsumeNone, TypeInv, QueueOK
<1>2. PhaseOK'
  BY AfterIs DEF ConsumeNone, TypeInv, PhaseOK
<1>3. ConnsOK' /\ SameLinks /\ VacantOK' /\ MapOK'
  BY PartsStay, LinksKept DEF ConsumeNone, slabvars
<1>4. WorkOK'
  BY DEF ConsumeNone, TypeInv, WorkOK, Live, slabvars
<1> QED BY <1>1, <1>2, <1>3, <1>4, PartsStay
        DEF ConsumeNone, TypeInv, datavars, linkvars, bufvars

\* So does the start of a consume, which pushes acks to the link it belongs to.
LEMMA ConsumeBeginType ==
  ASSUME TypeInv, ConsumeBegin
  PROVE  TypeInv' /\ SameLinks
<1> DEFINE id == Head(readyqueue)
           c  == conns[id]
           d  == [c EXCEPT !.requests = <<>>, !.acks = <<>>]
           l  == c.link
<1>1. readyqueue # <<>> /\ id \in Slot /\ Live(id) /\ readyqueue \in Seq(Slot)
  BY DEF ConsumeBegin, HeadLive, TypeInv, QueueOK
<1>2. c \in Connection /\ Len(c.inflight) <= MaxInflight
  BY <1>1, LiveIs DEF TypeInv, ConnsOK
<1>3. d \in Connection /\ d.link = c.link /\ d.inflight = c.inflight
  <2>1. <<>> \in Seq(Request) /\ <<>> \in Seq({"ConnAck", "DeviceAck"})
    OBVIOUS
  <2> QED BY <1>2, <2>1 DEF Connection
<1>4. /\ readyqueue' = Append(Tail(readyqueue), id)
      /\ conns' = [conns EXCEPT ![id] = d]
      /\ work' = [op |-> "consume", id |-> id, requests |-> c.requests, count |-> 0]
      /\ IF c.acks = <<>> THEN UNCHANGED <<obuf, sig>>
         ELSE obuf' = [obuf EXCEPT ![l] = @ \o c.acks] /\ Signal(l)
      /\ cid' = IF Contains(c.acks, "ConnAck") THEN [cid EXCEPT ![l] = id] ELSE cid
      /\ phase' = After
      /\ UNCHANGED <<chan, vacant, connection_map, datavars, at, unacked, sent, ibuf>>
  BY DEF ConsumeBegin
<1>5. l \in Link /\ c.acks \in Seq({"ConnAck", "DeviceAck"}) /\ c.requests \in Seq(Request)
  BY <1>2 DEF Connection
<1> HIDE DEF d, l, id
<1>6. ConnsOK' /\ SameLinks
  BY <1>1, <1>2, <1>3, <1>4, ConnKept DEF TypeInv
<1>7. QueueOK'
  BY <1>1, <1>4 DEF QueueOK
<1>8. WorkOK'
  <2>1. work' \in ConsumeWork /\ work'.id = id
    BY <1>1, <1>4, <1>5 DEF ConsumeWork
  <2> QED BY <1>1, <1>6, <2>1, WorkKept
<1>9. LinksOK'
  BY <1>1, <1>4, <1>5 DEF TypeInv, LinksOK
<1>10. BufsOK'
  <2>1. CASE c.acks = <<>>
    BY <1>4, <2>1, PartsStay DEF bufvars
  <2>2. CASE c.acks # <<>>
    <3> DEFINE out == obuf[l] \o c.acks
    <3>1. obuf[l] \in Seq(Notification) /\ c.acks \in Seq(Notification)
      BY <1>5 DEF TypeInv, BufsOK, Notification
    <3>2. out \in Seq(Notification) /\ out # <<>>
      BY <2>2, <3>1
    <3>3. obuf' = [obuf EXCEPT ![l] = out]
      BY <1>4, <2>2
    <3> HIDE DEF out
    <3> QED BY <1>4, <1>5, <2>2, <3>2, <3>3, PushKept DEF TypeInv
  <2> QED BY <2>1, <2>2
<1>11. VacantOK' /\ MapOK' /\ DataOK' /\ GraveOK' /\ ChanOK' /\ PhaseOK'
  BY <1>4, <1>6, PartsStay, LinksKept, AfterIs DEF datavars, TypeInv
<1> QED BY <1>6, <1>7, <1>8, <1>9, <1>10, <1>11 DEF TypeInv

\* So do the ends of the two loops of run_inner.
LEMMA PhaseStepType ==
  ASSUME TypeInv, DrainEnd \/ SweepEnd
  PROVE  TypeInv' /\ SameLinks
<1>1. PhaseOK'
  BY DEF DrainEnd, SweepEnd, TypeInv, PhaseOK
<1>2. ConnsOK' /\ SameLinks /\ VacantOK' /\ MapOK'
  BY PartsStay, LinksKept DEF DrainEnd, SweepEnd, slabvars
<1>3. WorkOK'
  BY DEF DrainEnd, SweepEnd, TypeInv, WorkOK, Live, slabvars
<1> QED BY <1>1, <1>2, <1>3, PartsStay
        DEF DrainEnd, SweepEnd, TypeInv, datavars, linkvars, bufvars

\* The router consumes for a live connection.
LEMMA ConsumeIs ==
  ASSUME TypeInv, InConsume
  PROVE  /\ work \in ConsumeWork /\ work.id \in Slot /\ Live(work.id)
         /\ Me \in Connection /\ Len(Me.inflight) <= MaxInflight
<1>1. work \in ConsumeWork /\ work.id \in Slot /\ Live(work.id)
  BY WorkIs DEF TypeInv, InConsume, WorkOK, OfLive
<1> QED BY <1>1, LiveIs DEF TypeInv, ConnsOK, Me

\* A consume that has caught up ...
LEMMA NoneLeftType ==
  ASSUME TypeInv, NoneLeft
  PROVE  TypeInv' /\ SameLinks
<1>1. work.id \in Slot /\ Live(work.id) /\ Me \in Connection /\ Len(Me.inflight) <= MaxInflight
  BY ConsumeIs DEF NoneLeft
<1>2. ConnsOK' /\ SameLinks /\ QueueOK'
  BY <1>1, PauseKept DEF NoneLeft, TypeInv, Me
<1>3. WorkOK'
  BY IdleIs DEF NoneLeft
<1> QED BY <1>2, <1>3, PartsStay, LinksKept DEF NoneLeft, TypeInv, datavars, linkvars, bufvars

\* ... one whose loop ran its course ...
LEMMA IterationsDoneType ==
  ASSUME TypeInv, IterationsDone
  PROVE  TypeInv' /\ SameLinks
<1> DEFINE d == [Me EXCEPT !.requests = @ \o work.requests]
<1>1. /\ work.id \in Slot /\ Live(work.id) /\ Me \in Connection /\ Len(Me.inflight) <= MaxInflight
      /\ work \in ConsumeWork
  BY ConsumeIs DEF IterationsDone
<1>2. work.requests \in Seq(Request) /\ Me.requests \in Seq(Request)
  BY <1>1 DEF ConsumeWork, Connection
<1>3. Me.requests \o work.requests \in Seq(Request)
  BY <1>2
<1>4. d \in Connection /\ d.link = Me.link /\ d.inflight = Me.inflight
  BY <1>1, <1>3 DEF Connection
<1>5. conns' = [conns EXCEPT ![work.id] = d]
  BY DEF IterationsDone
<1> HIDE DEF d
<1>6. ConnsOK' /\ SameLinks
  BY <1>1, <1>4, <1>5, ConnKept DEF TypeInv, Me
<1>7. WorkOK'
  BY IdleIs DEF IterationsDone
<1> QED BY <1>6, <1>7, PartsStay, LinksKept
        DEF IterationsDone, TypeInv, datavars, linkvars, bufvars

\* The requests left to consume, the first of them at the end.
LEMMA RequeuedIs ==
  ASSUME NEW rs \in Seq(Request), NEW s \in Seq(Request), s # <<>>, NEW q \in Request
  PROVE  rs \o Append(Tail(s), q) \in Seq(Request) /\ Append(Tail(s), q) \in Seq(Request)
OBVIOUS

\* ... and one that finds the window full keep the types.
LEMMA InflightFullType ==
  ASSUME TypeInv, InflightFull
  PROVE  TypeInv' /\ SameLinks
<1> DEFINE q == Head(work.requests)
           d == [Me EXCEPT !.requests = @ \o Requeued(q)]
<1>1. /\ work.id \in Slot /\ Live(work.id) /\ Me \in Connection /\ Len(Me.inflight) <= MaxInflight
      /\ work \in ConsumeWork /\ work.requests # <<>>
  BY ConsumeIs DEF InflightFull
<1>2. work.requests \in Seq(Request) /\ Me.requests \in Seq(Request) /\ q \in Request
  BY <1>1 DEF ConsumeWork, Connection
<1>3. Me.requests \o Requeued(q) \in Seq(Request)
  BY <1>1, <1>2, RequeuedIs DEF Requeued
<1>4. d \in Connection /\ d.link = Me.link /\ d.inflight = Me.inflight
  BY <1>1, <1>3 DEF Connection
<1>5. Pause(work.id, d, "InflightFull") /\ work' = Idle
  BY DEF InflightFull
<1> HIDE DEF d
<1>6. ConnsOK' /\ SameLinks /\ QueueOK'
  BY <1>1, <1>4, <1>5, PauseKept DEF TypeInv, Me
<1>7. WorkOK'
  BY <1>5, IdleIs
<1> QED BY <1>6, <1>7, PartsStay, LinksKept
        DEF InflightFull, TypeInv, datavars, linkvars, bufvars

\* What a read forwards: n messages, their places in the window, and the
\* request q moved behind them.
Forwarding(q, n, moved, conn, pushed) ==
  /\ q \in Request /\ q = Head(work.requests) /\ n \in Nat
  /\ moved \in Request /\ moved.filter = q.filter /\ Within(moved)
  /\ conn \in Connection /\ Len(conn.inflight) <= MaxInflight
  /\ conn.link = Me.link /\ conn.status = Me.status /\ conn.requests = Me.requests
  /\ conn.subs = Me.subs /\ conn.acks = Me.acks
  /\ \A s \in Range(conn.inflight) : Within(s)
  /\ pushed \in Seq(Notification) /\ Len(pushed) = n
  /\ IF n = 0 THEN UNCHANGED sig ELSE Signal(Me.link)
  /\ InConsume /\ work.requests # <<>>
  /\ UNCHANGED <<chan, vacant, connection_map, subscription_map, notifications, log,
                 graveyard, phase, linkvars, ibuf>>

\* The buffer is full behind it, or the loop goes on, with the request parked
\* or put behind the others.
ForwardFills(n, moved, conn, pushed) ==
  /\ n > 0
  /\ obuf' = [obuf EXCEPT ![Me.link] = Append(@ \o pushed, "Unschedule")]
  /\ Pause(work.id, [conn EXCEPT !.requests = @ \o Requeued(moved)], "Busy")
  /\ work' = Idle
  /\ UNCHANGED waiters
ForwardGoesOn(conn, pushed, left) ==
  /\ obuf' = [obuf EXCEPT ![Me.link] = @ \o pushed]
  /\ conns' = [conns EXCEPT ![work.id] = conn]
  /\ work' = [work EXCEPT !.count = @ + 1, !.requests = left]
  /\ UNCHANGED readyqueue
ForwardParks(moved, conn, pushed) ==
  /\ ForwardGoesOn(conn, pushed, Tail(work.requests))
  /\ moved.cursor = log[moved.filter]
  /\ Park(moved)
ForwardRequeues(moved, conn, pushed) ==
  /\ ForwardGoesOn(conn, pushed, Requeued(moved))
  /\ UNCHANGED waiters

\* One read of a log, in the terms of Forwarding: the messages pushed never
\* take the request beyond the end of its log, and then the buffer is full, or
\* the request is parked, or it is put behind the others.
LEMMA ForwardIs ==
  ASSUME TypeInv, NotAhead, Forward
  PROVE  \E q, n, moved, conn, pushed :
           /\ Forwarding(q, n, moved, conn, pushed)
           /\ \/ ForwardFills(n, moved, conn, pushed)
              \/ ForwardParks(moved, conn, pushed)
              \/ ForwardRequeues(moved, conn, pushed)
<1> DEFINE request == Head(work.requests)
           f       == request.filter
           l       == Me.link
           slots   == IF request.qos = 1 THEN FreeSlots(Me) ELSE ReadCount
           unread  == log[f] - request.cursor
           read    == IF unread <= slots THEN unread ELSE slots
           moved   == [request EXCEPT !.cursor = @ + read]
           pushed  == [i \in 1 .. read |-> IF request.qos = 1 THEN "Forward1" ELSE "Forward0"]
           places  == [i \in 1 .. read |-> [filter |-> f, cursor |-> request.cursor + i - 1]]
           conn    == IF request.qos = 0 THEN Me ELSE [Me EXCEPT !.inflight = @ \o places]
           Place   == [filter : Filter, cursor : Nat]
           out     == obuf[l] \o pushed
           full    == read > 0 /\ Len(out) >= BufferCapacity - 1
<1>1. /\ Me \in Connection /\ Len(Me.inflight) <= MaxInflight
      /\ work \in ConsumeWork /\ work.requests # <<>>
      /\ work.id \in Slot /\ Live(work.id)
  BY ConsumeIs DEF Forward
<1>2. work.requests \in Seq(Request) /\ request \in Request
  BY <1>1 DEF ConsumeWork
<1>3. /\ f \in Filter /\ request.cursor \in Nat /\ request.qos \in {0, 1}
      /\ l \in Link /\ Me.inflight \in Seq(Place)
  BY <1>1, <1>2 DEF Request, Connection
<1>4. log[f] \in Nat
  BY <1>3 DEF TypeInv, DataOK
<1>5. request.cursor <= log[f] /\ \A s \in Range(Me.inflight) : Within(s)
  <2>1. request \in Range(work.requests)
    BY <1>1, <1>2, InRange DEF ConsumeWork
  <2>2. request.cursor <= log[f]
    BY <2>1 DEF NotAhead, WorkWithin, Forward, Within
  <2> QED BY <1>1, <2>2 DEF NotAhead, ConnsWithin, WithinConn, Me
<1>6. slots \in Nat /\ slots > 0
  <2>1. slots > 0
    BY DEF Forward
  <2>2. FreeSlots(Me) \in Nat /\ ReadCount \in Nat
    BY <1>1, <1>3, RouterAssumption DEF FreeSlots
  <2> QED BY <2>1, <2>2
<1>7. request.qos = 1 => slots = MaxInflight - Len(Me.inflight)
  BY DEF FreeSlots
<1>8. /\ obuf' = [obuf EXCEPT ![l] = IF full THEN Filled(out) ELSE out]
      /\ IF read = 0 THEN UNCHANGED sig ELSE Signal(l)
      /\ IF full
         THEN /\ Pause(work.id, [conn EXCEPT !.requests = @ \o Requeued(moved)], "Busy")
              /\ work' = Idle
              /\ UNCHANGED waiters
         ELSE /\ conns' = [conns EXCEPT ![work.id] = conn]
              /\ work' = [work EXCEPT !.count = @ + 1, !.requests =
                             IF unread <= slots THEN Tail(@) ELSE Requeued(moved)]
              /\ IF unread <= slots THEN Park(moved) ELSE UNCHANGED waiters
              /\ UNCHANGED readyqueue
      /\ InConsume
      /\ UNCHANGED <<chan, vacant, connection_map, subscription_map, notifications, log,
                     graveyard, phase, linkvars, ibuf>>
  BY DEF Forward
<1> HIDE DEF request, f, slots
<1>9. unread \in Nat /\ read \in Nat /\ read <= slots /\ read <= unread
  BY <1>3, <1>4, <1>5, <1>6
<1>10. /\ request.cursor + read \in Nat /\ request.cursor + read <= log[f]
       /\ unread <= slots => request.cursor + read = log[f]
  BY <1>3, <1>4, <1>5, <1>6
<1>11. moved \in Request /\ moved.filter = f /\ moved.cursor = request.cursor + read
  <2> HIDE DEF read
  <2> QED BY <1>2, <1>10 DEF Request, f, request
<1>12. \A i \in 1 .. read : request.cursor + i - 1 \in Nat /\ request.cursor + i - 1 <= log[f]
  BY <1>3, <1>4, <1>9
<1>13. unread <= slots => moved.cursor = log[f]
  BY <1>10, <1>11
<1> HIDE DEF unread, read, moved
<1>14. pushed \in Seq(Notification) /\ Len(pushed) = read
  BY <1>9 DEF Notification
<1>15. places \in Seq(Place) /\ Len(places) = read /\ \A s \in Range(places) : Within(s)
  <2>1. ASSUME NEW i \in 1 .. read PROVE places[i] \in Place /\ Within(places[i])
    BY <1>3, <1>12, <2>1 DEF Within
  <2>2. DOMAIN places = 1 .. read /\ places = [i \in 1 .. read |-> places[i]]
    OBVIOUS
  <2> HIDE DEF places, Place
  <2>3. places \in Seq(Place) /\ Len(places) = read
    BY <1>9, <2>1, <2>2
  <2> QED BY <2>1, <2>3, InRange
<1> HIDE DEF pushed, places
<1>16. /\ conn \in Connection /\ Len(conn.inflight) <= MaxInflight
       /\ conn.link = l /\ conn.status = Me.status /\ conn.requests = Me.requests
       /\ conn.subs = Me.subs /\ conn.acks = Me.acks
       /\ \A s \in Range(conn.inflight) : Within(s)
  <2>1. CASE request.qos = 0
    BY <1>1, <1>5, <2>1
  <2>2. CASE request.qos = 1
    <3> DEFINE window == Me.inflight \o places
    <3>1. window \in Seq(Place) /\ Len(window) = Len(Me.inflight) + Len(places)
      BY <1>3, <1>15, SeqFacts
    <3>2. Len(Me.inflight) \in Nat
      BY <1>3
    <3>3. Len(window) <= MaxInflight
      BY <1>1, <1>6, <1>7, <1>9, <1>15, <2>2, <3>1, <3>2, RouterAssumption
    <3>4. conn = [Me EXCEPT !.inflight = window]
      BY <2>2
    <3>5. \A s \in Range(window) : Within(s)
      <4> HIDE DEF Place
      <4>1. \A s : s \in Range(window) <=> s \in Range(Me.inflight) \/ s \in Range(places)
        BY <1>3, <1>15, JoinIs
      <4> HIDE DEF window
      <4> QED BY <1>5, <1>15, <4>1
    <3> HIDE DEF window
    <3> QED BY <1>1, <3>1, <3>3, <3>4, <3>5 DEF Connection
  <2> HIDE DEF conn
  <2> QED BY <1>3, <2>1, <2>2
<1> HIDE DEF conn, Place
<1>17. Forwarding(request, read, moved, conn, pushed)
  <2>1. Within(moved)
    BY <1>10, <1>11 DEF Within
  <2>2. /\ IF read = 0 THEN UNCHANGED sig ELSE Signal(l)
        /\ InConsume
        /\ UNCHANGED <<chan, vacant, connection_map, subscription_map, notifications, log,
                       graveyard, phase, linkvars, ibuf>>
    BY <1>8
  <2>3. request = Head(work.requests) /\ moved.filter = request.filter /\ l = Me.link
    BY <1>11 DEF request, f
  <2> HIDE DEF l
  <2> QED BY <1>1, <1>2, <1>9, <1>11, <1>14, <1>16, <2>1, <2>2, <2>3 DEF Forwarding
<1>18. CASE full
  <2>1. ForwardFills(read, moved, conn, pushed)
    BY <1>8, <1>18 DEF ForwardFills, Filled
  <2> QED BY <1>17, <2>1
<1>19. CASE ~full /\ unread <= slots
  <2>1. ForwardParks(moved, conn, pushed)
    BY <1>8, <1>11, <1>13, <1>19 DEF ForwardParks, ForwardGoesOn
  <2> QED BY <1>17, <2>1
<1>20. CASE ~full /\ ~(unread <= slots)
  <2>1. ForwardRequeues(moved, conn, pushed)
    BY <1>8, <1>20 DEF ForwardRequeues, ForwardGoesOn
  <2> QED BY <1>17, <2>1
<1> QED BY <1>18, <1>19, <1>20

\* In all three outcomes the types are kept.
LEMMA ForwardType ==
  ASSUME TypeInv, NotAhead, Forward
  PROVE  TypeInv' /\ SameLinks
<1>1. PICK q, n, moved, conn, pushed :
        /\ Forwarding(q, n, moved, conn, pushed)
        /\ \/ ForwardFills(n, moved, conn, pushed)
           \/ ForwardParks(moved, conn, pushed)
           \/ ForwardRequeues(moved, conn, pushed)
  BY ForwardIs
<1>2. work.id \in Slot /\ Live(work.id) /\ work \in ConsumeWork /\ Me \in Connection
  BY ConsumeIs DEF Forward
<1> DEFINE l == Me.link
<1>3. /\ q \in Request /\ n \in Nat /\ moved \in Request
      /\ conn \in Connection /\ Len(conn.inflight) <= MaxInflight /\ conn.link = conns[work.id].link
      /\ pushed \in Seq(Notification) /\ Len(pushed) = n
      /\ IF n = 0 THEN UNCHANGED sig ELSE Signal(l)
      /\ work.requests # <<>>
      /\ UNCHANGED <<chan, vacant, connection_map, subscription_map, notifications, log,
                     graveyard, phase, linkvars, ibuf>>
  BY <1>1 DEF Forwarding, Me
<1>4. work.requests \in Seq(Request) /\ work.count \in Nat /\ l \in Link
  BY <1>2 DEF ConsumeWork, Connection
<1>5. Requeued(moved) \in Seq(Request)
  BY <1>3, <1>4 DEF Requeued
<1> HIDE DEF l
<1>6. obuf[l] \in Seq(Notification)
  BY <1>4 DEF TypeInv, BufsOK
<1>7. UNCHANGED <<at, ibuf>>
  BY <1>3 DEF linkvars
<1>8. CASE ForwardFills(n, moved, conn, pushed)
  <2> DEFINE d == [conn EXCEPT !.requests = @ \o Requeued(moved)]
             out == Append(obuf[l] \o pushed, "Unschedule")
  <2>1. conn.requests \o Requeued(moved) \in Seq(Request)
    BY <1>3, <1>5 DEF Connection
  <2>2. d \in Connection /\ d.link = conn.link /\ d.inflight = conn.inflight
    BY <1>3, <2>1 DEF Connection
  <2>3. /\ Pause(work.id, d, "Busy") /\ work' = Idle /\ UNCHANGED waiters
        /\ obuf' = [obuf EXCEPT ![l] = out] /\ n > 0
    BY <1>8 DEF ForwardFills, l
  <2> HIDE DEF d
  <2>4. ConnsOK' /\ SameLinks /\ QueueOK'
    BY <1>2, <1>3, <2>2, <2>3, PauseKept DEF TypeInv
  <2>5. out \in Seq(Notification) /\ out # <<>>
    BY <1>3, <1>6 DEF Notification
  <2> HIDE DEF out
  <2>6. BufsOK'
    BY <1>3, <1>4, <1>7, <2>3, <2>5, PushKept DEF TypeInv
  <2> QED BY <1>3, <2>3, <2>4, <2>6, IdleIs, PartsStay, LinksKept DEF TypeInv
<1>9. ASSUME NEW left \in Seq(Request), ForwardGoesOn(conn, pushed, left), DataOK'
      PROVE  TypeInv' /\ SameLinks
  <2> DEFINE out == obuf[l] \o pushed
  <2>1. /\ obuf' = [obuf EXCEPT ![l] = out]
        /\ conns' = [conns EXCEPT ![work.id] = conn]
        /\ work' = [work EXCEPT !.count = @ + 1, !.requests = left]
        /\ UNCHANGED readyqueue
    BY <1>9 DEF ForwardGoesOn, l
  <2>2. ConnsOK' /\ SameLinks
    BY <1>2, <1>3, <2>1, ConnKept DEF TypeInv
  <2>3. WorkOK'
    <3>1. work' \in ConsumeWork /\ work'.id = work.id
      <4>1. work.count + 1 \in Nat
        BY <1>4
      <4> QED BY <1>2, <1>9, <2>1, <4>1 DEF ConsumeWork
    <3> QED BY <1>2, <2>2, <3>1, WorkKept
  <2>4. out \in Seq(Notification) /\ Len(out) = Len(obuf[l]) + n /\ Len(obuf[l]) \in Nat
    <3>1. pushed \in Seq(Notification) /\ Len(pushed) = n
      BY <1>3
    <3> QED BY <1>6, <3>1, SeqFacts
  <2>5. (n # 0 => out # <<>>) /\ (out = <<>> => obuf[l] = <<>>)
    BY <1>3, <1>6, <2>4
  <2> HIDE DEF out
  <2>6. BufsOK'
    BY <1>3, <1>4, <1>7, <2>1, <2>4, <2>5, PushKept DEF TypeInv
  <2> QED BY <1>3, <1>9, <2>1, <2>2, <2>3, <2>6, PartsStay, LinksKept DEF TypeInv
<1>10. CASE ForwardParks(moved, conn, pushed)
  <2> DEFINE w == [id |-> work.id, request |-> moved]
  <2>1. w \in Waiter
    BY <1>2, <1>3 DEF Waiter
  <2>2. moved.filter \in Filter
    BY <1>3 DEF Request
  <2>3. waiters' = [waiters EXCEPT ![moved.filter] = Append(@, w)]
    BY <1>10 DEF ForwardParks, Park
  <2> HIDE DEF w
  <2>4. waiters' \in [Filter -> Seq(Waiter)]
    BY <2>1, <2>2, <2>3 DEF TypeInv, DataOK
  <2>5. DataOK'
    BY <1>3, <2>4 DEF TypeInv, DataOK
  <2>6. Tail(work.requests) \in Seq(Request)
    BY <1>3, <1>4
  <2> QED BY <1>9, <1>10, <2>5, <2>6 DEF ForwardParks
<1>11. CASE ForwardRequeues(moved, conn, pushed)
  <2>1. DataOK'
    BY <1>3, <1>11, PartsStay DEF ForwardRequeues
  <2> QED BY <1>5, <1>9, <1>11, <2>1 DEF ForwardRequeues
<1> QED BY <1>1, <1>8, <1>10, <1>11

\* The event the router takes, and what is left of its channel.
LEMMA ReceiveIs ==
  ASSUME TypeInv, NEW event, Receive(event)
  PROVE  /\ chan # <<>> /\ chan \in Seq(Event) /\ work = Idle
         /\ Head(chan) \in Event /\ Head(chan).event = event
         /\ Head(chan).id \in Slot /\ Head(chan).link \in Link
         /\ ChanOK'
<1>1. /\ chan # <<>> /\ chan \in Seq(Event) /\ work = Idle /\ chan' = Tail(chan)
      /\ Len(chan) <= ChannelCapacity /\ Head(chan).event = event
  BY DEF Receive, Receiving, TypeInv, ChanOK
<1>2. Head(chan) \in Event
  BY <1>1
<1>3. Head(chan).id \in Slot /\ Head(chan).link \in Link
  BY <1>2 DEF Event
<1>4. chan' \in Seq(Event) /\ Len(chan') = Len(chan) - 1 /\ Len(chan) \in Nat
  BY <1>1
<1>5. ChanOK'
  BY <1>1, <1>4, RouterAssumption DEF ChanOK
<1> QED BY <1>1, <1>2, <1>3, <1>5

\* A router that stays idle has no handler to type.
LEMMA IdleStays ==
  ASSUME TypeInv, work = Idle, UNCHANGED work
  PROVE  WorkOK'
BY IdleIs

\* A Connect event, also one that takes a client over, keeps the types.
LEMMA OnConnectType ==
  ASSUME TypeInv, OnConnect
  PROVE  TypeInv' /\ SameLinks
<1> DEFINE l   == Head(chan).link
           old == connection_map[ClientOf[l]]
<1>1. l \in Link /\ ClientOf[l] \in Client /\ ChanOK'
  BY ReceiveIs, RouterAssumption DEF OnConnect
<1>2. work' = IF old = NoId THEN [op |-> "connect", link |-> l]
              ELSE [op |-> "disconnect", id |-> old, reason |-> FALSE, link |-> l]
  BY DEF OnConnect
<1> HIDE DEF l
<1>3. old # NoId => old \in Slot /\ Live(old)
  BY <1>1 DEF TypeInv, MapOK
<1>4. ConnsOK' /\ SameLinks /\ VacantOK' /\ MapOK'
  BY PartsStay, LinksKept DEF OnConnect, slabvars
<1> HIDE DEF old
<1>5. WorkOK'
  <2>1. CASE old = NoId
    BY <1>1, <1>2, <2>1, ConnectIs
  <2>2. CASE old # NoId
    <3>1. work' \in DisconnectWork /\ work'.id = old
      BY <1>1, <1>2, <1>3, <2>2 DEF DisconnectWork
    <3> QED BY <1>3, <1>4, <2>2, <3>1, WorkKept
  <2> QED BY <2>1, <2>2
<1> QED BY <1>1, <1>4, <1>5, PartsStay, AfterIs
        DEF OnConnect, TypeInv, datavars, linkvars, bufvars, slabvars

\* So does DeviceData, which takes all of the packets of a link ...
LEMMA OnDeviceDataType ==
  ASSUME TypeInv, OnDeviceData
  PROVE  TypeInv' /\ SameLinks
<1> DEFINE id == Head(chan).id
           l == conns[id].link
<1>1. id \in Slot /\ work = Idle /\ ChanOK'
  BY ReceiveIs DEF OnDeviceData
<1>2. /\ IF ~Live(id) THEN UNCHANGED <<work, ibuf>>
         ELSE /\ work' = [op |-> "packets", id |-> id, packets |-> ibuf[l],
                          force_ack |-> FALSE, new_data |-> FALSE, broken |-> FALSE,
                          disconnect |-> FALSE, reason |-> FALSE]
              /\ ibuf' = [ibuf EXCEPT ![l] = <<>>]
      /\ UNCHANGED <<slabvars, readyqueue, datavars, linkvars, obuf, sig>>
  BY DEF OnDeviceData
<1> HIDE DEF id
<1>3. ConnsOK' /\ SameLinks /\ VacantOK' /\ MapOK'
  BY <1>2, PartsStay, LinksKept DEF slabvars
<1>4. WorkOK' /\ BufsOK'
  <2>1. CASE ~Live(id)
    BY <1>1, <1>2, <2>1, IdleStays, PartsStay DEF bufvars, linkvars
  <2>2. CASE Live(id)
    <3>1. l \in Link
      BY <1>1, <2>2, LiveIs DEF Connection, TypeInv
    <3> HIDE DEF l
    <3>2. ibuf[l] \in Seq(Packet)
      BY <3>1 DEF TypeInv, BufsOK
    <3>3. work' \in PacketsWork /\ work'.id = id
      <4>1. work' = [op |-> "packets", id |-> id, packets |-> ibuf[l],
                     force_ack |-> FALSE, new_data |-> FALSE, broken |-> FALSE,
                     disconnect |-> FALSE, reason |-> FALSE]
        BY <1>2, <2>2
      <4> QED BY <1>1, <3>2, <4>1 DEF PacketsWork
    <3>4. WorkOK'
      BY <1>1, <1>3, <2>2, <3>3, WorkKept
    <3>5. ibuf' \in [Link -> Seq(Packet)]
      <4>1. <<>> \in Seq(Packet)
        BY SeqFacts
      <4>2. ibuf' = [ibuf EXCEPT ![l] = <<>>]
        BY <1>2, <2>2
      <4> QED BY <4>1, <4>2 DEF TypeInv, BufsOK
    <3>6. BufsOK'
      BY <1>2, <3>5 DEF TypeInv, BufsOK, linkvars
    <3> QED BY <3>4, <3>6
  <2> QED BY <2>1, <2>2
<1>5. PhaseOK'
  BY AfterIs DEF OnDeviceData, TypeInv
<1> QED BY <1>1, <1>2, <1>3, <1>4, <1>5, PartsStay DEF TypeInv, datavars

\* ... and Disconnect, of a connection that is there or gone ...
LEMMA OnDisconnectType ==
  ASSUME TypeInv, OnDisconnect
  PROVE  TypeInv' /\ SameLinks
<1> DEFINE id == Head(chan).id
<1>1. id \in Slot /\ ChanOK'
  BY ReceiveIs DEF OnDisconnect
<1>2. work' = IF ~Live(id) THEN Idle
              ELSE [op |-> "disconnect", id |-> id, reason |-> FALSE, link |-> NoLink]
  BY DEF OnDisconnect
<1> HIDE DEF id
<1>3. ConnsOK' /\ SameLinks /\ VacantOK' /\ MapOK'
  BY PartsStay, LinksKept DEF OnDisconnect, slabvars
<1>4. WorkOK'
  <2>1. CASE ~Live(id)
    BY <1>2, <2>1, IdleIs
  <2>2. CASE Live(id)
    <3>1. work' \in DisconnectWork /\ work'.id = id
      BY <1>1, <1>2, <2>2 DEF DisconnectWork
    <3> QED BY <1>1, <1>3, <2>2, <3>1, WorkKept
  <2> QED BY <2>1, <2>2
<1> QED BY <1>1, <1>3, <1>4, PartsStay, AfterIs
        DEF OnDisconnect, TypeInv, datavars, linkvars, bufvars, slabvars

\* ... and Ready.
LEMMA OnReadyType ==
  ASSUME TypeInv, OnReady
  PROVE  TypeInv' /\ SameLinks
<1> DEFINE id == Head(chan).id
<1>1. id \in Slot /\ work = Idle /\ ChanOK'
  BY ReceiveIs DEF OnReady
<1>2. IF Live(id) THEN Reschedule(id, conns[id], "Ready") /\ phase' = After
      ELSE phase' = [at |-> "panicked", n |-> 0] /\ UNCHANGED <<conns, readyqueue>>
  BY DEF OnReady
<1> HIDE DEF id
<1>3. ConnsOK' /\ SameLinks /\ QueueOK' /\ PhaseOK'
  <2>1. CASE Live(id)
    <3>1. conns[id] \in Connection /\ Len(conns[id].inflight) <= MaxInflight
      BY <1>1, <2>1, LiveIs DEF TypeInv, ConnsOK
    <3>2. ConnsOK' /\ SameLinks /\ QueueOK'
      BY <1>1, <1>2, <2>1, <3>1, RescheduleKept DEF TypeInv
    <3> QED BY <1>2, <2>1, <3>2, AfterIs DEF TypeInv
  <2>2. CASE ~Live(id)
    <3>1. PhaseOK'
      BY <1>2, <2>2 DEF PhaseOK
    <3> QED BY <1>2, <2>2, <3>1, PartsStay
  <2> QED BY <2>1, <2>2
<1>4. WorkOK'
  BY <1>1, IdleStays DEF OnReady
<1> QED BY <1>1, <1>3, <1>4, PartsStay, LinksKept
        DEF OnReady, TypeInv, datavars, linkvars, bufvars

------------------------------------------------------------------------------
\* While there is room an id is free.
LEMMA RoomIsVacant ==
  ASSUME TypeInv, ~(Cardinality(LiveIds) >= MaxConnections)
  PROVE  /\ vacant # <<>> /\ Head(vacant) \in Slot /\ ~Live(Head(vacant))
         /\ Tail(vacant) \in Seq(Slot) /\ IsInjective(Tail(vacant))
         /\ \A id \in Slot : id \in Range(Tail(vacant)) <=> ~Live(id) /\ id # Head(vacant)
<1>1. vacant # <<>>
  <2> SUFFICES ASSUME vacant = <<>> PROVE FALSE
    OBVIOUS
  <2>1. Range(vacant) = {}
    BY DEF Range
  <2>2. LiveIds = Slot
    BY <2>1 DEF TypeInv, VacantOK, LiveIds
  <2>3. Cardinality(Slot) = MaxConnections
    BY RouterAssumption, FS_Interval DEF Slot
  <2> QED BY <2>2, <2>3, RouterAssumption
<1>2. /\ vacant \in Seq(Slot) /\ IsInjective(vacant)
      /\ \A id \in Slot : id \in Range(vacant) <=> ~Live(id)
  BY DEF TypeInv, VacantOK
<1> DEFINE h == Head(vacant)
           t == Tail(vacant)
<1>3. /\ Len(vacant) \in Nat \ {0} /\ h = vacant[1] /\ h \in Slot
      /\ t \in Seq(Slot) /\ Len(t) = Len(vacant) - 1
      /\ \A i \in 1 .. Len(t) : t[i] = vacant[i + 1]
      /\ DOMAIN t = 1 .. Len(t) /\ DOMAIN vacant = 1 .. Len(vacant)
  BY <1>1, <1>2
<1> HIDE DEF h, t
<1>4. h \in Range(vacant)
  BY <1>2, <1>3, InRange
<1>5. IsInjective(t)
  <2> SUFFICES ASSUME NEW i \in 1 .. Len(t), NEW j \in 1 .. Len(t), t[i] = t[j] PROVE i = j
    BY <1>3 DEF IsInjective
  <2>1. i + 1 \in 1 .. Len(vacant) /\ j + 1 \in 1 .. Len(vacant)
    BY <1>3
  <2>2. vacant[i + 1] = vacant[j + 1]
    BY <1>3
  <2>3. i + 1 = j + 1
    BY <1>2, <1>3, <2>1, <2>2 DEF IsInjective
  <2> QED BY <2>3
<1>6. ASSUME NEW id \in Slot
      PROVE  id \in Range(t) <=> id \in Range(vacant) /\ id # h
  <2>1. ASSUME id \in Range(t) PROVE id \in Range(vacant) /\ id # h
    <3>1. PICK i \in 1 .. Len(t) : t[i] = id
      BY <1>3, <2>1, InRange
    <3>2. i + 1 \in 1 .. Len(vacant) /\ vacant[i + 1] = id /\ 1 \in 1 .. Len(vacant)
      BY <1>3, <3>1
    <3>3. id \in Range(vacant)
      BY <1>2, <3>2, InRange
    <3>4. id # h
      <4> SUFFICES ASSUME id = h PROVE FALSE
        OBVIOUS
      <4>1. vacant[i + 1] = vacant[1]
        BY <1>3, <3>2
      <4>2. i + 1 = 1
        BY <1>2, <1>3, <3>2, <4>1 DEF IsInjective
      <4> QED BY <4>2
    <3> QED BY <3>3, <3>4
  <2>2. ASSUME id \in Range(vacant), id # h PROVE id \in Range(t)
    <3>1. PICK i \in 1 .. Len(vacant) : vacant[i] = id
      BY <1>2, <2>2, InRange
    <3>2. i # 1
      BY <1>3, <2>2, <3>1
    <3>3. i - 1 \in 1 .. Len(t) /\ i - 1 + 1 = i
      BY <1>3, <3>1, <3>2
    <3>4. t[i - 1] = id
      BY <1>3, <3>1, <3>3
    <3> QED BY <1>3, <3>3, <3>4, InRange
  <2> QED BY <2>1, <2>2
<1>7. ~Live(h)
  BY <1>2, <1>3, <1>4
<1>8. \A id \in Slot : id \in Range(t) <=> ~Live(id) /\ id # h
  BY <1>2, <1>6
<1> QED BY <1>1, <1>3, <1>5, <1>7, <1>8 DEF h, t

\* A connection that gets an id.
LEMMA NewConnectionIs ==
  ASSUME TypeInv, HandleNewConnection, ~(Cardinality(LiveIds) >= MaxConnections)
  PROVE  LET l  == work.link
             c  == ClientOf[l]
             id == Head(vacant)
         IN  /\ l \in Link /\ c \in Client
             /\ conns'[id] \in Connection
             /\ conns'[id].link = l /\ conns'[id].inflight = <<>>
             /\ conns'[id].status = "Ready" /\ conns'[id].acks = <<"ConnAck">>
             /\ \/ conns'[id].subs = {} /\ conns'[id].requests = <<>>
                \/ /\ graveyard[c].saved /\ conns'[id].subs = graveyard[c].subs
                   /\ conns'[id].requests = graveyard[c].requests
             /\ conns' = [conns EXCEPT ![id] = conns'[id]]
             /\ vacant' = Tail(vacant)
             /\ connection_map' = [connection_map EXCEPT ![c] = id]
             /\ graveyard' = [graveyard EXCEPT ![c] = NoSession]
             /\ readyqueue' = Append(readyqueue, id)
             /\ work' = Idle
             /\ UNCHANGED <<chan, subscription_map, waiters, notifications, log, phase,
                            linkvars, bufvars>>
<1> DEFINE l  == work.link
           c  == ClientOf[l]
           id == Head(vacant)
           resume == l \notin Clean /\ graveyard[c].saved
           subs == IF resume THEN graveyard[c].subs ELSE {}
           requests == IF resume THEN graveyard[c].requests ELSE <<>>
           d == [link |-> l, status |-> "Ready", inflight |-> <<>>, acks |-> <<"ConnAck">>,
                 subs |-> subs, requests |-> requests]
<1>1. l \in Link /\ c \in Client
  BY WorkIs, RouterAssumption DEF HandleNewConnection, TypeInv, ConnectWork
<1>2. id \in Slot
  BY RoomIsVacant
<1>3. /\ conns' = [conns EXCEPT ![id] = d]
      /\ vacant' = Tail(vacant)
      /\ connection_map' = [connection_map EXCEPT ![c] = id]
      /\ graveyard' = [graveyard EXCEPT ![c] = NoSession]
      /\ readyqueue' = Append(readyqueue, id)
      /\ work' = Idle
      /\ UNCHANGED <<chan, subscription_map, waiters, notifications, log, phase,
                     linkvars, bufvars>>
  BY DEF HandleNewConnection, Retrieved
<1> HIDE DEF l, id
<1>4. graveyard[c] \in {NoSession} \cup Session
  BY <1>1 DEF TypeInv, GraveOK
<1>5. resume => graveyard[c] \in Session
  BY <1>4 DEF NoSession
<1> HIDE DEF c
<1>6. subs \in SUBSET Filter /\ requests \in Seq(Request)
  <2>1. <<>> \in Seq(Request)
    OBVIOUS
  <2>2. resume => graveyard[c].subs \in SUBSET Filter /\ graveyard[c].requests \in Seq(Request)
    BY <1>5 DEF Session
  <2> HIDE DEF resume
  <2> QED BY <2>1, <2>2
<1>7. \/ subs = {} /\ requests = <<>>
      \/ graveyard[c].saved /\ subs = graveyard[c].subs /\ requests = graveyard[c].requests
  OBVIOUS
<1> HIDE DEF subs, requests, resume
<1>8. d \in Connection
  BY <1>1, <1>6 DEF Connection
<1>9. /\ d.link = l /\ d.inflight = <<>> /\ d.status = "Ready" /\ d.acks = <<"ConnAck">>
      /\ d.subs = subs /\ d.requests = requests
  OBVIOUS
<1> HIDE DEF d
<1>10. conns'[id] = d
  BY <1>2, <1>3 DEF TypeInv, ConnsOK
<1> QED BY <1>1, <1>3, <1>7, <1>8, <1>9, <1>10 DEF l, id, c

\* A new connection takes a free id, so a connection that is there keeps its
\* own.
LEMMA HandleNewConnectionType ==
  ASSUME TypeInv, HandleNewConnection
  PROVE  TypeInv'
<1>1. WorkOK'
  BY IdleIs DEF HandleNewConnection
<1>2. CASE Cardinality(LiveIds) >= MaxConnections
  BY <1>1, <1>2, PartsStay, LinksKept
     DEF HandleNewConnection, TypeInv, slabvars, linkvars, bufvars
<1>3. CASE ~(Cardinality(LiveIds) >= MaxConnections)
  <2> DEFINE l  == work.link
             c  == ClientOf[l]
             id == Head(vacant)
             d  == conns'[id]
  <2>1. /\ l \in Link /\ c \in Client
        /\ d \in Connection /\ d.link = l /\ d.inflight = <<>>
        /\ conns' = [conns EXCEPT ![id] = d]
        /\ vacant' = Tail(vacant)
        /\ connection_map' = [connection_map EXCEPT ![c] = id]
        /\ graveyard' = [graveyard EXCEPT ![c] = NoSession]
        /\ readyqueue' = Append(readyqueue, id)
        /\ UNCHANGED <<chan, subscription_map, waiters, notifications, log, phase,
                       linkvars, bufvars>>
    BY <1>3, NewConnectionIs
  <2>2. /\ id \in Slot /\ ~Live(id) /\ Tail(vacant) \in Seq(Slot) /\ IsInjective(Tail(vacant))
        /\ \A i \in Slot : i \in Range(Tail(vacant)) <=> ~Live(i) /\ i # id
    BY <1>3, RoomIsVacant
  <2>3. c = ClientOf[l]
    OBVIOUS
  <2> HIDE DEF l, c, id, d
  <2>4. d # Vacant /\ Len(d.inflight) <= MaxInflight
    BY <2>1, RouterAssumption DEF Connection, Vacant
  <2>5. \A i \in Slot : conns'[i] = IF i = id THEN d ELSE conns[i]
    BY <2>1 DEF TypeInv, ConnsOK
  <2>6. conns' \in [Slot -> Connection \cup {Vacant}]
    BY <2>1 DEF TypeInv, ConnsOK
  <2>7. ConnsOK'
    BY <2>4, <2>5, <2>6 DEF TypeInv, ConnsOK, Live
  <2>8. \A i \in Slot : conns'[i] # Vacant <=> Live(i) \/ i = id
    BY <2>4, <2>5 DEF Live
  <2>9. VacantOK'
    BY <2>1, <2>2, <2>8 DEF VacantOK, Live
  <2>10. MapOK'
    <3>1. connection_map' \in [Client -> Slot \cup {NoId}]
      BY <2>1, <2>2 DEF TypeInv, MapOK
    <3>2. ASSUME NEW k \in Client, connection_map'[k] # NoId
          PROVE  /\ conns'[connection_map'[k]] # Vacant
                 /\ ClientOf[conns'[connection_map'[k]].link] = k
      <4>1. CASE k = c
        <5>1. connection_map'[k] = id
          BY <2>1, <4>1 DEF TypeInv, MapOK
        <5> QED BY <2>1, <2>2, <2>3, <2>5, <2>8, <4>1, <5>1
      <4>2. CASE k # c
        <5> DEFINE i == connection_map[k]
        <5>1. connection_map'[k] = i
          BY <2>1, <4>2 DEF TypeInv, MapOK
        <5>2. i \in Slot /\ Live(i) /\ ClientOf[conns[i].link] = k
          BY <3>2, <5>1 DEF TypeInv, MapOK
        <5> HIDE DEF i
        <5>3. i # id
          BY <2>2, <5>2
        <5> QED BY <2>5, <2>8, <5>1, <5>2, <5>3
      <4> QED BY <4>1, <4>2
    <3> QED BY <3>1, <3>2 DEF MapOK, Live
  <2>11. GraveOK'
    BY <2>1 DEF TypeInv, GraveOK
  <2>12. QueueOK'
    BY <2>1, <2>2 DEF TypeInv, QueueOK
  <2>13. ChanOK' /\ DataOK' /\ PhaseOK' /\ LinksOK' /\ BufsOK'
    BY <2>1, PartsStay DEF linkvars
  <2> QED BY <1>1, <2>7, <2>9, <2>10, <2>11, <2>12, <2>13 DEF TypeInv
<1> QED BY <1>2, <1>3

\* What is saved of a session: a request for each one there is, put back.
RewoundFrom(requests, all, inflight) ==
  /\ \A q \in Range(all) : \E r \in Range(requests) : r.filter = q.filter
  /\ \A r \in Range(requests) : \E q \in Range(all) :
       /\ r.filter = q.filter
       /\ r = q \/ \E s \in Range(inflight) : s.filter = q.filter /\ s.cursor = r.cursor

\* The requests a session is saved with are requests, each where it was or back
\* at a message in flight.
LEMMA RewoundIs ==
  ASSUME NEW all \in Seq(Request), NEW inflight \in Seq([filter : Filter, cursor : Nat])
  PROVE  LET rs == [i \in 1 .. Len(all) |-> Rewind(all[i], inflight)]
         IN  rs \in Seq(Request) /\ RewoundFrom(rs, all, inflight)
<1> DEFINE rs == [i \in 1 .. Len(all) |-> Rewind(all[i], inflight)]
<1>1. Len(all) \in Nat /\ \A i \in 1 .. Len(all) : all[i] \in Request
  BY SeqFacts
<1>2. ASSUME NEW i \in 1 .. Len(all)
      PROVE  /\ rs[i] \in Request /\ rs[i].filter = all[i].filter
             /\ \/ rs[i] = all[i]
                \/ \E s \in Range(inflight) : s.filter = all[i].filter /\ s.cursor = rs[i].cursor
  BY <1>1, RewindIs
<1>3. rs \in Seq(Request) /\ Len(rs) = Len(all)
  BY <1>1, <1>2
<1> HIDE DEF rs
<1>4. ASSUME NEW q \in Range(all) PROVE \E r \in Range(rs) : r.filter = q.filter
  <2>1. PICK i \in 1 .. Len(all) : all[i] = q
    BY <1>4, InRange
  <2>2. rs[i] \in Range(rs)
    BY <1>3, <2>1, InRange
  <2> QED BY <1>2, <2>1, <2>2
<1>5. ASSUME NEW r \in Range(rs)
      PROVE  \E q \in Range(all) :
               /\ r.filter = q.filter
               /\ r = q \/ \E s \in Range(inflight) : s.filter = q.filter /\ s.cursor = r.cursor
  <2>1. PICK i \in 1 .. Len(rs) : rs[i] = r
    BY <1>3, <1>5, InRange
  <2>2. all[i] \in Range(all)
    BY <1>3, <2>1, InRange
  <2> QED BY <1>2, <1>3, <2>1, <2>2
<1> QED BY <1>3, <1>4, <1>5 DEF RewoundFrom, rs

\* A connection that goes.
LEMMA DisconnectIs ==
  ASSUME TypeInv, HandleDisconnection
  PROVE  LET id == work.id
             l  == Me.link
             c  == ClientOf[l]
             g  == graveyard'[c]
         IN  /\ id \in Slot /\ Live(id) /\ Me \in Connection /\ l \in Link /\ c \in Client
             /\ work \in DisconnectWork
             /\ conns' = [conns EXCEPT ![id] = Vacant]
             /\ vacant' = <<id>> \o vacant
             /\ connection_map' = [connection_map EXCEPT ![c] = NoId]
             /\ waiters' = [f \in Filter |-> RemoveWaiters(waiters[f], id)]
             /\ subscription_map' = RemovedFromMap(id)
             /\ graveyard' = [graveyard EXCEPT ![c] = g]
             /\ \/ g = NoSession
                \/ /\ g \in Session /\ g.subs = Me.subs
                   /\ RewoundFrom(g.requests, SavedRequests(id), Me.inflight)
             /\ \/ UNCHANGED <<obuf, sig>>
                \/ obuf' = [obuf EXCEPT ![l] = Append(@, "Disconnect")] /\ Signal(l)
             /\ work' = IF work.link = NoLink THEN Idle ELSE [op |-> "connect", link |-> work.link]
             /\ UNCHANGED <<chan, readyqueue, notifications, log, phase, linkvars, ibuf>>
<1> DEFINE id == work.id
           l  == Me.link
           c  == ClientOf[l]
           all == SavedRequests(id)
           rs == [i \in 1 .. Len(all) |-> Rewind(all[i], Me.inflight)]
           g  == IF l \in Clean THEN NoSession
                 ELSE [saved |-> TRUE, subs |-> Me.subs, requests |-> rs]
<1>1. work \in DisconnectWork /\ id \in Slot /\ Live(id)
  BY WorkIs DEF HandleDisconnection, TypeInv, WorkOK, OfLive
<1>2. Me \in Connection
  BY <1>1, LiveIs DEF TypeInv, Me
<1>3. l \in Link /\ c \in Client /\ Me.subs \in SUBSET Filter
      /\ Me.inflight \in Seq([filter : Filter, cursor : Nat])
  BY <1>2, RouterAssumption DEF Connection
<1>4. all \in Seq(Request)
  BY <1>1, <1>2, SavedIs DEF TypeInv, Me
<1>5. /\ conns' = [conns EXCEPT ![id] = Vacant]
      /\ vacant' = <<id>> \o vacant
      /\ connection_map' = [connection_map EXCEPT ![c] = NoId]
      /\ waiters' = [f \in Filter |-> RemoveWaiters(waiters[f], id)]
      /\ subscription_map' = RemovedFromMap(id)
      /\ graveyard' = [graveyard EXCEPT ![c] = g]
      /\ work' = IF work.link = NoLink THEN Idle ELSE [op |-> "connect", link |-> work.link]
      /\ UNCHANGED <<chan, readyqueue, notifications, log, phase, linkvars, ibuf>>
  BY DEF HandleDisconnection
<1>6. \/ UNCHANGED <<obuf, sig>>
      \/ obuf' = [obuf EXCEPT ![l] = Append(@, "Disconnect")] /\ Signal(l)
  BY DEF HandleDisconnection
<1> HIDE DEF all
<1>7. rs \in Seq(Request) /\ RewoundFrom(rs, all, Me.inflight)
  BY <1>3, <1>4, RewoundIs
<1> HIDE DEF rs
<1>8. \/ g = NoSession
      \/ /\ g \in Session /\ g.subs = Me.subs
         /\ RewoundFrom(g.requests, all, Me.inflight)
  BY <1>3, <1>7 DEF Session
<1> HIDE DEF g
<1>9. graveyard'[c] = g
  BY <1>3, <1>5 DEF TypeInv, GraveOK
<1> QED BY <1>1, <1>2, <1>3, <1>5, <1>6, <1>8, <1>9 DEF all

\* An id that is freed becomes the next one to use.
LEMMA FreedIs ==
  ASSUME NEW S, NEW s \in Seq(S), IsInjective(s), NEW e \in S, e \notin Range(s)
  PROVE  LET t == <<e>> \o s
         IN  /\ t \in Seq(S) /\ IsInjective(t)
             /\ \A x : x \in Range(t) <=> x = e \/ x \in Range(s)
<1> DEFINE t == <<e>> \o s
<1>1. /\ t \in Seq(S) /\ Len(s) \in Nat /\ Len(t) = Len(s) + 1 /\ t[1] = e
      /\ \A i \in 2 .. Len(s) + 1 : t[i] = s[i - 1]
      /\ DOMAIN t = 1 .. Len(t) /\ DOMAIN s = 1 .. Len(s)
  OBVIOUS
<1> HIDE DEF t
<1>2. ASSUME NEW i \in 2 .. Len(t) PROVE i - 1 \in 1 .. Len(s) /\ t[i] = s[i - 1] /\ t[i] # e
  <2>1. i - 1 \in 1 .. Len(s) /\ t[i] = s[i - 1]
    BY <1>1
  <2>2. s[i - 1] \in Range(s)
    BY <2>1, InRange
  <2> QED BY <2>1, <2>2
<1>3. IsInjective(t)
  <2> SUFFICES ASSUME NEW i \in 1 .. Len(t), NEW j \in 1 .. Len(t), t[i] = t[j] PROVE i = j
    BY <1>1 DEF IsInjective
  <2>1. CASE i = 1 \/ j = 1
    BY <1>1, <1>2, <2>1
  <2>2. CASE i # 1 /\ j # 1
    <3>1. i \in 2 .. Len(t) /\ j \in 2 .. Len(t)
      BY <1>1, <2>2
    <3>2. s[i - 1] = s[j - 1] /\ i - 1 \in 1 .. Len(s) /\ j - 1 \in 1 .. Len(s)
      BY <1>2, <3>1
    <3>3. i - 1 = j - 1
      BY <1>1, <3>2 DEF IsInjective
    <3> QED BY <3>3
  <2> QED BY <2>1, <2>2
<1>4. ASSUME NEW x PROVE x \in Range(t) <=> x = e \/ x \in Range(s)
  <2>1. x \in Range(<<e>> \o s) <=> x \in Range(<<e>>) \/ x \in Range(s)
    <3>1. <<e>> \in Seq(S)
      OBVIOUS
    <3> QED BY <3>1, JoinIs
  <2>2. Range(<<e>>) = {e}
    BY DEF Range
  <2> QED BY <2>1, <2>2 DEF t
<1> QED BY <1>1, <1>3, <1>4 DEF t

\* A connection that ends gives back an id no one else has.
LEMMA HandleDisconnectionType ==
  ASSUME TypeInv, HandleDisconnection
  PROVE  TypeInv'
<1> DEFINE id == work.id
           l  == Me.link
           c  == ClientOf[l]
           g  == graveyard'[c]
<1>1. /\ id \in Slot /\ Live(id) /\ Me \in Connection /\ l \in Link /\ c \in Client
      /\ work \in DisconnectWork
      /\ conns' = [conns EXCEPT ![id] = Vacant]
      /\ vacant' = <<id>> \o vacant
      /\ connection_map' = [connection_map EXCEPT ![c] = NoId]
      /\ waiters' = [f \in Filter |-> RemoveWaiters(waiters[f], id)]
      /\ subscription_map' = RemovedFromMap(id)
      /\ graveyard' = [graveyard EXCEPT ![c] = g]
      /\ g = NoSession \/ g \in Session
      /\ \/ UNCHANGED <<obuf, sig>>
         \/ obuf' = [obuf EXCEPT ![l] = Append(@, "Disconnect")] /\ Signal(l)
      /\ work' = IF work.link = NoLink THEN Idle ELSE [op |-> "connect", link |-> work.link]
      /\ UNCHANGED <<chan, readyqueue, notifications, log, phase, linkvars, ibuf>>
  BY DisconnectIs
<1>2. work.link \in Link \cup {NoLink}
  BY <1>1 DEF DisconnectWork
<1>3. c = ClientOf[conns[id].link]
  BY DEF Me
<1> HIDE DEF id, c, g
<1>4. \A i \in Slot : conns'[i] = IF i = id THEN Vacant ELSE conns[i]
  BY <1>1 DEF TypeInv, ConnsOK
<1>5. ConnsOK'
  <2>1. conns' \in [Slot -> Connection \cup {Vacant}]
    BY <1>1 DEF TypeInv, ConnsOK
  <2> QED BY <1>4, <2>1 DEF TypeInv, ConnsOK, Live
<1>6. VacantOK'
  <2>1. id \notin Range(vacant)
    BY <1>1 DEF TypeInv, VacantOK
  <2>2. /\ vacant' \in Seq(Slot) /\ IsInjective(vacant')
        /\ \A x : x \in Range(vacant') <=> x = id \/ x \in Range(vacant)
    BY <1>1, <2>1, FreedIs DEF TypeInv, VacantOK
  <2> QED BY <1>4, <2>2 DEF TypeInv, VacantOK, Live
<1>7. MapOK'
  <2>1. connection_map' \in [Client -> Slot \cup {NoId}]
    BY <1>1 DEF TypeInv, MapOK
  <2>2. ASSUME NEW k \in Client, connection_map'[k] # NoId
        PROVE  /\ conns'[connection_map'[k]] # Vacant
               /\ ClientOf[conns'[connection_map'[k]].link] = k
    <3> DEFINE i == connection_map[k]
    <3>1. k # c /\ connection_map'[k] = i
      BY <1>1, <2>2 DEF TypeInv, MapOK
    <3>2. i \in Slot /\ Live(i) /\ ClientOf[conns[i].link] = k
      BY <2>2, <3>1 DEF TypeInv, MapOK
    <3> HIDE DEF i
    <3>3. i # id
      BY <1>3, <3>1, <3>2
    <3> QED BY <1>4, <3>1, <3>2, <3>3 DEF Live
  <2> QED BY <2>1, <2>2 DEF MapOK, Live
<1>8. DataOK'
  <2>1. waiters' \in [Filter -> Seq(Waiter)]
    <3>1. \A f \in Filter : RemoveWaiters(waiters[f], id) \in Seq(Waiter)
      BY RemoveWaitersIs DEF TypeInv, DataOK
    <3> QED BY <1>1, <3>1
  <2>2. subscription_map' \in [Filter -> SUBSET Slot]
    BY <1>1 DEF TypeInv, DataOK, RemovedFromMap
  <2> QED BY <1>1, <2>1, <2>2 DEF TypeInv, DataOK
<1>9. GraveOK'
  BY <1>1 DEF TypeInv, GraveOK
<1>10. WorkOK'
  <2>1. CASE work.link = NoLink
    BY <1>1, <2>1, IdleIs
  <2>2. CASE work.link # NoLink
    BY <1>1, <1>2, <2>2, ConnectIs
  <2> QED BY <2>1, <2>2
<1> HIDE DEF l
<1>11. UNCHANGED <<at, ibuf>>
  BY <1>1 DEF linkvars
<1>12. BufsOK'
  <2>1. CASE UNCHANGED <<obuf, sig>>
    BY <1>11, <2>1, PartsStay DEF bufvars
  <2>2. CASE obuf' = [obuf EXCEPT ![l] = Append(@, "Disconnect")] /\ Signal(l)
    <3> DEFINE out == Append(obuf[l], "Disconnect")
    <3>1. out \in Seq(Notification) /\ out # <<>>
      <4>1. obuf[l] \in Seq(Notification) /\ "Disconnect" \in Notification
        BY <1>1 DEF TypeInv, BufsOK, Notification
      <4> QED BY <4>1
    <3>2. obuf' = [obuf EXCEPT ![l] = out]
      BY <2>2
    <3> HIDE DEF out
    <3> QED BY <1>1, <1>11, <2>2, <3>1, <3>2, PushKept DEF TypeInv
  <2> QED BY <1>1, <2>1, <2>2
<1>13. ChanOK' /\ QueueOK' /\ PhaseOK' /\ LinksOK'
  BY <1>1, PartsStay
<1> QED BY <1>5, <1>6, <1>7, <1>8, <1>9, <1>10, <1>12, <1>13 DEF TypeInv

------------------------------------------------------------------------------
\* The connection whose packets the router handles, and the packet at hand.
LEMMA PacketsIs ==
  ASSUME TypeInv, work.op = "packets"
  PROVE  /\ work \in PacketsWork /\ work.id \in Slot /\ Live(work.id)
         /\ Me \in Connection /\ Me = conns[work.id] /\ Len(Me.inflight) <= MaxInflight
<1>1. work \in PacketsWork /\ work.id \in Slot /\ Live(work.id)
  BY WorkIs DEF TypeInv, WorkOK, OfLive
<1> QED BY <1>1, LiveIs DEF TypeInv, ConnsOK, Me

\* The packet that is handled next, and the connection it is of.
LEMMA NextPacketIs ==
  ASSUME TypeInv, NEW type, NextIs(type)
  PROVE  /\ work \in PacketsWork /\ work.id \in Slot /\ Live(work.id)
         /\ Me \in Connection /\ Me = conns[work.id] /\ Len(Me.inflight) <= MaxInflight
         /\ Current \in Packet /\ Current.type = type /\ Rest \in Seq(Packet)
<1>1. work.op = "packets"
  BY DEF NextIs
<1>2. work.packets \in Seq(Packet) /\ work.packets # <<>>
  BY <1>1, PacketsIs DEF NextIs, PacketsWork
<1>3. Current \in Packet /\ Rest \in Seq(Packet)
  BY <1>2, SeqFacts DEF Current, Rest
<1> QED BY <1>1, <1>3, PacketsIs DEF NextIs, Current

\* What packets of a type carry.
LEMMA PacketIs ==
  ASSUME NEW p \in Packet
  PROVE  /\ p.type = "Publish" => p.filters \in SUBSET Filter /\ p.qos \in {0, 1}
         /\ p.type = "Subscribe" => p.filter \in Filter /\ p.qos \in {0, 1}
         /\ p.type = "Unsubscribe" => p.filter \in Filter
<1>1. CASE p \in [type : {"Publish"}, filters : SUBSET Filter, qos : {0, 1}]
  BY <1>1
<1>2. CASE p \in [type : {"Subscribe"}, filter : Filter, qos : {0, 1}]
  BY <1>2
<1>3. CASE p \in [type : {"Unsubscribe"}, filter : Filter]
  BY <1>3
<1>4. CASE p \in [type : {"Malformed", "Denied", "PubAck", "BadAck", "PingReq", "Disconnect"}]
  BY <1>4
<1> QED BY <1>1, <1>2, <1>3, <1>4 DEF Packet

\* An ack put on the log of a connection.
LEMMA AckedIs ==
  ASSUME NEW c \in Connection
  PROVE  /\ Acked(c) \in Connection /\ Acked(c).link = c.link /\ Acked(c).subs = c.subs
         /\ Acked(c).requests = c.requests /\ Acked(c).status = c.status
         /\ Acked(c).inflight = c.inflight
<1> DEFINE acks == Append(c.acks, "DeviceAck")
<1>1. acks \in Seq({"ConnAck", "DeviceAck"})
  BY DEF Connection
<1>2. Acked(c) = [c EXCEPT !.acks = acks]
  BY DEF Acked
<1> HIDE DEF acks
<1> QED BY <1>1, <1>2 DEF Connection

\* The router goes on with the packets, or stops at this one.
LEMMA GoesOnIs ==
  ASSUME work \in PacketsWork, NEW rest \in Seq(Packet), NEW data \in BOOLEAN,
         NEW ack \in BOOLEAN, NEW reason \in BOOLEAN,
         \/ work' = [work EXCEPT !.packets = rest]
         \/ work' = [work EXCEPT !.packets = rest, !.new_data = TRUE, !.force_ack = ack]
         \/ work' = [work EXCEPT !.packets = rest, !.force_ack = TRUE]
         \/ work' = [work EXCEPT !.packets = rest, !.force_ack = TRUE, !.disconnect = TRUE]
         \/ work' = [work EXCEPT !.broken = TRUE, !.disconnect = TRUE, !.reason = reason]
         \/ work' = [work EXCEPT !.broken = TRUE, !.disconnect = TRUE]
  PROVE  /\ work' \in PacketsWork /\ work'.op = "packets" /\ work'.id = work.id
         /\ work.new_data => work'.new_data
         /\ work.disconnect => work'.disconnect
<1>1. CASE work' = [work EXCEPT !.packets = rest]
  BY <1>1 DEF PacketsWork
<1>2. CASE work' = [work EXCEPT !.packets = rest, !.new_data = TRUE, !.force_ack = ack]
  BY <1>2 DEF PacketsWork
<1>3. CASE work' = [work EXCEPT !.packets = rest, !.force_ack = TRUE]
  BY <1>3 DEF PacketsWork
<1>4. CASE work' = [work EXCEPT !.packets = rest, !.force_ack = TRUE, !.disconnect = TRUE]
  BY <1>4 DEF PacketsWork
<1>5. CASE work' = [work EXCEPT !.broken = TRUE, !.disconnect = TRUE, !.reason = reason]
  BY <1>5 DEF PacketsWork
<1>6. CASE work' = [work EXCEPT !.broken = TRUE, !.disconnect = TRUE]
  BY <1>6 DEF PacketsWork
<1> QED BY <1>1, <1>2, <1>3, <1>4, <1>5, <1>6

\* What the handler of packets makes of one connection, and of its own work.
Becomes(id, c) ==
  /\ id \in Slot /\ Live(id) /\ c \in Connection /\ Len(c.inflight) <= MaxInflight
  /\ c.link = conns[id].link
  /\ "ConnAck" \in Range(c.acks) <=> "ConnAck" \in Range(conns[id].acks)
  /\ Range(c.inflight) \subseteq Range(conns[id].inflight)
  /\ conns' = [conns EXCEPT ![id] = c]
Queued(id, c) ==
  \/ UNCHANGED readyqueue /\ c.status = conns[id].status
  \/ readyqueue' = Append(readyqueue, id) /\ c.status = "Ready"
Onward ==
  /\ work'.id = work.id
  /\ work.new_data => work'.new_data
  /\ work.disconnect => work'.disconnect
  /\ \/ work.op = "packets" /\ work' \in PacketsWork \cup NotifyWork
     \/ work.op = "notify" /\ UNCHANGED work
PacketStep(id, c) ==
  /\ Becomes(id, c) /\ Queued(id, c) /\ Onward
  /\ UNCHANGED <<chan, vacant, connection_map, graveyard, phase, linkvars, bufvars>>

\* A step in the packets of a connection keeps the types when it keeps those of
\* the logs.
LEMMA PacketStepType ==
  ASSUME TypeInv, NEW id, NEW c, PacketStep(id, c), DataOK'
  PROVE  TypeInv' /\ SameLinks
<1>1. ConnsOK' /\ SameLinks
  BY ConnKept DEF PacketStep, Becomes, TypeInv
<1>2. QueueOK'
  BY DEF PacketStep, Becomes, Queued, TypeInv, QueueOK
<1>3. WorkOK'
  <2>1. work.id \in Slot /\ Live(work.id)
    BY DEF PacketStep, Onward, TypeInv, WorkOK, OfLive
  <2>2. work' \in PacketsWork \/ work' \in NotifyWork
    BY WorkIs DEF PacketStep, Onward, TypeInv
  <2>3. work'.id = work.id
    BY DEF PacketStep, Onward
  <2> QED BY <1>1, <2>1, <2>2, <2>3, WorkKept
<1> QED BY <1>1, <1>2, <1>3, PartsStay, LinksKept DEF PacketStep, TypeInv, linkvars

\* A connection left as it is, with one more ack, or rescheduled.
LEMMA StaysIs ==
  ASSUME TypeInv, NEW id \in Slot, Live(id), UNCHANGED <<conns, readyqueue>>
  PROVE  Becomes(id, conns[id]) /\ Queued(id, conns[id])
<1>1. conns[id] \in Connection /\ Len(conns[id].inflight) <= MaxInflight
  BY LiveIs DEF TypeInv, ConnsOK
<1>2. conns' = [conns EXCEPT ![id] = conns[id]]
  BY DEF TypeInv, ConnsOK
<1> QED BY <1>1, <1>2 DEF Becomes, Queued

\* A packet that is acked is no CONNACK.
LEMMA AcksIs ==
  ASSUME NEW c \in Connection
  PROVE  "ConnAck" \in Range(Acked(c).acks) <=> "ConnAck" \in Range(c.acks)
<1> DEFINE A == {"ConnAck", "DeviceAck"}
<1>1. c.acks \in Seq(A) /\ "DeviceAck" \in A
  BY DEF Connection
<1>2. Acked(c).acks = Append(c.acks, "DeviceAck")
  BY DEF Acked, Connection
<1> HIDE DEF A
<1>3. \A x : x \in Range(Append(c.acks, "DeviceAck")) <=> x \in Range(c.acks) \/ x = "DeviceAck"
  BY <1>1, AppendIs
<1> QED BY <1>2, <1>3

\* A connection that gets an ack to send.
LEMMA AckedBecomes ==
  ASSUME TypeInv, NEW id \in Slot, Live(id), conns' = [conns EXCEPT ![id] = Acked(conns[id])],
         UNCHANGED readyqueue
  PROVE  Becomes(id, Acked(conns[id])) /\ Queued(id, Acked(conns[id]))
<1>1. conns[id] \in Connection /\ Len(conns[id].inflight) <= MaxInflight
  BY LiveIs DEF TypeInv, ConnsOK
<1> QED BY <1>1, AckedIs, AcksIs DEF Becomes, Queued

\* What rescheduling does to a connection: its state becomes Ready, and then
\* its id is queued, or nothing changes.
LEMMA RescheduleIs ==
  ASSUME NEW id, NEW c \in Connection, NEW reason, Reschedule(id, c, reason)
  PROVE  \E d \in Connection :
           /\ d.link = c.link /\ d.subs = c.subs /\ d.requests = c.requests
           /\ d.inflight = c.inflight /\ d.acks = c.acks
           /\ conns' = [conns EXCEPT ![id] = d]
           /\ \/ UNCHANGED readyqueue /\ d.status = c.status
              \/ readyqueue' = Append(readyqueue, id) /\ d.status = "Ready"
           /\ reason \in {"Init", "Ready"} => d.status = "Ready"
<1> DEFINE d == IF Wakes(reason, c.status) THEN [c EXCEPT !.status = "Ready"] ELSE c
<1>1. /\ d \in Connection /\ d.link = c.link /\ d.subs = c.subs /\ d.requests = c.requests
      /\ d.inflight = c.inflight /\ d.acks = c.acks
      /\ d.status = IF Wakes(reason, c.status) THEN "Ready" ELSE c.status
  BY DEF Connection
<1>2. conns' = [conns EXCEPT ![id] = d]
  BY DEF Reschedule
<1>3. readyqueue' = IF Wakes(reason, c.status) THEN Append(readyqueue, id) ELSE readyqueue
  BY DEF Reschedule
<1> HIDE DEF d
<1>4. reason \in {"Init", "Ready"} => Wakes(reason, c.status) \/ c.status = "Ready"
  BY DEF Wakes
<1> QED BY <1>1, <1>2, <1>3, <1>4

\* A connection becomes c, and is rescheduled.
LEMMA RescheduleBecomes ==
  ASSUME TypeInv, NEW id \in Slot, Live(id), NEW c \in Connection, NEW reason,
         Len(c.inflight) <= MaxInflight, c.link = conns[id].link, c.status = conns[id].status,
         "ConnAck" \in Range(c.acks) <=> "ConnAck" \in Range(conns[id].acks),
         Range(c.inflight) \subseteq Range(conns[id].inflight),
         Reschedule(id, c, reason)
  PROVE  \E d : /\ Becomes(id, d) /\ Queued(id, d)
                /\ d.subs = c.subs /\ d.requests = c.requests
<1>1. PICK d \in Connection :
           /\ d.link = c.link /\ d.subs = c.subs /\ d.requests = c.requests
           /\ d.inflight = c.inflight /\ d.acks = c.acks
           /\ conns' = [conns EXCEPT ![id] = d]
           /\ \/ UNCHANGED readyqueue /\ d.status = c.status
              \/ readyqueue' = Append(readyqueue, id) /\ d.status = "Ready"
           /\ reason \in {"Init", "Ready"} => d.status = "Ready"
  BY RescheduleIs
<1> QED BY <1>1 DEF Becomes, Queued

------------------------------------------------------------------------------
\* The packets that move no request and touch no log, and the end of them.
Plain == Refused \/ Denied \/ PubAck \/ BadAck \/ PingReq \/ PacketsEnd
PlainStep(c) ==
  /\ PacketStep(work.id, c) /\ c.subs = Me.subs /\ c.requests = Me.requests
  /\ work.op = "packets" /\ UNCHANGED datavars

\* What is left behind the head of a sequence.
LEMMA TailKept ==
  ASSUME NEW S, NEW s \in Seq(S), s # <<>>
  PROVE  /\ Tail(s) \in Seq(S) /\ Len(Tail(s)) = Len(s) - 1
         /\ \A x : x \in Range(s) <=> x = Head(s) \/ x \in Range(Tail(s))
<1> DEFINE t == Tail(s)
           h == Head(s)
<1>1. /\ t \in Seq(S) /\ Len(s) \in Nat \ {0} /\ Len(t) = Len(s) - 1 /\ h = s[1]
      /\ \A i \in 1 .. Len(t) : t[i] = s[i + 1]
  OBVIOUS
<1> HIDE DEF t, h
<1>2. ASSUME NEW x PROVE x \in Range(s) <=> x = h \/ x \in Range(t)
  <2>1. ASSUME NEW i \in 1 .. Len(s), s[i] = x PROVE x = h \/ x \in Range(t)
    <3>1. CASE i = 1
      BY <1>1, <2>1, <3>1
    <3>2. CASE i # 1
      <4>1. i - 1 \in 1 .. Len(t) /\ t[i - 1] = s[i - 1 + 1] /\ i - 1 + 1 = i
        BY <1>1, <3>2
      <4> QED BY <1>1, <2>1, <4>1, InRange
    <3> QED BY <3>1, <3>2
  <2>2. ASSUME NEW i \in 1 .. Len(t), t[i] = x PROVE x \in Range(s)
    <3>1. i + 1 \in 1 .. Len(s) /\ s[i + 1] = x
      BY <1>1, <2>2
    <3> QED BY <3>1, InRange
  <2>3. h \in Range(s)
    BY <1>1, InRange
  <2> QED BY <1>1, <2>1, <2>2, <2>3, InRange
<1> QED BY <1>1, <1>2 DEF t, h

\* The packets that touch no log and no subscription, in the terms of
\* PlainStep.
LEMMA PlainIs ==
  ASSUME TypeInv, Plain
  PROVE  \E c : PlainStep(c)
<1>1. work.op = "packets"
  BY DEF Plain, Refused, Denied, PubAck, BadAck, PingReq, PacketsEnd, NextIs
<1>2. /\ work \in PacketsWork /\ work.id \in Slot /\ Live(work.id)
      /\ Me \in Connection /\ Me = conns[work.id] /\ Len(Me.inflight) <= MaxInflight
  BY <1>1, PacketsIs
<1>3. ASSUME NEW type, NextIs(type) PROVE Rest \in Seq(Packet)
  BY <1>3, NextPacketIs
<1>4. work.packets \in Seq(Packet) /\ work.reason \in BOOLEAN
  BY <1>2 DEF PacketsWork
<1>5. ASSUME NEW c, Becomes(work.id, c), Queued(work.id, c), Onward,
             c.subs = Me.subs, c.requests = Me.requests, UNCHANGED datavars,
             UNCHANGED <<chan, vacant, connection_map, graveyard, phase, linkvars, bufvars>>
      PROVE  \E d : PlainStep(d)
  BY <1>1, <1>5 DEF PlainStep, PacketStep
<1>6. CASE Refused
  <2>1. Onward
    <3> DEFINE reason == work.reason \/ Current.type = "Malformed"
    <3>1. work' = [work EXCEPT !.broken = TRUE, !.disconnect = TRUE, !.reason = reason]
      BY <1>6 DEF Refused
    <3>2. reason \in BOOLEAN
      OBVIOUS
    <3> HIDE DEF reason
    <3> QED BY <1>1, <1>2, <1>4, <3>1, <3>2, GoesOnIs DEF Onward
  <2>2. UNCHANGED <<conns, readyqueue>>
    BY <1>6 DEF Refused, slabvars
  <2>3. Becomes(work.id, Me) /\ Queued(work.id, Me)
    BY <1>2, <2>2, StaysIs
  <2> QED BY <1>5, <1>6, <2>1, <2>3 DEF Refused, slabvars, datavars
<1>7. CASE Denied \/ PingReq
  <2>1. Onward
    <3>1. Rest \in Seq(Packet)
      BY <1>3, <1>7 DEF Denied, PingReq
    <3>2. \/ work' = [work EXCEPT !.packets = Rest, !.force_ack = TRUE, !.disconnect = TRUE]
          \/ work' = [work EXCEPT !.packets = Rest, !.force_ack = TRUE]
      BY <1>7 DEF Denied, PingReq
    <3> QED BY <1>1, <1>2, <1>4, <3>1, <3>2, GoesOnIs DEF Onward
  <2>2. conns' = [conns EXCEPT ![work.id] = Acked(Me)] /\ UNCHANGED readyqueue
    BY <1>7 DEF Denied, PingReq
  <2>3. Becomes(work.id, Acked(Me)) /\ Queued(work.id, Acked(Me))
    BY <1>2, <2>2, AckedBecomes
  <2>4. Acked(Me).subs = Me.subs /\ Acked(Me).requests = Me.requests
    BY <1>2, AckedIs
  <2>5. UNCHANGED datavars
        /\ UNCHANGED <<chan, vacant, connection_map, graveyard, phase, linkvars, bufvars>>
    BY <1>7 DEF Denied, PingReq, datavars
  <2> QED BY <1>5, <2>1, <2>3, <2>4, <2>5
<1>8. CASE PubAck
  <2> DEFINE d == [Me EXCEPT !.inflight = Tail(@)]
             Place == [filter : Filter, cursor : Nat]
  <2>1. Onward
    BY <1>1, <1>2, <1>3, <1>4, <1>8, GoesOnIs DEF PubAck, Onward
  <2>2. Me.inflight \in Seq(Place) /\ Me.inflight # <<>>
    BY <1>2, <1>8 DEF Connection, PubAck
  <2>3. /\ Tail(Me.inflight) \in Seq(Place) /\ Len(Tail(Me.inflight)) = Len(Me.inflight) - 1
        /\ Range(Tail(Me.inflight)) \subseteq Range(Me.inflight)
    BY <2>2, TailKept
  <2>4. Len(Tail(Me.inflight)) <= MaxInflight
    <3>1. Len(Me.inflight) \in Nat
      BY <2>2
    <3> QED BY <1>2, <2>3, <3>1, RouterAssumption
  <2>5. /\ d \in Connection /\ d.link = Me.link /\ d.subs = Me.subs /\ d.requests = Me.requests
        /\ d.status = Me.status /\ d.acks = Me.acks /\ d.inflight = Tail(Me.inflight)
    BY <1>2, <2>3 DEF Connection
  <2>6. Reschedule(work.id, d, "IncomingAck") /\ UNCHANGED datavars
        /\ UNCHANGED <<chan, vacant, connection_map, graveyard, phase, linkvars, bufvars>>
    BY <1>8 DEF PubAck, datavars
  <2> HIDE DEF d, Place
  <2>7. PICK c : /\ Becomes(work.id, c) /\ Queued(work.id, c)
                 /\ c.subs = d.subs /\ c.requests = d.requests
    BY <1>2, <2>3, <2>4, <2>5, <2>6, RescheduleBecomes
  <2> QED BY <1>5, <2>1, <2>5, <2>6, <2>7
<1>9. CASE BadAck
  <2> DEFINE d == [Me EXCEPT !.inflight = IF @ = <<>> THEN @ ELSE Tail(@)]
             Place == [filter : Filter, cursor : Nat]
             left == IF Me.inflight = <<>> THEN Me.inflight ELSE Tail(Me.inflight)
  <2>1. Onward
    BY <1>1, <1>2, <1>4, <1>9, GoesOnIs DEF BadAck, Onward
  <2>2. Me.inflight \in Seq(Place)
    BY <1>2 DEF Connection
  <2>3. left \in Seq(Place) /\ Len(left) <= MaxInflight /\ Range(left) \subseteq Range(Me.inflight)
    <3>1. CASE Me.inflight = <<>>
      BY <1>2, <2>2, <3>1
    <3>2. CASE Me.inflight # <<>>
      <4>1. /\ left \in Seq(Place) /\ Len(left) = Len(Me.inflight) - 1
            /\ Range(left) \subseteq Range(Me.inflight)
        BY <2>2, <3>2, TailKept
      <4>2. Len(Me.inflight) \in Nat
        BY <2>2
      <4> QED BY <1>2, <4>1, <4>2, RouterAssumption
    <3> QED BY <3>1, <3>2
  <2>4. d = [Me EXCEPT !.inflight = left]
    OBVIOUS
  <2>5. conns' = [conns EXCEPT ![work.id] = d] /\ UNCHANGED datavars /\ UNCHANGED readyqueue
        /\ UNCHANGED <<chan, vacant, connection_map, graveyard, phase, linkvars, bufvars>>
    BY <1>9 DEF BadAck, datavars
  <2> HIDE DEF left, d
  <2>6. /\ d \in Connection /\ d.link = Me.link /\ d.subs = Me.subs /\ d.requests = Me.requests
        /\ d.status = Me.status /\ d.acks = Me.acks /\ d.inflight = left
    BY <1>2, <2>3, <2>4 DEF Connection
  <2> HIDE DEF Place
  <2>7. Becomes(work.id, d) /\ Queued(work.id, d)
    BY <1>2, <2>3, <2>5, <2>6 DEF Becomes, Queued
  <2> QED BY <1>5, <2>1, <2>5, <2>6, <2>7
<1>10. CASE PacketsEnd
  <2>1. Onward
    <3>1. work' = [op |-> "notify", id |-> work.id, new_data |-> work.new_data,
                   disconnect |-> work.disconnect, reason |-> work.reason]
      BY <1>10 DEF PacketsEnd
    <3>2. work.new_data \in BOOLEAN /\ work.disconnect \in BOOLEAN
      BY <1>2 DEF PacketsWork
    <3>3. work' \in NotifyWork
      BY <1>2, <1>4, <3>1, <3>2 DEF NotifyWork
    <3>4. work'.id = work.id /\ work'.new_data = work.new_data /\ work'.disconnect = work.disconnect
      BY <3>1
    <3> QED BY <1>1, <3>3, <3>4 DEF Onward
  <2>2. UNCHANGED datavars
        /\ UNCHANGED <<chan, vacant, connection_map, graveyard, phase, linkvars, bufvars>>
    BY <1>10 DEF PacketsEnd, datavars
  <2>3. CASE work.force_ack
    <3>1. Reschedule(work.id, Me, "FreshData")
      BY <1>10, <2>3 DEF PacketsEnd
    <3>2. PICK c : /\ Becomes(work.id, c) /\ Queued(work.id, c)
                   /\ c.subs = Me.subs /\ c.requests = Me.requests
      BY <1>2, <3>1, RescheduleBecomes
    <3> QED BY <1>5, <2>1, <2>2, <3>2
  <2>4. CASE ~work.force_ack
    <3>1. UNCHANGED <<conns, readyqueue>>
      BY <1>10, <2>4 DEF PacketsEnd
    <3>2. Becomes(work.id, Me) /\ Queued(work.id, Me)
      BY <1>2, <3>1, StaysIs
    <3> QED BY <1>5, <2>1, <2>2, <3>2
  <2> QED BY <2>3, <2>4
<1> QED BY <1>6, <1>7, <1>8, <1>9, <1>10 DEF Plain

\* A PUBLISH: the logs that match grow, and their waiters are taken.
PublishStep(c, filters, taken) ==
  /\ PacketStep(work.id, c) /\ c.subs = Me.subs /\ c.requests = Me.requests
  /\ work.op = "packets" /\ work'.op = "packets" /\ work'.new_data
  /\ filters \in SUBSET Filter
  /\ log' = [f \in Filter |-> IF f \in filters THEN log[f] + 1 ELSE log[f]]
  /\ waiters' = Taken(filters)
  /\ taken \in Seq(Waiter)
  /\ \A w : w \in Range(taken) <=> \E f \in filters : w \in Range(waiters[f])
  /\ notifications' = notifications \o taken
  /\ UNCHANGED <<subscription_map, graveyard>>

\* Publish, in the terms of PublishStep.
LEMMA PublishIs ==
  ASSUME TypeInv, Publish
  PROVE  \E c, filters, taken : PublishStep(c, filters, taken)
<1> DEFINE p == Current
           filters == p.filters
<1>1. /\ work.op = "packets" /\ work \in PacketsWork /\ work.id \in Slot /\ Live(work.id)
      /\ Me \in Connection /\ Me = conns[work.id] /\ Len(Me.inflight) <= MaxInflight
      /\ Current \in Packet /\ p.type = "Publish" /\ Rest \in Seq(Packet)
  BY NextPacketIs DEF Publish, NextIs
<1>2. filters \in SUBSET Filter /\ p.qos \in {0, 1}
  BY <1>1, PacketIs
<1>3. /\ conns' = IF p.qos = 0 THEN conns ELSE [conns EXCEPT ![work.id] = Acked(Me)]
      /\ log' = [f \in Filter |-> IF f \in filters THEN log[f] + 1 ELSE log[f]]
      /\ waiters' = Taken(filters)
      /\ \E order \in SetToSeqs(filters) :
            notifications' = notifications
                \o FlattenSeq([i \in 1 .. Len(order) |-> waiters[order[i]]])
      /\ work' = [work EXCEPT !.packets = Rest, !.new_data = TRUE,
                              !.force_ack = @ \/ p.qos = 1]
      /\ UNCHANGED <<chan, vacant, connection_map, readyqueue, subscription_map, graveyard, phase,
                     linkvars, bufvars>>
  BY DEF Publish
<1>4. Onward /\ work'.op = "packets" /\ work'.new_data
  <2> DEFINE ack == work.force_ack \/ p.qos = 1
  <2>1. work' = [work EXCEPT !.packets = Rest, !.new_data = TRUE, !.force_ack = ack]
    BY <1>3
  <2>2. ack \in BOOLEAN /\ work.reason \in BOOLEAN
    BY <1>1 DEF PacketsWork
  <2> HIDE DEF ack
  <2>3. /\ work' \in PacketsWork /\ work'.op = "packets" /\ work'.id = work.id
        /\ work.new_data => work'.new_data
        /\ work.disconnect => work'.disconnect
    BY <1>1, <2>1, <2>2, GoesOnIs
  <2>4. work'.new_data
    BY <1>1, <2>1 DEF PacketsWork
  <2> QED BY <1>1, <2>3, <2>4 DEF Onward
<1>5. PICK order \in SetToSeqs(filters) :
            notifications' = notifications
                \o FlattenSeq([i \in 1 .. Len(order) |-> waiters[order[i]]])
  BY <1>3
<1> DEFINE taken == FlattenSeq([i \in 1 .. Len(order) |-> waiters[order[i]]])
<1> HIDE DEF filters
<1>6. /\ taken \in Seq(Waiter)
      /\ \A w : w \in Range(taken) <=> \E f \in filters : w \in Range(waiters[f])
  BY <1>2, TakenIs DEF TypeInv
<1>7. notifications' = notifications \o taken
  BY <1>5
<1> HIDE DEF taken
<1>8. ASSUME NEW c, Becomes(work.id, c), Queued(work.id, c),
             c.subs = Me.subs, c.requests = Me.requests
      PROVE  \E d, fs, t : PublishStep(d, fs, t)
  <2>1. PublishStep(c, filters, taken)
    BY <1>1, <1>2, <1>3, <1>4, <1>6, <1>7, <1>8 DEF PublishStep, PacketStep
  <2> QED BY <2>1
<1>9. CASE p.qos = 0
  <2>1. Becomes(work.id, Me) /\ Queued(work.id, Me)
    BY <1>1, <1>3, <1>9, StaysIs
  <2> QED BY <1>8, <2>1
<1>10. CASE p.qos # 0
  <2>1. Becomes(work.id, Acked(Me)) /\ Queued(work.id, Acked(Me))
    BY <1>1, <1>3, <1>10, AckedBecomes
  <2> QED BY <1>1, <1>8, <2>1, AckedIs
<1> QED BY <1>9, <1>10

\* A SUBSCRIBE: the id goes on the map, a new subscription gets a request.
SubscribeStep(c, f, q) ==
  /\ PacketStep(work.id, c)
  /\ work.op = "packets" /\ f \in Filter
  /\ q \in Request /\ q.filter = f /\ q.cursor = log[f]
  /\ c.subs = Me.subs \cup {f}
  /\ \/ f \in Me.subs /\ c.requests = Me.requests
     \/ c.requests = Append(Me.requests, q)
  /\ subscription_map' = [subscription_map EXCEPT ![f] = @ \cup {work.id}]
  /\ UNCHANGED <<waiters, notifications, log>>

\* Subscribe, in the terms of SubscribeStep.
LEMMA SubscribeIs ==
  ASSUME TypeInv, Subscribe
  PROVE  \E c, f, q : SubscribeStep(c, f, q)
<1> DEFINE f == Current.filter
           q == [filter |-> f, qos |-> Current.qos, cursor |-> log[f]]
<1>1. /\ work.op = "packets" /\ work \in PacketsWork /\ work.id \in Slot /\ Live(work.id)
      /\ Me \in Connection /\ Me = conns[work.id] /\ Len(Me.inflight) <= MaxInflight
      /\ Current \in Packet /\ Current.type = "Subscribe" /\ Rest \in Seq(Packet)
  BY NextPacketIs DEF Subscribe, NextIs
<1>2. f \in Filter /\ Current.qos \in {0, 1}
  BY <1>1, PacketIs
<1>3. q \in Request /\ q.filter = f /\ q.cursor = log[f]
  <2>1. log[f] \in Nat
    BY <1>2 DEF TypeInv, DataOK
  <2> QED BY <1>2, <2>1 DEF Request
<1> DEFINE d == Acked([Me EXCEPT !.subs = @ \cup {f}, !.requests = Append(@, q)])
<1>4. /\ subscription_map' = [subscription_map EXCEPT ![f] = @ \cup {work.id}]
      /\ IF f \in Me.subs
         THEN conns' = [conns EXCEPT ![work.id] = Acked(Me)] /\ UNCHANGED readyqueue
         ELSE Reschedule(work.id, d, "NewFilter")
      /\ work' = [work EXCEPT !.packets = Rest, !.force_ack = TRUE]
      /\ UNCHANGED <<chan, vacant, connection_map, waiters, notifications, log, graveyard, phase,
                     linkvars, bufvars>>
  BY DEF Subscribe
<1>5. Onward
  <2>1. work.reason \in BOOLEAN
    BY <1>1 DEF PacketsWork
  <2> QED BY <1>1, <1>4, <2>1, GoesOnIs DEF Onward
<1>6. Me.subs \in SUBSET Filter /\ Me.requests \in Seq(Request)
  BY <1>1 DEF Connection
<1> HIDE DEF q, f
<1>7. ASSUME NEW c, Becomes(work.id, c), Queued(work.id, c), c.subs = Me.subs \cup {f},
             \/ f \in Me.subs /\ c.requests = Me.requests
             \/ c.requests = Append(Me.requests, q)
      PROVE  \E d_1, f_1, q_1 : SubscribeStep(d_1, f_1, q_1)
  <2>1. SubscribeStep(c, f, q)
    BY <1>1, <1>2, <1>3, <1>4, <1>5, <1>7 DEF SubscribeStep, PacketStep
  <2> QED BY <2>1
<1>8. CASE f \in Me.subs
  <2>1. Becomes(work.id, Acked(Me)) /\ Queued(work.id, Acked(Me))
    BY <1>1, <1>4, <1>8, AckedBecomes
  <2>2. Acked(Me).subs = Me.subs /\ Acked(Me).requests = Me.requests
    BY <1>1, AckedIs
  <2> QED BY <1>7, <1>8, <2>1, <2>2
<1>9. CASE f \notin Me.subs
  <2> DEFINE m == [Me EXCEPT !.subs = @ \cup {f}, !.requests = Append(@, q)]
  <2>1. Me.subs \cup {f} \in SUBSET Filter /\ Append(Me.requests, q) \in Seq(Request)
    BY <1>2, <1>3, <1>6
  <2>2. /\ m \in Connection /\ m.link = Me.link /\ m.subs = Me.subs \cup {f}
        /\ m.requests = Append(Me.requests, q) /\ m.status = Me.status
        /\ m.inflight = Me.inflight /\ m.acks = Me.acks
    BY <1>1, <2>1 DEF Connection
  <2>3. d = Acked(m)
    OBVIOUS
  <2> HIDE DEF m, d
  <2>4. /\ d \in Connection /\ d.link = m.link /\ d.subs = m.subs /\ d.requests = m.requests
        /\ d.status = m.status /\ d.inflight = m.inflight
        /\ "ConnAck" \in Range(d.acks) <=> "ConnAck" \in Range(m.acks)
    BY <2>2, <2>3, AckedIs, AcksIs
  <2>5. Reschedule(work.id, d, "NewFilter")
    BY <1>4, <1>9
  <2>6. PICK c : /\ Becomes(work.id, c) /\ Queued(work.id, c)
                 /\ c.subs = d.subs /\ c.requests = d.requests
    BY <1>1, <2>2, <2>4, <2>5, RescheduleBecomes
  <2> QED BY <1>7, <2>2, <2>4, <2>6
<1> QED BY <1>8, <1>9

\* An UNSUBSCRIBE of a filter the connection is mapped under, or of another.
UnsubscribeStep(c, f) ==
  /\ PacketStep(work.id, c)
  /\ work.op = "packets" /\ f \in Filter
  /\ UNCHANGED <<notifications, log>>
  /\ \/ /\ c.subs = Me.subs /\ c.requests = Me.requests
        /\ UNCHANGED <<subscription_map, waiters>>
     \/ /\ c.subs = Me.subs \ {f} /\ c.requests = Unregistered(Me.requests, f)
        /\ subscription_map' = [subscription_map EXCEPT ![f] = @ \ {work.id}]
        /\ waiters' = [waiters EXCEPT ![f] = RemoveWaiter(@, work.id)]

\* Unsubscribe, in the terms of UnsubscribeStep.
LEMMA UnsubscribeIs ==
  ASSUME TypeInv, Unsubscribe
  PROVE  \E c, f : UnsubscribeStep(c, f)
<1> DEFINE f == Current.filter
           m == [Me EXCEPT !.subs = @ \ {f}, !.requests = Unregistered(@, f)]
           d == Acked(m)
<1>1. /\ work.op = "packets" /\ work \in PacketsWork /\ work.id \in Slot /\ Live(work.id)
      /\ Me \in Connection /\ Me = conns[work.id] /\ Len(Me.inflight) <= MaxInflight
      /\ Current \in Packet /\ Current.type = "Unsubscribe" /\ Rest \in Seq(Packet)
  BY NextPacketIs DEF Unsubscribe, NextIs
<1>2. f \in Filter
  BY <1>1, PacketIs
<1>3. /\ IF work.id \notin subscription_map[f]
         THEN /\ work' = [work EXCEPT !.packets = Rest]
              /\ UNCHANGED <<conns, subscription_map, waiters>>
         ELSE /\ subscription_map' = [subscription_map EXCEPT ![f] = @ \ {work.id}]
              /\ conns' = [conns EXCEPT ![work.id] = d]
              /\ waiters' = [waiters EXCEPT ![f] = RemoveWaiter(@, work.id)]
              /\ work' = [work EXCEPT !.packets = Rest, !.force_ack = TRUE]
      /\ UNCHANGED <<chan, vacant, connection_map, readyqueue, notifications, log, graveyard, phase,
                     linkvars, bufvars>>
  BY DEF Unsubscribe
<1>4. Onward
  <2>1. work.reason \in BOOLEAN
    BY <1>1 DEF PacketsWork
  <2>2. \/ work' = [work EXCEPT !.packets = Rest]
        \/ work' = [work EXCEPT !.packets = Rest, !.force_ack = TRUE]
    BY <1>3
  <2> QED BY <1>1, <2>1, <2>2, GoesOnIs DEF Onward
<1>5. Me.subs \in SUBSET Filter /\ Me.requests \in Seq(Request)
  BY <1>1 DEF Connection
<1> HIDE DEF f
<1>6. CASE work.id \notin subscription_map[f]
  <2>1. Becomes(work.id, Me) /\ Queued(work.id, Me)
    BY <1>1, <1>3, <1>6, StaysIs
  <2>2. UnsubscribeStep(Me, f)
    BY <1>1, <1>2, <1>3, <1>4, <1>6, <2>1 DEF UnsubscribeStep, PacketStep
  <2> QED BY <2>2
<1>7. CASE work.id \in subscription_map[f]
  <2>1. Me.subs \ {f} \in SUBSET Filter /\ Unregistered(Me.requests, f) \in Seq(Request)
    BY <1>5, UnregisteredIs
  <2>2. /\ m \in Connection /\ m.link = Me.link /\ m.subs = Me.subs \ {f}
        /\ m.requests = Unregistered(Me.requests, f) /\ m.status = Me.status
        /\ m.inflight = Me.inflight /\ m.acks = Me.acks
    BY <1>1, <2>1 DEF Connection
  <2>3. /\ conns' = [conns EXCEPT ![work.id] = d] /\ UNCHANGED readyqueue
        /\ subscription_map' = [subscription_map EXCEPT ![f] = @ \ {work.id}]
        /\ waiters' = [waiters EXCEPT ![f] = RemoveWaiter(@, work.id)]
    BY <1>3, <1>7
  <2>4. d = Acked(m)
    OBVIOUS
  <2> HIDE DEF m, d
  <2>5. /\ d \in Connection /\ d.link = m.link /\ d.subs = m.subs /\ d.requests = m.requests
        /\ d.status = m.status /\ d.inflight = m.inflight
        /\ "ConnAck" \in Range(d.acks) <=> "ConnAck" \in Range(m.acks)
    BY <2>2, <2>4, AckedIs, AcksIs
  <2>6. Becomes(work.id, d) /\ Queued(work.id, d)
    BY <1>1, <2>2, <2>3, <2>5 DEF Becomes, Queued
  <2>7. UnsubscribeStep(d, f)
    BY <1>1, <1>2, <1>3, <1>4, <2>2, <2>3, <2>5, <2>6 DEF UnsubscribeStep, PacketStep
  <2> QED BY <2>7
<1> QED BY <1>6, <1>7

\* A waiter that was taken becomes a request of its tracker.
NotifyStep(c, w) ==
  /\ PacketStep(w.id, c) /\ work.op = "notify" /\ UNCHANGED work /\ work.new_data
  /\ notifications # <<>> /\ w = Head(notifications) /\ w \in Waiter
  /\ c.subs = conns[w.id].subs /\ c.requests = Append(conns[w.id].requests, w.request)
  /\ notifications' = Tail(notifications)
  /\ UNCHANGED <<subscription_map, waiters, log>>

\* Notify, in the terms of NotifyStep.
LEMMA NotifyIs ==
  ASSUME TypeInv, \A w \in Range(notifications) : Live(w.id), Notify
  PROVE  \E c, w : NotifyStep(c, w)
<1> DEFINE w == Head(notifications)
           c == conns[w.id]
           d == [c EXCEPT !.requests = Append(@, w.request)]
<1>1. notifications \in Seq(Waiter) /\ notifications # <<>>
  BY DEF TypeInv, DataOK, Notify
<1>2. w \in Waiter /\ w \in Range(notifications)
  BY <1>1, TailKept, SeqFacts
<1>3. w.id \in Slot /\ w.request \in Request /\ Live(w.id)
  BY <1>2 DEF Waiter
<1>4. /\ work.op = "notify" /\ work.new_data /\ UNCHANGED work
      /\ Reschedule(w.id, d, "FreshData")
      /\ notifications' = Tail(notifications)
      /\ UNCHANGED <<chan, vacant, connection_map, subscription_map, waiters, log, graveyard,
                     phase, work, linkvars, bufvars>>
  BY DEF Notify
<1> HIDE DEF w
<1>5. c \in Connection /\ Len(c.inflight) <= MaxInflight
  BY <1>3, LiveIs DEF TypeInv, ConnsOK
<1>6. Append(c.requests, w.request) \in Seq(Request)
  BY <1>3, <1>5 DEF Connection
<1>7. /\ d \in Connection /\ d.link = c.link /\ d.subs = c.subs
      /\ d.requests = Append(c.requests, w.request) /\ d.status = c.status
      /\ d.inflight = c.inflight /\ d.acks = c.acks
  BY <1>5, <1>6 DEF Connection
<1> HIDE DEF d
<1>8. PICK e : /\ Becomes(w.id, e) /\ Queued(w.id, e)
               /\ e.subs = d.subs /\ e.requests = d.requests
  BY <1>3, <1>4, <1>5, <1>7, RescheduleBecomes
<1>9. Onward
  BY <1>4 DEF Onward
<1>10. NotifyStep(e, w)
  BY <1>1, <1>2, <1>4, <1>7, <1>8, <1>9 DEF NotifyStep, PacketStep, w
<1> QED BY <1>10

\* The end of the handler.
LEMMA PayloadEndIs ==
  ASSUME TypeInv, PayloadEnd
  PROVE  /\ work \in NotifyWork /\ work.id \in Slot /\ Live(work.id)
         /\ work.new_data => notifications = <<>>
         /\ \/ ~work.disconnect /\ work' = Idle
            \/ /\ work.disconnect /\ work' \in DisconnectWork
               /\ work'.id = work.id /\ work'.link = NoLink
         /\ UNCHANGED <<chan, slabvars, readyqueue, datavars, phase, linkvars, bufvars>>
<1>1. /\ work \in NotifyWork /\ work.id \in Slot /\ Live(work.id)
      /\ work.new_data => notifications = <<>>
      /\ UNCHANGED <<chan, slabvars, readyqueue, datavars, phase, linkvars, bufvars>>
  BY WorkIs DEF PayloadEnd, TypeInv, WorkOK, OfLive
<1>2. CASE ~work.disconnect
  BY <1>1, <1>2 DEF PayloadEnd
<1>3. CASE work.disconnect
  <2>1. work' = [op |-> "disconnect", id |-> work.id, reason |-> work.reason, link |-> NoLink]
    BY <1>3 DEF PayloadEnd
  <2>2. work.reason \in BOOLEAN
    BY <1>1 DEF NotifyWork
  <2> QED BY <1>1, <1>3, <2>1, <2>2 DEF DisconnectWork
<1> QED BY <1>2, <1>3

\* Every step of the packets keeps the types.
LEMMA PacketsType ==
  ASSUME TypeInv, \A w \in Range(notifications) : Live(w.id), Packets
  PROVE  TypeInv' /\ SameLinks
<1>1. CASE Plain
  <2>1. PICK c : PlainStep(c)
    BY <1>1, PlainIs
  <2>2. DataOK'
    BY <2>1, PartsStay DEF PlainStep, datavars
  <2> QED BY <2>1, <2>2, PacketStepType DEF PlainStep
<1>2. CASE Publish
  <2>1. PICK c, filters, taken : PublishStep(c, filters, taken)
    BY <1>2, PublishIs
  <2>2. DataOK'
    <3>1. notifications \in Seq(Waiter) /\ taken \in Seq(Waiter)
          /\ notifications' = notifications \o taken
      BY <2>1 DEF PublishStep, TypeInv, DataOK
    <3>2. notifications' \in Seq(Waiter)
      BY <3>1
    <3>3. log' \in [Filter -> Nat]
      BY <2>1 DEF PublishStep, TypeInv, DataOK
    <3>4. waiters' \in [Filter -> Seq(Waiter)]
      <4>1. <<>> \in Seq(Waiter)
        OBVIOUS
      <4>2. waiters \in [Filter -> Seq(Waiter)]
        BY DEF TypeInv, DataOK
      <4> QED BY <2>1, <4>1, <4>2 DEF PublishStep, Taken
    <3>5. subscription_map' \in [Filter -> SUBSET Slot]
      BY <2>1 DEF PublishStep, TypeInv, DataOK
    <3> QED BY <3>2, <3>3, <3>4, <3>5 DEF DataOK
  <2> QED BY <2>1, <2>2, PacketStepType DEF PublishStep
<1>3. CASE Subscribe
  <2>1. PICK c, f, q : SubscribeStep(c, f, q)
    BY <1>3, SubscribeIs
  <2>2. work.id \in Slot
    BY <2>1 DEF SubscribeStep, PacketStep, Becomes
  <2>3. DataOK'
    BY <2>1, <2>2 DEF SubscribeStep, TypeInv, DataOK
  <2> QED BY <2>1, <2>3, PacketStepType DEF SubscribeStep
<1>4. CASE Unsubscribe
  <2>1. PICK c, f : UnsubscribeStep(c, f)
    BY <1>4, UnsubscribeIs
  <2>2. f \in Filter /\ waiters[f] \in Seq(Waiter)
    BY <2>1 DEF UnsubscribeStep, TypeInv, DataOK
  <2>3. RemoveWaiter(waiters[f], work.id) \in Seq(Waiter)
    BY <2>2, RemoveWaiterIs
  <2>4. DataOK'
    BY <2>1, <2>3 DEF UnsubscribeStep, TypeInv, DataOK
  <2> QED BY <2>1, <2>4, PacketStepType DEF UnsubscribeStep
<1>5. CASE Notify
  <2>1. PICK c, w : NotifyStep(c, w)
    BY <1>5, NotifyIs
  <2>2. Tail(notifications) \in Seq(Waiter)
    BY <2>1, TailKept DEF NotifyStep, TypeInv, DataOK
  <2>3. DataOK'
    BY <2>1, <2>2 DEF NotifyStep, TypeInv, DataOK
  <2> QED BY <2>1, <2>3, PacketStepType DEF NotifyStep
<1>6. CASE PayloadEnd
  <2>1. /\ work \in NotifyWork /\ work.id \in Slot /\ Live(work.id)
        /\ \/ ~work.disconnect /\ work' = Idle
           \/ /\ work.disconnect /\ work' \in DisconnectWork
              /\ work'.id = work.id /\ work'.link = NoLink
        /\ UNCHANGED <<chan, slabvars, readyqueue, datavars, phase, linkvars, bufvars>>
    BY <1>6, PayloadEndIs
  <2>2. ConnsOK' /\ SameLinks /\ VacantOK' /\ MapOK'
    BY <2>1, PartsStay, LinksKept DEF slabvars
  <2>3. WorkOK'
    <3>1. CASE work' = Idle
      BY <3>1, IdleIs
    <3>2. CASE work' \in DisconnectWork /\ work'.id = work.id
      BY <2>1, <2>2, <3>2, WorkKept
    <3> QED BY <2>1, <3>1, <3>2
  <2> QED BY <2>1, <2>2, <2>3, PartsStay DEF TypeInv, datavars, linkvars, bufvars
<1> QED BY <1>1, <1>2, <1>3, <1>4, <1>5, <1>6 DEF Packets, Plain

------------------------------------------------------------------------------
\* A turn of consume ends: what was not read goes back to the tracker.
ConsumeEnds == NoneLeft \/ IterationsDone \/ InflightFull
EndStep(c) ==
  /\ InConsume /\ work.id \in Slot /\ Live(work.id) /\ Me \in Connection
  /\ conns' = [conns EXCEPT ![work.id] = c] /\ c \in Connection /\ c.link = Me.link
  /\ c.subs = Me.subs /\ c.inflight = Me.inflight /\ c.acks = Me.acks
  /\ \A q : q \in Range(c.requests) <=> q \in Range(Me.requests) \/ q \in Range(work.requests)
  /\ \/ UNCHANGED readyqueue /\ c.status = Me.status
     \/ readyqueue' = Front(readyqueue) /\ c.status \in {"Caughtup", "InflightFull"}
  /\ work' = Idle
  /\ UNCHANGED <<chan, vacant, connection_map, datavars, phase, linkvars, bufvars>>

\* The three ends of a consume, in the terms of EndStep.
LEMMA EndIs ==
  ASSUME TypeInv, ConsumeEnds
  PROVE  \E c : EndStep(c)
<1>1. InConsume
  BY DEF ConsumeEnds, NoneLeft, IterationsDone, InflightFull
<1>2. work \in ConsumeWork /\ work.id \in Slot /\ Live(work.id) /\ Me \in Connection
  BY <1>1, ConsumeIs
<1>3. work.requests \in Seq(Request) /\ Me.requests \in Seq(Request)
  BY <1>2 DEF ConsumeWork, Connection
<1>4. ASSUME NEW left \in Seq(Request), NEW s,
             \A q : q \in Range(left) <=> q \in Range(work.requests),
             s = Me.status \/ s \in {"Caughtup", "InflightFull"},
             conns' = [conns EXCEPT ![work.id] =
                         [[Me EXCEPT !.requests = @ \o left] EXCEPT !.status = s]],
             \/ UNCHANGED readyqueue /\ s = Me.status
             \/ readyqueue' = Front(readyqueue) /\ s \in {"Caughtup", "InflightFull"},
             work' = Idle,
             UNCHANGED <<chan, vacant, connection_map, datavars, phase, linkvars, bufvars>>
      PROVE  \E c : EndStep(c)
  <2> DEFINE rs == Me.requests \o left
             d == [Me EXCEPT !.requests = rs]
             c == [d EXCEPT !.status = s]
  <2>1. /\ rs \in Seq(Request)
        /\ \A q : q \in Range(rs) <=> q \in Range(Me.requests) \/ q \in Range(left)
    BY <1>3, <1>4, JoinIs
  <2>2. conns' = [conns EXCEPT ![work.id] = c]
    BY <1>4
  <2> HIDE DEF rs
  <2>3. /\ d \in Connection /\ d.link = Me.link /\ d.subs = Me.subs /\ d.inflight = Me.inflight
        /\ d.acks = Me.acks /\ d.requests = rs /\ d.status = Me.status
    BY <1>2, <2>1 DEF Connection
  <2> HIDE DEF d
  <2>4. s \in {"Ready", "Caughtup", "InflightFull", "Busy"}
    BY <1>2, <1>4 DEF Connection
  <2>5. /\ c \in Connection /\ c.link = d.link /\ c.subs = d.subs /\ c.inflight = d.inflight
        /\ c.acks = d.acks /\ c.requests = d.requests /\ c.status = s
    BY <2>3, <2>4 DEF Connection
  <2> HIDE DEF c
  <2>6. EndStep(c)
    BY <1>1, <1>2, <1>4, <2>1, <2>2, <2>3, <2>5 DEF EndStep
  <2> QED BY <2>6
<1>5. CASE NoneLeft
  <2>1. Me.requests \o <<>> = Me.requests
    BY <1>3
  <2>2. [Me EXCEPT !.requests = @ \o <<>>] = Me
    BY <1>2, <2>1 DEF Connection
  <2>3. /\ conns' = [conns EXCEPT ![work.id] = [Me EXCEPT !.status = "Caughtup"]]
        /\ readyqueue' = Front(readyqueue) /\ work.requests = <<>> /\ work' = Idle
        /\ UNCHANGED <<chan, vacant, connection_map, datavars, phase, linkvars, bufvars>>
    BY <1>5 DEF NoneLeft, Pause
  <2>4. <<>> \in Seq(Request)
    OBVIOUS
  <2>5. conns' = [conns EXCEPT ![work.id] =
                    [[Me EXCEPT !.requests = @ \o <<>>] EXCEPT !.status = "Caughtup"]]
    BY <2>2, <2>3
  <2> QED BY <1>4, <2>3, <2>4, <2>5
<1>6. CASE IterationsDone
  <2> DEFINE d == [Me EXCEPT !.requests = @ \o work.requests]
  <2>1. Me.requests \o work.requests \in Seq(Request)
    BY <1>3
  <2>2. d \in Connection /\ d.status = Me.status
    BY <1>2, <2>1 DEF Connection
  <2>3. /\ conns' = [conns EXCEPT ![work.id] = d] /\ UNCHANGED readyqueue /\ work' = Idle
        /\ UNCHANGED <<chan, vacant, connection_map, datavars, phase, linkvars, bufvars>>
    BY <1>6 DEF IterationsDone
  <2>4. [d EXCEPT !.status = Me.status] = d
    <3> HIDE DEF d
    <3> QED BY <2>2 DEF Connection
  <2>5. conns' = [conns EXCEPT ![work.id] =
                    [[Me EXCEPT !.requests = @ \o work.requests] EXCEPT !.status = Me.status]]
    BY <2>3, <2>4
  <2> QED BY <1>3, <1>4, <2>3, <2>5
<1>7. CASE InflightFull
  <2> DEFINE q == Head(work.requests)
             left == Requeued(q)
  <2>1. work.requests # <<>> /\ q \in Request /\ Tail(work.requests) \in Seq(Request)
    BY <1>3, <1>7, SeqFacts DEF InflightFull
  <2>2. /\ left \in Seq(Request)
        /\ \A r : r \in Range(left) <=> r \in Range(Tail(work.requests)) \/ r = q
    <3>1. left = Append(Tail(work.requests), q)
      BY DEF Requeued
    <3> HIDE DEF left, q
    <3>2. PICK rest \in Seq(Request) : rest = Tail(work.requests)
      BY <2>1
    <3>3. /\ Append(rest, q) \in Seq(Request)
          /\ \A r : r \in Range(Append(rest, q)) <=> r \in Range(rest) \/ r = q
      BY <2>1, AppendIs
    <3> QED BY <3>1, <3>2, <3>3
  <2>3. \A r : r \in Range(work.requests) <=> r = q \/ r \in Range(Tail(work.requests))
    BY <1>3, <2>1, TailKept
  <2>4. /\ conns' = [conns EXCEPT ![work.id] =
                       [[Me EXCEPT !.requests = @ \o left] EXCEPT !.status = "InflightFull"]]
        /\ readyqueue' = Front(readyqueue) /\ work' = Idle
        /\ UNCHANGED <<chan, vacant, connection_map, datavars, phase, linkvars, bufvars>>
    BY <1>7 DEF InflightFull, Pause
  <2> HIDE DEF q, left
  <2> QED BY <1>4, <2>2, <2>3, <2>4
<1> QED BY <1>5, <1>6, <1>7 DEF ConsumeEnds

\* A turn of consume begins: the requests are drained, the acks go out.
BeginStep(id, c) ==
  /\ readyqueue # <<>> /\ id = Head(readyqueue) /\ id \in Slot /\ Live(id)
  /\ work = Idle
  /\ conns[id] \in Connection
  /\ conns' = [conns EXCEPT ![id] = c] /\ c \in Connection /\ c.link = conns[id].link
  /\ c.subs = conns[id].subs /\ c.status = conns[id].status
  /\ c.inflight = conns[id].inflight /\ c.requests = <<>> /\ c.acks = <<>>
  /\ readyqueue' = Append(Tail(readyqueue), id)
  /\ work' = [op |-> "consume", id |-> id, requests |-> conns[id].requests, count |-> 0]
  /\ IF conns[id].acks = <<>> THEN UNCHANGED <<obuf, sig>>
     ELSE obuf' = [obuf EXCEPT ![c.link] = @ \o conns[id].acks] /\ Signal(c.link)
  /\ cid' = IF "ConnAck" \in Range(conns[id].acks) THEN [cid EXCEPT ![c.link] = id] ELSE cid
  /\ UNCHANGED <<chan, vacant, connection_map, datavars, at, unacked, sent, ibuf>>

\* The start of a consume, in the terms of BeginStep.
LEMMA BeginIs ==
  ASSUME TypeInv, ConsumeBegin
  PROVE  \E id, c : BeginStep(id, c)
<1> DEFINE id == Head(readyqueue)
           d == conns[id]
           c == [d EXCEPT !.requests = <<>>, !.acks = <<>>]
<1>1. readyqueue # <<>> /\ id \in Slot /\ Live(id) /\ work = Idle
  BY DEF ConsumeBegin, Consuming, HeadLive, TypeInv, QueueOK
<1>2. d \in Connection
  BY <1>1, LiveIs DEF TypeInv, ConnsOK
<1>3. /\ c \in Connection /\ c.link = d.link /\ c.inflight = d.inflight /\ c.subs = d.subs
      /\ c.status = d.status /\ c.requests = <<>> /\ c.acks = <<>>
  <2>1. <<>> \in Seq(Request) /\ <<>> \in Seq({"ConnAck", "DeviceAck"})
    OBVIOUS
  <2> QED BY <1>2, <2>1 DEF Connection
<1>4. Contains(d.acks, "ConnAck") <=> "ConnAck" \in Range(d.acks)
  <2>1. d.acks \in Seq({"ConnAck", "DeviceAck"})
    BY <1>2 DEF Connection
  <2> QED BY <2>1, InRange DEF Contains
<1>5. /\ readyqueue' = Append(Tail(readyqueue), id)
      /\ conns' = [conns EXCEPT ![id] = c]
      /\ work' = [op |-> "consume", id |-> id, requests |-> d.requests, count |-> 0]
      /\ IF d.acks = <<>> THEN UNCHANGED <<obuf, sig>>
         ELSE obuf' = [obuf EXCEPT ![d.link] = @ \o d.acks] /\ Signal(d.link)
      /\ cid' = IF Contains(d.acks, "ConnAck") THEN [cid EXCEPT ![d.link] = id] ELSE cid
      /\ UNCHANGED <<chan, vacant, connection_map, datavars, at, unacked, sent, ibuf>>
  BY DEF ConsumeBegin
<1> HIDE DEF c, id
<1>6. id = Head(readyqueue)
  BY DEF id
<1>7. BeginStep(id, c)
  BY <1>1, <1>2, <1>3, <1>4, <1>5, <1>6 DEF BeginStep
<1> QED BY <1>7

------------------------------------------------------------------------------
\* No step of the router moves a place beyond the end of its log.
LEMMA AheadStays ==
  ASSUME NotAhead, UNCHANGED log
  PROVE  /\ UNCHANGED conns => ConnsWithin'
         /\ UNCHANGED waiters => WaitersWithin'
         /\ UNCHANGED notifications => NoticesWithin'
         /\ UNCHANGED work \/ work'.op # "consume" => WorkWithin'
         /\ UNCHANGED graveyard => SavedWithin'
BY DEF NotAhead, ConnsWithin, WaitersWithin, NoticesWithin, WorkWithin, SavedWithin,
       Within, WithinConn, InConsume, Live

\* One connection changes, and has no request beyond a log.
LEMMA ConnWithinKept ==
  ASSUME TypeInv, NotAhead, UNCHANGED log, NEW id \in Slot, NEW c,
         conns' = [conns EXCEPT ![id] = c], WithinConn(c)
  PROVE  ConnsWithin'
<1>1. \A i \in Slot : conns'[i] = IF i = id THEN c ELSE conns[i]
  BY DEF TypeInv, ConnsOK
<1>2. ASSUME NEW i \in Slot, conns'[i] # Vacant PROVE WithinConn(conns'[i])
  <2>1. CASE i = id
    BY <1>1, <2>1
  <2>2. CASE i # id
    BY <1>1, <1>2, <2>2 DEF NotAhead, ConnsWithin, Live
  <2> QED BY <2>1, <2>2
<1> QED BY <1>2 DEF ConnsWithin, Live, WithinConn, Within

\* A consume moves no request beyond its log.
LEMMA ConsumeAhead ==
  ASSUME TypeInv, NotAhead, Consume
  PROVE  NotAhead'
<1>1. CASE ConsumeNone
  BY <1>1, AheadStays DEF ConsumeNone, slabvars, datavars, NotAhead
<1>2. CASE ConsumeBegin
  <2>1. PICK id, c : BeginStep(id, c)
    BY <1>2, BeginIs
  <2>2. UNCHANGED <<waiters, notifications, log, graveyard>> /\ id \in Slot
        /\ conns' = [conns EXCEPT ![id] = c]
    BY <2>1 DEF BeginStep, datavars
  <2>3. WithinConn(conns[id])
    BY <2>1 DEF BeginStep, NotAhead, ConnsWithin
  <2>4. WithinConn(c)
    <3>1. c.inflight = conns[id].inflight /\ c.requests = <<>>
      BY <2>1 DEF BeginStep
    <3>2. Range(<<>>) = {}
      BY DEF Range
    <3> QED BY <2>3, <3>1, <3>2 DEF WithinConn
  <2>5. ConnsWithin'
    BY <2>2, <2>4, ConnWithinKept
  <2>6. WorkWithin'
    <3>1. work'.requests = conns[id].requests
      BY <2>1 DEF BeginStep
    <3> QED BY <2>2, <2>3, <3>1 DEF WorkWithin, WithinConn, Within
  <2> QED BY <2>2, <2>5, <2>6, AheadStays DEF NotAhead
<1>3. CASE ConsumeEnds
  <2>1. PICK c : EndStep(c)
    BY <1>3, EndIs
  <2>2. UNCHANGED <<waiters, notifications, log, graveyard>> /\ work.id \in Slot /\ work' = Idle
        /\ conns' = [conns EXCEPT ![work.id] = c]
    BY <2>1 DEF EndStep, datavars
  <2>3. WithinConn(c)
    <3>1. WithinConn(Me) /\ \A q \in Range(work.requests) : Within(q)
      BY <2>1 DEF EndStep, Me, NotAhead, ConnsWithin, WorkWithin
    <3> QED BY <2>1, <3>1 DEF EndStep, WithinConn
  <2>4. ConnsWithin'
    BY <2>2, <2>3, ConnWithinKept
  <2>5. work'.op # "consume"
    BY <2>2 DEF Idle
  <2> QED BY <2>2, <2>4, <2>5, AheadStays DEF NotAhead
<1>4. CASE Forward
  <2>1. PICK q, n, moved, conn, pushed :
          /\ Forwarding(q, n, moved, conn, pushed)
          /\ \/ ForwardFills(n, moved, conn, pushed)
             \/ ForwardParks(moved, conn, pushed)
             \/ ForwardRequeues(moved, conn, pushed)
    BY <1>4, ForwardIs
  <2>2. /\ UNCHANGED <<notifications, log, graveyard>> /\ Within(moved) /\ InConsume
        /\ \A s \in Range(conn.inflight) : Within(s)
        /\ conn \in Connection /\ conn.requests = Me.requests /\ work.requests # <<>>
        /\ moved \in Request
    BY <2>1 DEF Forwarding
  <2>3. work \in ConsumeWork /\ work.id \in Slot /\ Live(work.id) /\ Me \in Connection
    BY <2>2, ConsumeIs
  <2>4. work.requests \in Seq(Request)
    BY <2>3 DEF ConsumeWork
  <2>5. \A r \in Range(Me.requests) : Within(r)
    BY <2>3 DEF NotAhead, ConnsWithin, WithinConn, Me
  <2>6. \A r \in Range(work.requests) : Within(r)
    BY <2>2 DEF NotAhead, WorkWithin
  <2>7. Tail(work.requests) \in Seq(Request) /\ \A r \in Range(Tail(work.requests)) : Within(r)
    BY <2>2, <2>4, <2>6, TailKept
  <2>8. Requeued(moved) \in Seq(Request) /\ \A r \in Range(Requeued(moved)) : Within(r)
    <3>1. /\ Requeued(moved) \in Seq(Request)
          /\ \A r : r \in Range(Requeued(moved)) <=> r \in Range(Tail(work.requests)) \/ r = moved
      <4> DEFINE t == Tail(work.requests)
      <4>1. moved \in Request /\ t \in Seq(Request) /\ Requeued(moved) = Append(t, moved)
        BY <2>2, <2>7 DEF Requeued
      <4> HIDE DEF t
      <4>2. /\ Append(t, moved) \in Seq(Request)
            /\ \A r : r \in Range(Append(t, moved)) <=> r \in Range(t) \/ r = moved
        BY <4>1, AppendIs
      <4> QED BY <4>1, <4>2 DEF t
    <3> QED BY <2>2, <2>7, <3>1
  <2>9. CASE ForwardFills(n, moved, conn, pushed)
    <3> DEFINE d == [conn EXCEPT !.requests = @ \o Requeued(moved)]
               c == [d EXCEPT !.status = "Busy"]
               rs == conn.requests \o Requeued(moved)
    <3>1. conns' = [conns EXCEPT ![work.id] = c] /\ work' = Idle /\ UNCHANGED waiters
      BY <2>9 DEF ForwardFills, Pause
    <3>2. /\ rs \in Seq(Request)
          /\ \A r : r \in Range(rs) <=> r \in Range(conn.requests) \/ r \in Range(Requeued(moved))
      <4>1. conn.requests \in Seq(Request)
        BY <2>2 DEF Connection
      <4> QED BY <2>8, <4>1, JoinIs
    <3> HIDE DEF rs
    <3>3. d.requests = rs /\ d.inflight = conn.inflight
      BY <2>2, <3>2 DEF Connection, rs
    <3>4. c.requests = d.requests /\ c.inflight = d.inflight
      OBVIOUS
    <3> HIDE DEF c, d
    <3>5. WithinConn(c)
      BY <2>2, <2>5, <2>8, <3>2, <3>3, <3>4 DEF WithinConn
    <3>6. ConnsWithin'
      BY <2>2, <2>3, <3>1, <3>5, ConnWithinKept
    <3>7. work'.op # "consume"
      BY <3>1 DEF Idle
    <3> QED BY <2>2, <3>1, <3>6, <3>7, AheadStays DEF NotAhead
  <2>10. ASSUME NEW left, ForwardGoesOn(conn, pushed, left),
                \A r \in Range(left) : Within(r), WaitersWithin'
         PROVE  NotAhead'
    <3>1. /\ conns' = [conns EXCEPT ![work.id] = conn]
          /\ work' = [work EXCEPT !.count = @ + 1, !.requests = left]
      BY <2>10 DEF ForwardGoesOn
    <3>2. WithinConn(conn)
      BY <2>2, <2>5 DEF WithinConn
    <3>3. ConnsWithin'
      BY <2>2, <2>3, <3>1, <3>2, ConnWithinKept
    <3>4. work'.requests = left
      BY <2>3, <3>1 DEF ConsumeWork
    <3>5. WorkWithin'
      BY <2>2, <2>10, <3>4 DEF WorkWithin, Within
    <3> QED BY <2>2, <2>10, <3>3, <3>5, AheadStays DEF NotAhead
  <2>11. CASE ForwardParks(moved, conn, pushed)
    <3> DEFINE w == [id |-> work.id, request |-> moved]
    <3>1. w \in Waiter /\ w.request = moved
      BY <2>2, <2>3 DEF Waiter
    <3>2. moved.filter \in Filter
      BY <2>2 DEF Request
    <3>3. waiters' = [waiters EXCEPT ![moved.filter] = Append(@, w)]
      BY <2>11 DEF ForwardParks, Park
    <3> HIDE DEF w
    <3>4. WaitersWithin'
      <4> SUFFICES ASSUME NEW f \in Filter, NEW v \in Range(waiters'[f])
                   PROVE  Within(v.request)
        BY <2>2 DEF WaitersWithin, Within
      <4>1. CASE f # moved.filter
        BY <3>3, <4>1 DEF TypeInv, DataOK, NotAhead, WaitersWithin
      <4>2. CASE f = moved.filter
        <5>1. waiters[f] \in Seq(Waiter) /\ waiters'[f] = Append(waiters[f], w)
          BY <3>3, <4>2 DEF TypeInv, DataOK
        <5>2. v \in Range(waiters[f]) \/ v = w
          BY <3>1, <5>1, AppendIs
        <5> QED BY <2>2, <3>1, <5>2 DEF NotAhead, WaitersWithin
      <4> QED BY <4>1, <4>2
    <3> QED BY <2>7, <2>10, <2>11, <3>4 DEF ForwardParks
  <2>12. CASE ForwardRequeues(moved, conn, pushed)
    <3>1. WaitersWithin'
      BY <2>2, <2>12, AheadStays DEF ForwardRequeues
    <3> QED BY <2>8, <2>10, <2>12, <3>1 DEF ForwardRequeues
  <2> QED BY <2>1, <2>9, <2>11, <2>12
<1> QED BY <1>1, <1>2, <1>3, <1>4 DEF Consume, ConsumeEnds

\* An event moves no request.
LEMMA EventsAhead ==
  ASSUME TypeInv, NotAhead, Events \/ DrainEnd \/ SweepEnd
  PROVE  NotAhead'
<1>1. CASE DrainEnd \/ SweepEnd
  BY <1>1, AheadStays DEF DrainEnd, SweepEnd, slabvars, datavars, NotAhead
<1>2. CASE OnConnect \/ OnDisconnect
  <2>1. work'.op # "consume"
    BY <1>2 DEF OnConnect, OnDisconnect, Idle
  <2> QED BY <1>2, <2>1, AheadStays DEF OnConnect, OnDisconnect, slabvars, datavars, NotAhead
<1>3. CASE OnDeviceData
  <2>1. UNCHANGED work \/ work'.op # "consume"
    BY <1>3 DEF OnDeviceData
  <2> QED BY <1>3, <2>1, AheadStays DEF OnDeviceData, slabvars, datavars, NotAhead
<1>4. CASE OnReady
  <2> DEFINE id == Head(chan).id
  <2>1. id \in Slot
    BY <1>4, ReceiveIs DEF OnReady
  <2>2. /\ IF Live(id) THEN Reschedule(id, conns[id], "Ready")
           ELSE UNCHANGED <<conns, readyqueue>>
        /\ UNCHANGED <<vacant, connection_map, datavars, work, linkvars, bufvars>>
    BY <1>4 DEF OnReady
  <2> HIDE DEF id
  <2>3. ConnsWithin'
    <3>1. CASE Live(id)
      <4>1. conns[id] \in Connection /\ Len(conns[id].inflight) <= MaxInflight
        BY <2>1, <3>1, LiveIs DEF TypeInv, ConnsOK
      <4>2. Reschedule(id, conns[id], "Ready")
        BY <2>2, <3>1
      <4>3. PICK d : /\ Becomes(id, d) /\ Queued(id, d)
                     /\ d.subs = conns[id].subs /\ d.requests = conns[id].requests
        BY <2>1, <3>1, <4>1, <4>2, RescheduleBecomes
      <4>4. WithinConn(conns[id])
        BY <2>1, <3>1 DEF NotAhead, ConnsWithin
      <4>5. WithinConn(d) /\ conns' = [conns EXCEPT ![id] = d]
        BY <4>3, <4>4 DEF WithinConn, Becomes
      <4> QED BY <2>1, <2>2, <4>5, ConnWithinKept DEF datavars
    <3>2. CASE ~Live(id)
      BY <2>2, <3>2, AheadStays DEF datavars
    <3> QED BY <3>1, <3>2
  <2> QED BY <2>2, <2>3, AheadStays DEF datavars, NotAhead
<1> QED BY <1>1, <1>2, <1>3, <1>4 DEF Events

\* A session that comes back has the requests it was saved with.
LEMMA ConnectAhead ==
  ASSUME TypeInv, NotAhead, HandleNewConnection
  PROVE  NotAhead'
<1>1. work'.op # "consume"
  BY DEF HandleNewConnection, Idle
<1>2. CASE Cardinality(LiveIds) >= MaxConnections
  BY <1>1, <1>2, AheadStays DEF HandleNewConnection, slabvars, NotAhead
<1>3. CASE ~(Cardinality(LiveIds) >= MaxConnections)
  <2> DEFINE c == ClientOf[work.link]
             id == Head(vacant)
             d == conns'[id]
  <2>1. /\ c \in Client /\ d.inflight = <<>>
        /\ \/ d.requests = <<>>
           \/ graveyard[c].saved /\ d.requests = graveyard[c].requests
        /\ conns' = [conns EXCEPT ![id] = d]
        /\ graveyard' = [graveyard EXCEPT ![c] = NoSession]
        /\ UNCHANGED <<waiters, notifications, log>>
    BY <1>3, NewConnectionIs
  <2>2. id \in Slot
    BY <1>3, RoomIsVacant
  <2> HIDE DEF c, id, d
  <2>3. Range(<<>>) = {}
    BY DEF Range
  <2>4. WithinConn(d)
    BY <2>1, <2>3 DEF NotAhead, SavedWithin, WithinConn
  <2>5. ConnsWithin'
    BY <2>1, <2>2, <2>4, ConnWithinKept
  <2>6. SavedWithin'
    <3>1. \A k \in Client : graveyard'[k].saved => graveyard[k].saved /\ graveyard'[k] = graveyard[k]
      BY <2>1 DEF TypeInv, GraveOK, NoSession
    <3> QED BY <2>1, <3>1 DEF NotAhead, SavedWithin, Within
  <2> QED BY <1>1, <2>1, <2>5, <2>6, AheadStays DEF NotAhead
<1> QED BY <1>2, <1>3

\* A saved session lies within its logs if the connection did.
LEMMA RewoundWithin ==
  ASSUME NEW rs, NEW all, NEW inflight, RewoundFrom(rs, all, inflight),
         \A q \in Range(all) : Within(q), \A s \in Range(inflight) : Within(s)
  PROVE  \A r \in Range(rs) : Within(r)
<1> SUFFICES ASSUME NEW r \in Range(rs) PROVE Within(r)
  OBVIOUS
<1>1. PICK q \in Range(all) :
       /\ r.filter = q.filter
       /\ r = q \/ \E s \in Range(inflight) : s.filter = q.filter /\ s.cursor = r.cursor
  BY DEF RewoundFrom
<1> QED BY <1>1 DEF Within

\* A session is saved with requests that are not beyond their logs.
LEMMA DisconnectAhead ==
  ASSUME TypeInv, NotAhead, HandleDisconnection
  PROVE  NotAhead'
<1> DEFINE id == work.id
           c  == ClientOf[Me.link]
           g  == graveyard'[c]
<1>1. /\ id \in Slot /\ Live(id) /\ Me \in Connection /\ c \in Client
      /\ conns' = [conns EXCEPT ![id] = Vacant]
      /\ waiters' = [f \in Filter |-> RemoveWaiters(waiters[f], id)]
      /\ graveyard' = [graveyard EXCEPT ![c] = g]
      /\ \/ g = NoSession
         \/ g \in Session /\ RewoundFrom(g.requests, SavedRequests(id), Me.inflight)
      /\ work' = IF work.link = NoLink THEN Idle ELSE [op |-> "connect", link |-> work.link]
      /\ UNCHANGED <<notifications, log>>
  BY DisconnectIs
<1>2. WithinConn(Me) /\ Me = conns[id]
  BY <1>1 DEF NotAhead, ConnsWithin, Me
<1> HIDE DEF id, c, g
<1>3. ConnsWithin'
  <2>1. \A i \in Slot : conns'[i] # Vacant => conns'[i] = conns[i]
    BY <1>1 DEF TypeInv, ConnsOK
  <2> QED BY <1>1, <2>1 DEF NotAhead, ConnsWithin, Live, WithinConn, Within
<1>4. WaitersWithin'
  <2>1. ASSUME NEW f \in Filter, NEW w \in Range(waiters'[f]) PROVE w \in Range(waiters[f])
    <3>1. waiters'[f] = RemoveWaiters(waiters[f], id) /\ waiters[f] \in Seq(Waiter)
      BY <1>1 DEF TypeInv, DataOK
    <3> QED BY <2>1, <3>1, RemoveWaitersIs
  <2> QED BY <1>1, <2>1 DEF NotAhead, WaitersWithin, Within
<1>5. \A q \in Range(SavedRequests(id)) : Within(q)
  <2> SUFFICES ASSUME NEW q \in Range(SavedRequests(id)) PROVE Within(q)
    OBVIOUS
  <2>1. \/ q \in Range(conns[id].requests)
        \/ \E f \in Filter : q \in Range(RequestsOf(waiters[f], id))
    BY <1>1, <1>2, SavedIs DEF TypeInv
  <2>2. ASSUME NEW f \in Filter, q \in Range(RequestsOf(waiters[f], id)) PROVE Within(q)
    <3>1. waiters[f] \in Seq(Waiter)
      BY DEF TypeInv, DataOK
    <3>2. PICK j \in 1 .. Len(waiters[f]) : waiters[f][j].request = q
      BY <2>2, <3>1, RequestsOfIs
    <3>3. waiters[f][j] \in Range(waiters[f])
      BY <3>1, InRange
    <3> QED BY <3>2, <3>3 DEF NotAhead, WaitersWithin
  <2> QED BY <1>2, <2>1, <2>2 DEF WithinConn
<1>6. SavedWithin'
  <2>1. g.saved => \A r \in Range(g.requests) : Within(r)
    BY <1>1, <1>2, <1>5, RewoundWithin DEF WithinConn, NoSession
  <2>2. \A k \in Client : graveyard'[k] = IF k = c THEN g ELSE graveyard[k]
    BY <1>1 DEF TypeInv, GraveOK
  <2> QED BY <1>1, <2>1, <2>2 DEF NotAhead, SavedWithin, Within
<1>7. work'.op # "consume"
  BY <1>1 DEF Idle
<1> QED BY <1>1, <1>3, <1>4, <1>6, <1>7, AheadStays DEF NotAhead

\* What lies within its log still does when the log grows.
LEMMA PublishAhead ==
  ASSUME TypeInv, NotAhead, NEW c, NEW filters, NEW taken, PublishStep(c, filters, taken)
  PROVE  NotAhead'
<1> DEFINE Place == [filter : Filter, cursor : Nat]
<1>1. /\ filters \in SUBSET Filter
      /\ log' = [f \in Filter |-> IF f \in filters THEN log[f] + 1 ELSE log[f]]
      /\ waiters' = [f \in Filter |-> IF f \in filters THEN <<>> ELSE waiters[f]]
      /\ taken \in Seq(Waiter)
      /\ \A w : w \in Range(taken) <=> \E f \in filters : w \in Range(waiters[f])
      /\ notifications' = notifications \o taken
      /\ UNCHANGED graveyard
      /\ c.requests = Me.requests /\ work.op = "packets" /\ work'.op = "packets"
  BY DEF PublishStep, Taken
<1>2. /\ work.id \in Slot /\ Live(work.id) /\ c \in Connection
      /\ Range(c.inflight) \subseteq Range(Me.inflight)
      /\ conns' = [conns EXCEPT ![work.id] = c]
  BY DEF PublishStep, PacketStep, Becomes, Me
<1>3. \A f \in Filter : log[f] \in Nat /\ log'[f] \in Nat /\ log[f] <= log'[f]
  BY <1>1 DEF TypeInv, DataOK
<1>4. ASSUME NEW q, q.filter \in Filter, q.cursor \in Nat, q.cursor <= log[q.filter]
      PROVE  q.cursor <= log'[q.filter]
  BY <1>3, <1>4
<1>5. ASSUME NEW d \in Connection, WithinConn(d)
      PROVE  /\ \A q \in Range(d.requests) : q.cursor <= log'[q.filter]
             /\ \A s \in Range(d.inflight) : s.cursor <= log'[s.filter]
  <2>1. d.requests \in Seq(Request) /\ d.inflight \in Seq(Place)
    BY DEF Connection
  <2>2. ASSUME NEW q \in Range(d.requests) PROVE q.cursor <= log'[q.filter]
    <3>1. q \in Request /\ q.cursor <= log[q.filter]
      BY <1>5, <2>1, RangeOfSeq DEF WithinConn, Within
    <3> QED BY <1>4, <3>1 DEF Request
  <2>3. ASSUME NEW s \in Range(d.inflight) PROVE s.cursor <= log'[s.filter]
    <3>1. s \in Place /\ s.cursor <= log[s.filter]
      BY <1>5, <2>1, RangeOfSeq DEF WithinConn, Within
    <3> QED BY <1>4, <3>1
  <2> QED BY <2>2, <2>3
<1>6. ConnsWithin'
  <2>1. ASSUME NEW i \in Slot, conns'[i] # Vacant
        PROVE  conns'[i] \in Connection /\ WithinConn(conns'[i])
    <3>1. CASE i = work.id
      <4>1. conns'[i] = c /\ WithinConn(conns[i])
        BY <1>2, <3>1 DEF TypeInv, ConnsOK, NotAhead, ConnsWithin
      <4> QED BY <1>1, <1>2, <3>1, <4>1 DEF WithinConn, Me
    <3>2. CASE i # work.id
      <4>1. conns'[i] = conns[i] /\ Live(i)
        BY <1>2, <2>1, <3>2 DEF TypeInv, ConnsOK, Live
      <4> QED BY <4>1, LiveIs DEF TypeInv, NotAhead, ConnsWithin
    <3> QED BY <3>1, <3>2
  <2> QED BY <1>5, <2>1 DEF ConnsWithin, Live, WithinConn, Within
<1>7. ASSUME NEW w \in Waiter, Within(w.request) PROVE w.request.cursor <= log'[w.request.filter]
  BY <1>4, <1>7 DEF Waiter, Request, Within
<1>8. ASSUME NEW f \in Filter, NEW w \in Range(waiters[f]) PROVE w \in Waiter /\ Within(w.request)
  BY RangeOfSeq DEF TypeInv, DataOK, NotAhead, WaitersWithin
<1>9. WaitersWithin'
  <2>1. ASSUME NEW f \in Filter, NEW w \in Range(waiters'[f]) PROVE w \in Range(waiters[f])
    <3>1. Range(<<>>) = {}
      BY DEF Range
    <3> QED BY <1>1, <2>1, <3>1
  <2> QED BY <1>7, <1>8, <2>1 DEF WaitersWithin, Within
<1>10. NoticesWithin'
  <2>1. ASSUME NEW w \in Range(notifications') PROVE w \in Waiter /\ Within(w.request)
    <3>1. notifications \in Seq(Waiter)
      BY DEF TypeInv, DataOK
    <3>2. w \in Range(notifications) \/ w \in Range(taken)
      BY <1>1, <2>1, <3>1, JoinIs
    <3>3. CASE w \in Range(notifications)
      BY <3>1, <3>3, RangeOfSeq DEF NotAhead, NoticesWithin
    <3>4. CASE w \in Range(taken)
      BY <1>1, <1>8, <3>4
    <3> QED BY <3>2, <3>3, <3>4
  <2> QED BY <1>7, <2>1 DEF NoticesWithin, Within
<1>11. SavedWithin'
  <2> SUFFICES ASSUME NEW k \in Client, graveyard[k].saved, NEW q \in Range(graveyard[k].requests)
               PROVE  q.cursor <= log'[q.filter]
    BY <1>1 DEF SavedWithin, Within
  <2>1. graveyard[k] \in Session
    BY DEF TypeInv, GraveOK, NoSession
  <2>2. q \in Request /\ Within(q)
    BY <2>1, RangeOfSeq DEF Session, NotAhead, SavedWithin
  <2> QED BY <1>4, <2>2 DEF Request, Within
<1>12. WorkWithin'
  BY <1>1 DEF WorkWithin, InConsume
<1> QED BY <1>6, <1>9, <1>10, <1>11, <1>12 DEF NotAhead

\* A publish makes logs longer, and a new request starts at the end of its log.
LEMMA PacketsAhead ==
  ASSUME TypeInv, NotAhead, \A w \in Range(notifications) : Live(w.id), Packets
  PROVE  NotAhead'
<1>1. ASSUME NEW id, NEW c, PacketStep(id, c), \A q \in Range(c.requests) : Within(q),
             UNCHANGED log, WaitersWithin', NoticesWithin'
      PROVE  NotAhead'
  <2>1. /\ id \in Slot /\ Live(id) /\ conns' = [conns EXCEPT ![id] = c] /\ UNCHANGED graveyard
        /\ Range(c.inflight) \subseteq Range(conns[id].inflight)
    BY <1>1 DEF PacketStep, Becomes
  <2>2. WithinConn(c)
    BY <1>1, <2>1 DEF NotAhead, ConnsWithin, WithinConn
  <2>3. ConnsWithin'
    BY <1>1, <2>1, <2>2, ConnWithinKept
  <2>4. work'.op # "consume"
    BY <1>1 DEF PacketStep, Onward, PacketsWork, NotifyWork
  <2> QED BY <1>1, <2>1, <2>3, <2>4, AheadStays DEF NotAhead
<1>2. ASSUME NEW c, PacketStep(work.id, c)
      PROVE  /\ Me \in Connection /\ \A q \in Range(Me.requests) : Within(q)
             /\ Me.requests \in Seq(Request) /\ Me = conns[work.id]
  <2>1. work.id \in Slot /\ Live(work.id)
    BY <1>2 DEF PacketStep, Becomes
  <2> QED BY <2>1, LiveIs DEF NotAhead, ConnsWithin, WithinConn, Me, TypeInv, Connection
<1>3. CASE Plain
  <2>1. PICK c : PlainStep(c)
    BY <1>3, PlainIs
  <2> QED BY <1>1, <1>2, <2>1, AheadStays DEF PlainStep, datavars
<1>4. CASE Publish
  BY <1>4, PublishIs, PublishAhead
<1>5. CASE Subscribe
  <2>1. PICK c, f, q : SubscribeStep(c, f, q)
    BY <1>5, SubscribeIs
  <2>2. /\ PacketStep(work.id, c) /\ q \in Request /\ UNCHANGED <<waiters, notifications, log>>
        /\ q.cursor = log[q.filter] /\ q.cursor \in Nat
        /\ c.requests = Me.requests \/ c.requests = Append(Me.requests, q)
    BY <2>1 DEF SubscribeStep, Request
  <2>3. \A r \in Range(c.requests) : r \in Range(Me.requests) \/ r = q
    BY <1>2, <2>2, AppendIs
  <2>4. Within(q)
    BY <2>2 DEF Within
  <2>5. WaitersWithin' /\ NoticesWithin'
    BY <2>2, AheadStays
  <2> QED BY <1>1, <1>2, <2>2, <2>3, <2>4, <2>5
<1>6. CASE Unsubscribe
  <2>1. PICK c, f : UnsubscribeStep(c, f)
    BY <1>6, UnsubscribeIs
  <2>2. /\ PacketStep(work.id, c) /\ f \in Filter /\ UNCHANGED <<notifications, log>>
        /\ c.requests = Me.requests \/ c.requests = Unregistered(Me.requests, f)
        /\ \/ UNCHANGED waiters
           \/ waiters' = [waiters EXCEPT ![f] = RemoveWaiter(@, work.id)]
    BY <2>1 DEF UnsubscribeStep
  <2>3. \A r \in Range(c.requests) : r \in Range(Me.requests)
    BY <1>2, <2>2, UnregisteredIs
  <2>4. NoticesWithin'
    BY <2>2, AheadStays
  <2>5. WaitersWithin'
    <3>1. ASSUME NEW g \in Filter, NEW w \in Range(waiters'[g]) PROVE w \in Range(waiters[g])
      <4>1. waiters[g] \in Seq(Waiter)
        BY DEF TypeInv, DataOK
      <4>2. waiters'[g] = waiters[g] \/ waiters'[g] = RemoveWaiter(waiters[g], work.id)
        BY <2>2 DEF TypeInv, DataOK
      <4> QED BY <3>1, <4>1, <4>2, RemoveWaiterIs
    <3> QED BY <2>2, <3>1 DEF NotAhead, WaitersWithin, Within
  <2> QED BY <1>1, <1>2, <2>2, <2>3, <2>4, <2>5
<1>7. CASE Notify
  <2>1. PICK c, w : NotifyStep(c, w)
    BY <1>7, NotifyIs
  <2>2. /\ PacketStep(w.id, c) /\ w \in Waiter /\ w = Head(notifications)
        /\ notifications # <<>> /\ notifications' = Tail(notifications)
        /\ c.requests = Append(conns[w.id].requests, w.request)
        /\ UNCHANGED <<waiters, log>>
    BY <2>1 DEF NotifyStep
  <2>3. notifications \in Seq(Waiter)
    BY DEF TypeInv, DataOK
  <2>4. \A v : v \in Range(notifications) <=> v = w \/ v \in Range(Tail(notifications))
    BY <2>2, <2>3, TailKept
  <2>5. Within(w.request)
    BY <2>4 DEF NotAhead, NoticesWithin
  <2>6. \A r \in Range(c.requests) : Within(r)
    <3>1. w.id \in Slot /\ Live(w.id) /\ w.request \in Request
      BY <2>2 DEF PacketStep, Becomes, Waiter
    <3>2. /\ conns[w.id].requests \in Seq(Request)
          /\ \A r \in Range(conns[w.id].requests) : Within(r)
      BY <3>1, LiveIs DEF NotAhead, ConnsWithin, WithinConn, TypeInv, Connection
    <3>3. \A r \in Range(c.requests) : r \in Range(conns[w.id].requests) \/ r = w.request
      BY <2>2, <3>1, <3>2, AppendIs
    <3> QED BY <2>5, <3>2, <3>3
  <2>7. WaitersWithin'
    BY <2>2, AheadStays
  <2>8. NoticesWithin'
    BY <2>2, <2>4 DEF NotAhead, NoticesWithin, Within
  <2> QED BY <1>1, <2>2, <2>6, <2>7, <2>8
<1>8. CASE PayloadEnd
  <2>1. work'.op # "consume"
    BY <1>8, PayloadEndIs DEF DisconnectWork, Idle
  <2> QED BY <1>8, <2>1, PayloadEndIs, AheadStays DEF slabvars, datavars, NotAhead
<1> QED BY <1>3, <1>4, <1>5, <1>6, <1>7, <1>8 DEF Packets, Plain

------------------------------------------------------------------------------
\* Waiters are of live connections, and those taken are tracked before the
\* router turns to anything else.
NotificationsHandled ==
  notifications # <<>> => work.op \in {"packets", "notify"} /\ work.new_data
WaitersInv == WaitersLive /\ NotificationsHandled

\* Every waiter, parked or taken, is of a live connection.
LEMMA WaitersThere ==
  ASSUME TypeInv, WaitersInv
  PROVE  /\ \A f \in Filter : \A w \in Range(waiters[f]) :
              w \in Waiter /\ w.id \in Slot /\ Live(w.id) /\ w.request.filter = f
         /\ \A w \in Range(notifications) : w \in Waiter /\ w.id \in Slot /\ Live(w.id)
         /\ work.op \notin {"packets", "notify"} => notifications = <<>>
<1>1. ASSUME NEW w \in Waiter PROVE w.id \in Slot
  BY DEF Waiter
<1>2. \A f \in Filter : \A w \in Range(waiters[f]) : w \in Waiter
  BY RangeOfSeq DEF TypeInv, DataOK
<1>3. \A w \in Range(notifications) : w \in Waiter
  BY RangeOfSeq DEF TypeInv, DataOK
<1> QED BY <1>1, <1>2, <1>3 DEF WaitersInv, WaitersLive, NotificationsHandled

\* Waiters are live after a step that keeps the connections when those it
\* leaves were.
LEMMA WaitersKept ==
  ASSUME SameLinks, NotificationsHandled',
         \A f \in Filter : \A w \in Range(waiters'[f]) :
           w.id \in Slot /\ Live(w.id) /\ w.request.filter = f,
         \A w \in Range(notifications') : w.id \in Slot /\ Live(w.id)
  PROVE  WaitersInv'
<1>1. \A i \in Slot : Live(i) => conns'[i] # Vacant
  BY DEF SameLinks, Live
<1> QED BY <1>1 DEF WaitersInv, WaitersLive, Live

\* A step that touches neither waiters nor connections.
LEMMA WaitersStay ==
  ASSUME TypeInv, WaitersInv, SameLinks, UNCHANGED <<waiters, notifications>>,
         UNCHANGED work \/ work.op \notin {"packets", "notify"}
  PROVE  WaitersInv'
<1>1. NotificationsHandled'
  BY DEF WaitersInv, NotificationsHandled
<1> QED BY <1>1, WaitersThere, WaitersKept

\* A consume parks requests of the connection it consumes, which is live.
LEMMA ConsumeWaiters ==
  ASSUME TypeInv, NotAhead, WaitersInv, Consume, SameLinks
  PROVE  WaitersInv'
<1>1. CASE ConsumeNone
  BY <1>1, WaitersStay DEF ConsumeNone, datavars
<1>2. CASE ConsumeBegin
  <2>1. PICK id, c : BeginStep(id, c)
    BY <1>2, BeginIs
  <2>2. UNCHANGED <<waiters, notifications>> /\ work.op \notin {"packets", "notify"}
    BY <2>1 DEF BeginStep, datavars, Idle
  <2> QED BY <2>2, WaitersStay
<1>3. CASE ConsumeEnds
  <2>1. PICK c : EndStep(c)
    BY <1>3, EndIs
  <2>2. UNCHANGED <<waiters, notifications>> /\ work.op \notin {"packets", "notify"}
    BY <2>1 DEF EndStep, datavars, InConsume
  <2> QED BY <2>2, WaitersStay
<1>4. CASE Forward
  <2>1. PICK q, n, moved, conn, pushed :
          /\ Forwarding(q, n, moved, conn, pushed)
          /\ \/ ForwardFills(n, moved, conn, pushed)
             \/ ForwardParks(moved, conn, pushed)
             \/ ForwardRequeues(moved, conn, pushed)
    BY <1>4, ForwardIs
  <2>2. UNCHANGED notifications /\ InConsume /\ moved \in Request /\ moved.filter \in Filter
    BY <2>1 DEF Forwarding, Request
  <2>3. work.id \in Slot /\ Live(work.id) /\ work.op \notin {"packets", "notify"}
    BY <2>2, ConsumeIs DEF InConsume
  <2>4. CASE UNCHANGED waiters
    BY <2>2, <2>3, <2>4, WaitersStay
  <2>5. CASE Park(moved)
    <3> DEFINE w == [id |-> work.id, request |-> moved]
    <3>1. w \in Waiter /\ w.id = work.id /\ w.request.filter = moved.filter
      BY <2>2, <2>3 DEF Waiter
    <3>2. waiters' = [waiters EXCEPT ![moved.filter] = Append(@, w)]
      BY <2>5 DEF Park
    <3> HIDE DEF w
    <3>3. ASSUME NEW f \in Filter, NEW v \in Range(waiters'[f])
          PROVE  v.id \in Slot /\ Live(v.id) /\ v.request.filter = f
      <4>1. CASE f # moved.filter
        <5>1. waiters'[f] = waiters[f]
          BY <3>2, <4>1 DEF TypeInv, DataOK
        <5> QED BY <3>3, <5>1, WaitersThere
      <4>2. CASE f = moved.filter
        <5>1. waiters[f] \in Seq(Waiter) /\ waiters'[f] = Append(waiters[f], w)
          BY <3>2, <4>2 DEF TypeInv, DataOK
        <5>2. v \in Range(waiters[f]) \/ v = w
          BY <3>1, <3>3, <5>1, AppendIs
        <5> QED BY <2>3, <3>1, <4>2, <5>2, WaitersThere
      <4> QED BY <4>1, <4>2
    <3>4. notifications = <<>>
      BY <2>3, WaitersThere
    <3>5. NotificationsHandled' /\ \A v \in Range(notifications') : FALSE
      BY <2>2, <3>4 DEF NotificationsHandled, Range
    <3> QED BY <3>3, <3>5, WaitersKept
  <2> QED BY <2>1, <2>4, <2>5 DEF ForwardFills, ForwardParks, ForwardRequeues
<1> QED BY <1>1, <1>2, <1>3, <1>4 DEF Consume, ConsumeEnds

\* An event parks nothing and takes nothing.
LEMMA EventsWaiters ==
  ASSUME TypeInv, WaitersInv, Events \/ DrainEnd \/ SweepEnd, SameLinks
  PROVE  WaitersInv'
<1>1. work.op \notin {"packets", "notify"}
  BY DEF Events, OnConnect, OnDeviceData, OnDisconnect, OnReady, Receive, Receiving,
         DrainEnd, SweepEnd, Idle
<1>2. UNCHANGED <<waiters, notifications>>
  BY DEF Events, OnConnect, OnDeviceData, OnDisconnect, OnReady, DrainEnd, SweepEnd, datavars
<1> QED BY <1>1, <1>2, WaitersStay

\* A new connection has no waiter: its id was free, and no waiter names a free
\* id.
LEMMA ConnectWaiters ==
  ASSUME TypeInv, WaitersInv, HandleNewConnection
  PROVE  WaitersInv'
<1>1. UNCHANGED <<waiters, notifications>> /\ notifications = <<>>
  BY WaitersThere DEF HandleNewConnection
<1>2. \A i \in Slot : Live(i) => conns'[i] # Vacant
  <2>1. CASE Cardinality(LiveIds) >= MaxConnections
    BY <2>1 DEF HandleNewConnection, slabvars, Live
  <2>2. CASE ~(Cardinality(LiveIds) >= MaxConnections)
    <3> DEFINE id == Head(vacant)
               d == conns'[id]
    <3>1. d \in Connection /\ conns' = [conns EXCEPT ![id] = d]
      BY <2>2, NewConnectionIs
    <3> HIDE DEF d
    <3>2. d # Vacant
      BY <3>1 DEF Connection, Vacant
    <3> QED BY <3>1, <3>2 DEF TypeInv, ConnsOK, Live
  <2> QED BY <2>1, <2>2
<1>3. NotificationsHandled'
  BY <1>1 DEF NotificationsHandled
<1>4. \A w \in Range(notifications') : FALSE
  BY <1>1 DEF Range
<1> QED BY <1>1, <1>2, <1>3, <1>4, WaitersThere DEF WaitersInv, WaitersLive, Live

\* handle_disconnection takes every waiter of the id it frees.
LEMMA DisconnectWaiters ==
  ASSUME TypeInv, WaitersInv, HandleDisconnection
  PROVE  WaitersInv'
<1> DEFINE id == work.id
<1>1. /\ conns' = [conns EXCEPT ![id] = Vacant]
      /\ waiters' = [f \in Filter |-> RemoveWaiters(waiters[f], id)]
      /\ UNCHANGED notifications
  BY DisconnectIs
<1>2. notifications = <<>>
  BY WaitersThere DEF HandleDisconnection
<1> HIDE DEF id
<1>3. ASSUME NEW f \in Filter, NEW w \in Range(waiters'[f])
      PROVE  w.request.filter = f /\ w.id \in Slot /\ conns'[w.id] # Vacant
  <2>1. waiters[f] \in Seq(Waiter) /\ waiters'[f] = RemoveWaiters(waiters[f], id)
    BY <1>1 DEF TypeInv, DataOK
  <2>2. w \in Range(waiters[f]) /\ w.id # id
    BY <1>3, <2>1, RemoveWaitersIs
  <2>3. w.id \in Slot /\ Live(w.id) /\ w.request.filter = f
    BY <2>2, WaitersThere
  <2> QED BY <1>1, <2>2, <2>3 DEF TypeInv, ConnsOK, Live
<1>4. NotificationsHandled' /\ \A w \in Range(notifications') : FALSE
  BY <1>1, <1>2 DEF NotificationsHandled, Range
<1> QED BY <1>3, <1>4 DEF WaitersInv, WaitersLive, Live

\* The packets of a connection move waiters to the notifications and on to
\* their trackers.
LEMMA PacketsWaiters ==
  ASSUME TypeInv, WaitersInv, Packets, SameLinks
  PROVE  WaitersInv'
<1>1. \A w \in Range(notifications) : Live(w.id)
  BY WaitersThere
<1>2. ASSUME NEW id, NEW c, PacketStep(id, c), notifications' # <<>> => notifications # <<>>
      PROVE  NotificationsHandled'
  <2>1. Onward
    BY <1>2 DEF PacketStep
  <2>2. work'.op \in {"packets", "notify"}
    BY <2>1 DEF Onward, PacketsWork, NotifyWork
  <2> QED BY <1>2, <2>1, <2>2 DEF Onward, WaitersInv, NotificationsHandled
<1>3. CASE Plain
  <2>1. PICK c : PlainStep(c)
    BY <1>3, PlainIs
  <2>2. UNCHANGED <<waiters, notifications>> /\ NotificationsHandled'
    BY <1>2, <2>1 DEF PlainStep, datavars
  <2> QED BY <2>2, WaitersThere, WaitersKept
<1>4. CASE Publish
  <2>1. PICK c, filters, taken : PublishStep(c, filters, taken)
    BY <1>4, PublishIs
  <2>2. /\ filters \in SUBSET Filter
        /\ waiters' = [f \in Filter |-> IF f \in filters THEN <<>> ELSE waiters[f]]
        /\ taken \in Seq(Waiter)
        /\ \A w : w \in Range(taken) <=> \E f \in filters : w \in Range(waiters[f])
        /\ notifications' = notifications \o taken
        /\ work'.op = "packets" /\ work'.new_data
    BY <2>1 DEF PublishStep, Taken
  <2>3. NotificationsHandled'
    BY <2>2 DEF NotificationsHandled
  <2>4. ASSUME NEW f \in Filter, NEW w \in Range(waiters'[f]) PROVE w \in Range(waiters[f])
    <3>1. Range(<<>>) = {}
      BY DEF Range
    <3> QED BY <2>2, <2>4, <3>1
  <2>5. ASSUME NEW w \in Range(notifications') PROVE w.id \in Slot /\ Live(w.id)
    <3>1. notifications \in Seq(Waiter)
      BY DEF TypeInv, DataOK
    <3>2. w \in Range(notifications) \/ w \in Range(taken)
      BY <2>2, <2>5, <3>1, JoinIs
    <3> QED BY <2>2, <3>2, WaitersThere
  <2> QED BY <2>3, <2>4, <2>5, WaitersThere, WaitersKept
<1>5. CASE Subscribe
  <2>1. PICK c, f, q : SubscribeStep(c, f, q)
    BY <1>5, SubscribeIs
  <2>2. UNCHANGED <<waiters, notifications>> /\ NotificationsHandled'
    BY <1>2, <2>1 DEF SubscribeStep
  <2> QED BY <2>2, WaitersThere, WaitersKept
<1>6. CASE Unsubscribe
  <2>1. PICK c, f : UnsubscribeStep(c, f)
    BY <1>6, UnsubscribeIs
  <2>2. /\ f \in Filter /\ UNCHANGED notifications /\ NotificationsHandled'
        /\ \/ UNCHANGED waiters
           \/ waiters' = [waiters EXCEPT ![f] = RemoveWaiter(@, work.id)]
    BY <1>2, <2>1 DEF UnsubscribeStep
  <2>3. ASSUME NEW g \in Filter, NEW w \in Range(waiters'[g]) PROVE w \in Range(waiters[g])
    <3>1. waiters[g] \in Seq(Waiter)
      BY DEF TypeInv, DataOK
    <3>2. waiters'[g] = waiters[g] \/ waiters'[g] = RemoveWaiter(waiters[g], work.id)
      BY <2>2 DEF TypeInv, DataOK
    <3> QED BY <2>3, <3>1, <3>2, RemoveWaiterIs
  <2> QED BY <2>2, <2>3, WaitersThere, WaitersKept
<1>7. CASE Notify
  <2>1. PICK c, w : NotifyStep(c, w)
    BY <1>1, <1>7, NotifyIs
  <2>2. /\ PacketStep(w.id, c) /\ notifications # <<>> /\ notifications' = Tail(notifications)
        /\ UNCHANGED waiters
    BY <2>1 DEF NotifyStep
  <2>3. NotificationsHandled'
    BY <1>2, <2>2
  <2>4. \A v \in Range(notifications') : v \in Range(notifications)
    BY <2>2, TailKept DEF TypeInv, DataOK
  <2> QED BY <2>2, <2>3, <2>4, WaitersThere, WaitersKept
<1>8. CASE PayloadEnd
  <2>1. notifications = <<>>
    BY <1>8, PayloadEndIs DEF WaitersInv, NotificationsHandled
  <2>2. UNCHANGED <<waiters, notifications>>
    BY <1>8 DEF PayloadEnd, datavars
  <2>3. NotificationsHandled'
    BY <2>1, <2>2 DEF NotificationsHandled
  <2> QED BY <2>2, <2>3, WaitersThere, WaitersKept
<1> QED BY <1>3, <1>4, <1>5, <1>6, <1>7, <1>8 DEF Packets, Plain

------------------------------------------------------------------------------
\* The inductive invariant.
Core == TypeInv /\ NotAhead /\ WaitersInv

\* Every step of a consume keeps the types.
LEMMA ConsumeType ==
  ASSUME TypeInv, NotAhead, Consume
  PROVE  TypeInv' /\ SameLinks
BY ConsumeNoneType, ConsumeBeginType, NoneLeftType, IterationsDoneType, InflightFullType,
   ForwardType DEF Consume

\* Every event keeps the types.
LEMMA EventsType ==
  ASSUME TypeInv, Events \/ DrainEnd \/ SweepEnd
  PROVE  TypeInv' /\ SameLinks
BY PhaseStepType, OnConnectType, OnDeviceDataType, OnDisconnectType, OnReadyType DEF Events

\* The initial state is in Core.
LEMMA CoreInit ==
  ASSUME Init
  PROVE  Core
<1>1. 0 \in Slot /\ NoId \notin Slot
  BY RouterAssumption DEF Slot, NoId
<1>2. \A id \in Slot : ~Live(id)
  BY DEF Init, Live
<1>3. ConnsOK
  BY <1>2 DEF Init, ConnsOK
<1>4. VacantOK
  <2>1. /\ vacant \in Seq(Slot) /\ Len(vacant) = MaxConnections
        /\ \A i \in 1 .. MaxConnections : vacant[i] = i - 1
    BY RouterAssumption DEF Init, Slot
  <2>2. DOMAIN vacant = 1 .. MaxConnections
    BY DEF Init
  <2>3. IsInjective(vacant)
    BY <2>1, <2>2, RouterAssumption DEF IsInjective
  <2>4. ASSUME NEW id \in Slot PROVE id \in Range(vacant)
    <3>1. id + 1 \in 1 .. MaxConnections /\ id + 1 - 1 = id
      BY RouterAssumption DEF Slot
    <3>2. id \in Int
      BY RouterAssumption DEF Slot
    <3> DEFINE i == id + 1
    <3>3. i \in 1 .. MaxConnections /\ i - 1 = id
      BY <3>1, <3>2
    <3> HIDE DEF i
    <3>4. vacant[i] = id
      BY <2>1, <3>3
    <3> QED BY <2>1, <3>3, <3>4, InRange
  <2> QED BY <1>2, <2>1, <2>3, <2>4 DEF VacantOK
<1>5. MapOK
  BY DEF Init, MapOK
<1>6. QueueOK /\ ChanOK
  BY RouterAssumption DEF Init, QueueOK, ChanOK
<1>7. DataOK /\ GraveOK
  BY DEF Init, DataOK, GraveOK
<1>8. PhaseOK /\ WorkOK
  BY DEF Init, PhaseOK, WorkOK, Idle, OfLive
<1>9. LinksOK
  BY <1>1 DEF Init, LinksOK
<1>10. BufsOK
  <2>1. <<>> \in Seq(Packet) /\ <<>> \in Seq(Notification) /\ 0 \in 0 .. BufferCapacity
    BY RouterAssumption
  <2> QED BY <2>1 DEF Init, BufsOK
<1>11. Range(<<>>) = {}
  BY DEF Range
<1>12. NotAhead
  BY <1>2, <1>11 DEF Init, NotAhead, ConnsWithin, WaitersWithin, NoticesWithin, WorkWithin,
         SavedWithin, NoSession, InConsume, Idle
<1>13. WaitersInv
  BY <1>11 DEF Init, WaitersInv, WaitersLive, NotificationsHandled
<1> QED BY <1>3, <1>4, <1>5, <1>6, <1>7, <1>8, <1>9, <1>10, <1>12, <1>13 DEF Core, TypeInv

\* Steps of the router that neither make nor end a connection keep all links.
Steady ==
  \/ Consume \/ Events \/ DrainEnd \/ SweepEnd \/ Packets
  \/ (\E l \in Link : LinkStep(l)) \/ UNCHANGED vars

\* The next-state relation, in the groups the proofs go by.
LEMMA NextIsStep ==
  ASSUME [Next]_vars
  PROVE  Steady \/ HandleNewConnection \/ HandleDisconnection
BY DEF Next, RouterStep, Steady, LinkStep

\* A step of a link leaves waiters and requests alone.
LEMMA CoreStays ==
  ASSUME Core, UNCHANGED routervars
  PROVE  NotAhead' /\ WaitersInv' /\ SameLinks
<1>1. UNCHANGED <<conns, waiters, notifications, log, work, graveyard>>
  BY DEF routervars, slabvars, datavars
<1>2. SameLinks
  BY <1>1, PartsStay DEF Core
<1> QED BY <1>1, <1>2, AheadStays, WaitersStay DEF Core, NotAhead

\* The steps that make and end no connection keep Core.
LEMMA CoreSteady ==
  ASSUME Core, Steady
  PROVE  Core' /\ SameLinks
<1>1. CASE Consume
  BY <1>1, ConsumeType, ConsumeAhead, ConsumeWaiters DEF Core
<1>2. CASE Events \/ DrainEnd \/ SweepEnd
  BY <1>2, EventsType, EventsAhead, EventsWaiters DEF Core
<1>3. CASE Packets
  <2>1. \A w \in Range(notifications) : Live(w.id)
    BY WaitersThere DEF Core
  <2> QED BY <1>3, <2>1, PacketsType, PacketsAhead, PacketsWaiters DEF Core
<1>4. CASE \E l \in Link : LinkStep(l)
  <2>1. PICK l \in Link : LinkStep(l)
    BY <1>4
  <2> QED BY <2>1, LinkStepType, LinkStepFrame, CoreStays DEF Core
<1>5. CASE UNCHANGED vars
  <2>1. UNCHANGED routervars
    BY <1>5 DEF vars, routervars
  <2>2. ChanOK' /\ LinksOK' /\ BufsOK'
    BY <1>5, PartsStay DEF vars, Core, linkvars, bufvars
  <2> QED BY <2>1, <2>2, RouterStays, CoreStays DEF Core, TypeInv
<1> QED BY <1>1, <1>2, <1>3, <1>4, <1>5 DEF Steady

\* Every step keeps Core.
LEMMA CoreStep ==
  ASSUME Core, [Next]_vars
  PROVE  Core'
<1>1. CASE Steady
  BY <1>1, CoreSteady
<1>2. CASE HandleNewConnection
  BY <1>2, HandleNewConnectionType, ConnectAhead, ConnectWaiters DEF Core
<1>3. CASE HandleDisconnection
  BY <1>3, HandleDisconnectionType, DisconnectAhead, DisconnectWaiters DEF Core
<1> QED BY <1>1, <1>2, <1>3, NextIsStep

\* Core is an invariant: the types, no request beyond its log, and no waiter of
\* a connection that is gone.
THEOREM CoreHolds == Spec => []Core
BY CoreInit, CoreStep, PTL DEF Spec

\* In every reachable state every variable has its type; among the parts that
\* are more than that: the channel is within its capacity, the free ids are
\* exactly those no connection has, each once, and the window of a connection
\* is within MaxInflight.
THEOREM TypeCorrect == Spec => []TypeOK
<1>1. Core => TypeOK
  BY TypeInvIsType DEF Core
<1> QED BY <1>1, CoreHolds, PTL

\* handle_disconnection and what comes after it, in whatever order links break,
\* take over and publish: no waiter and no notification of a connection that is
\* gone, so track() never meets a vacant entry.
THEOREM WaitersAreLive == Spec => []WaitersLive
<1>1. Core => WaitersLive
  BY DEF Core, WaitersInv
<1> QED BY <1>1, CoreHolds, PTL

------------------------------------------------------------------------------
\* What the router does at one event that starts no consume, or with none.
EventTaken ==
  LET e == Head(chan) IN
  /\ chan # <<>> /\ chan' = Tail(chan) /\ e \in Event
  /\ \/ /\ e.event = "Connect" /\ work'.link = e.link
        /\ IF connection_map[ClientOf[e.link]] = NoId THEN work'.op = "connect"
           ELSE work'.op = "disconnect" /\ work'.id = connection_map[ClientOf[e.link]]
     \/ e.event = "DeviceData" /\ (UNCHANGED work \/ (work'.op = "packets" /\ ~work'.disconnect))
     \/ /\ e.event = "Disconnect"
        /\ IF Live(e.id) THEN work'.op = "disconnect" /\ work'.id = e.id /\ work'.link = NoLink
           ELSE UNCHANGED work
     \/ e.event = "Ready" /\ ~Live(e.id) /\ UNCHANGED work
EventStep ==
  /\ work = Idle
  /\ EventTaken \/ UNCHANGED <<chan, work>>
  /\ \/ UNCHANGED readyqueue
     \/ readyqueue # <<>> /\ ~Live(Head(readyqueue)) /\ readyqueue' = Tail(readyqueue)
  /\ UNCHANGED <<slabvars, datavars, linkvars, obuf, sig>>

ReadyStep(id, c) ==
  /\ work = Idle /\ UNCHANGED work
  /\ chan # <<>> /\ chan' = Tail(chan) /\ Head(chan).event = "Ready"
  /\ id = Head(chan).id /\ id \in Slot /\ Live(id) /\ conns[id] \in Connection
  /\ conns' = [conns EXCEPT ![id] = c] /\ c \in Connection /\ c.link = conns[id].link
  /\ c.subs = conns[id].subs /\ c.requests = conns[id].requests
  /\ c.acks = conns[id].acks /\ c.inflight = conns[id].inflight
  /\ c.status = "Ready"
  /\ \/ UNCHANGED readyqueue /\ c.status = conns[id].status
     \/ readyqueue' = Append(readyqueue, id)
  /\ UNCHANGED <<vacant, connection_map, datavars, linkvars, bufvars>>

ForwardStep(q, n, moved, conn, pushed) ==
  /\ Forwarding(q, n, moved, conn, pushed)
  /\ \/ ForwardFills(n, moved, conn, pushed)
     \/ ForwardParks(moved, conn, pushed)
     \/ ForwardRequeues(moved, conn, pushed)

NoRoom ==
  /\ work.op = "connect" /\ work' = Idle
  /\ UNCHANGED <<chan, slabvars, readyqueue, datavars, phase, linkvars, bufvars>>
NewConnection ==
  /\ work.op = "connect" /\ HandleNewConnection
  /\ ~(Cardinality(LiveIds) >= MaxConnections)

EventsAre == EventStep \/ \E id, c : ReadyStep(id, c)
ConsumesAre ==
  \/ EventStep
  \/ \E id, c : BeginStep(id, c)
  \/ \E c : EndStep(c)
  \/ \E q, n, moved, conn, pushed : ForwardStep(q, n, moved, conn, pushed)
PacketsAre ==
  \/ \E c : PlainStep(c)
  \/ \E c, filters, taken : PublishStep(c, filters, taken)
  \/ \E c, f, q : SubscribeStep(c, f, q)
  \/ \E c, f : UnsubscribeStep(c, f)
  \/ \E c, w : NotifyStep(c, w)
  \/ PayloadEnd
LinksAre == (\E l \in Link : LinkStep(l)) \/ UNCHANGED vars

\* The events, in the terms of EventsAre.
LEMMA EventsSplit ==
  ASSUME Core, Events \/ DrainEnd \/ SweepEnd
  PROVE  EventsAre
<1>1. CASE DrainEnd \/ SweepEnd
  BY <1>1 DEF DrainEnd, SweepEnd, EventStep, EventsAre, bufvars
<1>2. ASSUME NEW event, Receive(event)
      PROVE  /\ chan # <<>> /\ chan' = Tail(chan) /\ work = Idle
             /\ Head(chan) \in Event /\ Head(chan).event = event /\ Head(chan).id \in Slot
  BY <1>2, ReceiveIs DEF Core, Receive
<1>3. CASE OnConnect
  <2>1. Receive("Connect") /\ UNCHANGED <<slabvars, readyqueue, datavars, linkvars, bufvars>>
    BY <1>3 DEF OnConnect
  <2>2. work' = IF connection_map[ClientOf[Head(chan).link]] = NoId
                THEN [op |-> "connect", link |-> Head(chan).link]
                ELSE [op |-> "disconnect", id |-> connection_map[ClientOf[Head(chan).link]],
                      reason |-> FALSE, link |-> Head(chan).link]
    BY <1>3 DEF OnConnect
  <2>3. EventTaken
    BY <1>2, <2>1, <2>2 DEF EventTaken
  <2> QED BY <1>2, <2>1, <2>3 DEF EventStep, EventsAre, bufvars
<1>4. CASE OnDeviceData
  <2>1. /\ Receive("DeviceData")
        /\ UNCHANGED <<slabvars, readyqueue, datavars, linkvars, obuf, sig>>
    BY <1>4 DEF OnDeviceData
  <2>2. UNCHANGED work \/ (work'.op = "packets" /\ ~work'.disconnect)
    BY <1>4 DEF OnDeviceData
  <2>3. EventTaken
    BY <1>2, <2>1, <2>2 DEF EventTaken
  <2> QED BY <1>2, <2>1, <2>3 DEF EventStep, EventsAre
<1>5. CASE OnDisconnect
  <2>1. Receive("Disconnect") /\ UNCHANGED <<slabvars, readyqueue, datavars, linkvars, bufvars>>
    BY <1>5 DEF OnDisconnect
  <2>2. work' = IF ~Live(Head(chan).id) THEN Idle
                ELSE [op |-> "disconnect", id |-> Head(chan).id, reason |-> FALSE, link |-> NoLink]
    BY <1>5 DEF OnDisconnect
  <2> DEFINE e == Head(chan)
  <2>3. chan # <<>> /\ chan' = Tail(chan) /\ work = Idle /\ e \in Event /\ e.event = "Disconnect"
    BY <1>2, <2>1
  <2>4. work' = IF ~Live(e.id) THEN Idle
                ELSE [op |-> "disconnect", id |-> e.id, reason |-> FALSE, link |-> NoLink]
    BY <2>2
  <2> HIDE DEF e
  <2>5. IF Live(e.id) THEN work'.op = "disconnect" /\ work'.id = e.id /\ work'.link = NoLink
        ELSE UNCHANGED work
    BY <2>3, <2>4
  <2>6. EventTaken
    BY <2>3, <2>5 DEF EventTaken, e
  <2> QED BY <1>2, <2>1, <2>6 DEF EventStep, EventsAre, bufvars
<1>6. CASE OnReady
  <2>1. /\ Receive("Ready")
        /\ UNCHANGED <<vacant, connection_map, datavars, work, linkvars, bufvars>>
    BY <1>6 DEF OnReady
  <2>2. CASE ~Live(Head(chan).id)
    <3>1. UNCHANGED <<conns, readyqueue>>
      BY <1>6, <2>2 DEF OnReady
    <3>2. EventTaken
      BY <1>2, <2>1, <2>2 DEF EventTaken
    <3> QED BY <1>2, <2>1, <3>1, <3>2 DEF EventStep, EventsAre, bufvars, slabvars
  <2>3. CASE Live(Head(chan).id)
    <3>1. PICK id \in Slot : id = Head(chan).id
      BY <1>2, <2>1
    <3>2. Live(id) /\ Reschedule(id, conns[id], "Ready")
      BY <1>6, <2>3, <3>1 DEF OnReady
    <3>3. conns[id] \in Connection
      BY <3>2, LiveIs DEF Core, TypeInv
    <3>4. PICK c \in Connection, reason \in {"Init", "Ready"} : c = conns[id] /\ Reschedule(id, c, reason)
      BY <3>2, <3>3
    <3>5. PICK d \in Connection :
            /\ d.link = c.link /\ d.subs = c.subs /\ d.requests = c.requests
            /\ d.inflight = c.inflight /\ d.acks = c.acks
            /\ conns' = [conns EXCEPT ![id] = d]
            /\ \/ UNCHANGED readyqueue /\ d.status = c.status
               \/ readyqueue' = Append(readyqueue, id) /\ d.status = "Ready"
            /\ reason \in {"Init", "Ready"} => d.status = "Ready"
      <4>1. c \in Connection /\ Reschedule(id, c, reason)
        BY <3>4
      <4> QED BY ONLY <4>1, RescheduleIs
    <3>6. ReadyStep(id, d)
      BY <1>2, <2>1, <3>1, <3>2, <3>3, <3>4, <3>5 DEF ReadyStep
    <3> QED BY <3>6 DEF EventsAre
  <2> QED BY <2>2, <2>3
<1> QED BY <1>1, <1>3, <1>4, <1>5, <1>6 DEF Events

\* The steps of a consume, in the terms of ConsumesAre.
LEMMA ConsumesSplit ==
  ASSUME Core, Consume
  PROVE  ConsumesAre
<1>1. CASE ConsumeNone
  <2>1. \/ UNCHANGED readyqueue
        \/ readyqueue # <<>> /\ ~Live(Head(readyqueue)) /\ readyqueue' = Tail(readyqueue)
    BY <1>1 DEF ConsumeNone, HeadLive
  <2>2. work = Idle /\ UNCHANGED <<chan, slabvars, datavars, work, linkvars, bufvars>>
    BY <1>1 DEF ConsumeNone, Consuming
  <2> QED BY <2>1, <2>2 DEF EventStep, ConsumesAre, bufvars
<1>2. CASE ConsumeBegin
  BY <1>2, BeginIs DEF Core, ConsumesAre
<1>3. CASE ConsumeEnds
  BY <1>3, EndIs DEF Core, ConsumesAre
<1>4. CASE Forward
  <2>1. PICK q, n, moved, conn, pushed :
            /\ Forwarding(q, n, moved, conn, pushed)
            /\ \/ ForwardFills(n, moved, conn, pushed)
               \/ ForwardParks(moved, conn, pushed)
               \/ ForwardRequeues(moved, conn, pushed)
    BY <1>4, ForwardIs DEF Core
  <2> QED BY <2>1 DEF ForwardStep, ConsumesAre
<1> QED BY <1>1, <1>2, <1>3, <1>4 DEF Consume, ConsumeEnds

\* The steps of the packets, in the terms of PacketsAre.
LEMMA PacketsSplit ==
  ASSUME Core, Packets
  PROVE  PacketsAre
<1>1. TypeInv /\ \A w \in Range(notifications) : Live(w.id)
  BY WaitersThere DEF Core
<1>2. CASE Plain
  BY <1>1, <1>2, PlainIs DEF PacketsAre
<1>3. CASE Publish
  BY <1>1, <1>3, PublishIs DEF PacketsAre
<1>4. CASE Subscribe
  BY <1>1, <1>4, SubscribeIs DEF PacketsAre
<1>5. CASE Unsubscribe
  BY <1>1, <1>5, UnsubscribeIs DEF PacketsAre
<1>6. CASE Notify
  BY <1>1, <1>6, NotifyIs DEF PacketsAre
<1>7. CASE PayloadEnd
  BY <1>7 DEF PacketsAre
<1> QED BY <1>2, <1>3, <1>4, <1>5, <1>6, <1>7 DEF Packets, Plain

\* A connect finds room or not.
LEMMA ConnectSplit ==
  ASSUME HandleNewConnection
  PROVE  NoRoom \/ NewConnection
BY DEF HandleNewConnection, NoRoom, NewConnection, datavars

\* Every step is one of these.
LEMMA StepIs ==
  ASSUME Core, [Next]_vars
  PROVE  \/ LinksAre \/ EventsAre \/ ConsumesAre \/ PacketsAre
         \/ NoRoom \/ NewConnection \/ HandleDisconnection
<1>1. CASE Consume
  BY <1>1, ConsumesSplit
<1>2. CASE Events \/ DrainEnd \/ SweepEnd
  BY <1>2, EventsSplit
<1>3. CASE Packets
  BY <1>3, PacketsSplit
<1>4. CASE HandleNewConnection
  BY <1>4, ConnectSplit
<1>5. CASE (\E l \in Link : LinkStep(l)) \/ UNCHANGED vars
  BY <1>5 DEF LinksAre
<1> QED BY <1>1, <1>2, <1>3, <1>4, <1>5, NextIsStep DEF Steady

\* Links change nothing the router alone changes.
LEMMA LinksFrame ==
  ASSUME LinksAre
  PROVE  UNCHANGED routervars
BY LinkStepFrame DEF LinksAre, vars, routervars

------------------------------------------------------------------------------
\* While no log grows and no waiter is added, what is parked stays caught up.
LEMMA ParkedStays ==
  ASSUME ParkedIsCaughtUp, UNCHANGED log,
         \A f \in Filter : Range(waiters'[f]) \subseteq Range(waiters[f])
  PROVE  ParkedIsCaughtUp'
BY DEF ParkedIsCaughtUp

\* A consume parks a request only at the end of its log.
LEMMA ConsumesParked ==
  ASSUME Core, ParkedIsCaughtUp, ConsumesAre
  PROVE  ParkedIsCaughtUp'
<1>1. CASE EventStep
  BY <1>1, ParkedStays DEF EventStep, datavars
<1>2. CASE \E id, c : BeginStep(id, c)
  BY <1>2, ParkedStays DEF BeginStep, datavars
<1>3. CASE \E c : EndStep(c)
  BY <1>3, ParkedStays DEF EndStep, datavars
<1>4. CASE \E q, n, moved, conn, pushed : ForwardStep(q, n, moved, conn, pushed)
  <2>1. PICK q, n, moved, conn, pushed : ForwardStep(q, n, moved, conn, pushed)
    BY <1>4
  <2>2. moved \in Request /\ UNCHANGED log
    BY <2>1 DEF ForwardStep, Forwarding
  <2>3. CASE UNCHANGED waiters
    BY <2>2, <2>3, ParkedStays
  <2>4. CASE moved.cursor = log[moved.filter] /\ Park(moved)
    <3> DEFINE g == moved.filter
               w == [id |-> work.id, request |-> moved]
    <3>1. /\ g \in Filter /\ waiters[g] \in Seq(Waiter) /\ w \in Waiter
          /\ waiters' = [waiters EXCEPT ![g] = Append(@, w)]
          /\ waiters \in [Filter -> Seq(Waiter)]
      <4>1. work.id \in Slot
        BY <2>1, ConsumeIs DEF Core, ForwardStep, Forwarding
      <4> QED BY <2>2, <2>4, <4>1 DEF Park, Core, TypeInv, DataOK, Request, Waiter
    <3>2. w.request = moved
      OBVIOUS
    <3> HIDE DEF w, g
    <3>3. \A x : x \in Range(Append(waiters[g], w)) <=> x \in Range(waiters[g]) \/ x = w
      BY <3>1, AppendIs
    <3>4. ASSUME NEW f \in Filter, NEW x \in Range(waiters'[f])
          PROVE  x.request.cursor = log[f]
      <4>1. CASE f = g
        <5>1. x \in Range(waiters[g]) \/ x = w
          BY <3>1, <3>3, <3>4, <4>1
        <5> QED BY <2>4, <3>2, <4>1, <5>1 DEF ParkedIsCaughtUp, g
      <4>2. CASE f # g
        <5>1. x \in Range(waiters[f])
          BY <3>1, <3>4, <4>2
        <5> QED BY <5>1 DEF ParkedIsCaughtUp
      <4> QED BY <4>1, <4>2
    <3> QED BY <2>2, <3>4 DEF ParkedIsCaughtUp
  <2> QED BY <2>1, <2>3, <2>4 DEF ForwardStep, ForwardFills, ForwardParks, ForwardRequeues
<1> QED BY <1>1, <1>2, <1>3, <1>4 DEF ConsumesAre

\* An append takes the waiters of every log it makes longer.
LEMMA PacketsParked ==
  ASSUME Core, ParkedIsCaughtUp, PacketsAre
  PROVE  ParkedIsCaughtUp'
<1>1. CASE \E c : PlainStep(c)
  BY <1>1, ParkedStays DEF PlainStep, datavars
<1>2. CASE \E c, filters, taken : PublishStep(c, filters, taken)
  <2>1. PICK filters \in SUBSET Filter :
          /\ log' = [f \in Filter |-> IF f \in filters THEN log[f] + 1 ELSE log[f]]
          /\ waiters' = Taken(filters)
    BY <1>2 DEF PublishStep
  <2>2. Range(<<>>) = {}
    BY DEF Range
  <2>3. ASSUME NEW f \in Filter, NEW w \in Range(waiters'[f])
        PROVE  w.request.cursor = log'[f]
    BY <2>1, <2>2, <2>3 DEF Taken, ParkedIsCaughtUp
  <2> QED BY <2>3 DEF ParkedIsCaughtUp
<1>3. CASE \E c, f, q : SubscribeStep(c, f, q)
  BY <1>3, ParkedStays DEF SubscribeStep
<1>4. CASE \E c, f : UnsubscribeStep(c, f)
  <2>1. PICK c, g : UnsubscribeStep(c, g)
    BY <1>4
  <2>2. CASE UNCHANGED waiters
    BY <2>1, <2>2, ParkedStays DEF UnsubscribeStep
  <2>3. CASE waiters' = [waiters EXCEPT ![g] = RemoveWaiter(@, work.id)]
    <3>1. g \in Filter /\ waiters \in [Filter -> Seq(Waiter)]
      BY <2>1 DEF UnsubscribeStep, Core, TypeInv, DataOK
    <3>2. Range(RemoveWaiter(waiters[g], work.id)) \subseteq Range(waiters[g])
      BY <3>1, RemoveWaiterIs
    <3>3. \A f \in Filter : Range(waiters'[f]) \subseteq Range(waiters[f])
      BY <2>3, <3>1, <3>2
    <3> QED BY <2>1, <3>3, ParkedStays DEF UnsubscribeStep
  <2> QED BY <2>1, <2>2, <2>3 DEF UnsubscribeStep
<1>5. CASE \E c, w : NotifyStep(c, w)
  BY <1>5, ParkedStays DEF NotifyStep
<1>6. CASE PayloadEnd
  BY <1>6, ParkedStays DEF PayloadEnd, datavars
<1> QED BY <1>1, <1>2, <1>3, <1>4, <1>5, <1>6 DEF PacketsAre

\* Every step keeps parked requests at the end of their logs.
LEMMA ParkedStep ==
  ASSUME Core, ParkedIsCaughtUp, [Next]_vars
  PROVE  ParkedIsCaughtUp'
<1>1. CASE LinksAre
  BY <1>1, LinksFrame, ParkedStays DEF routervars, datavars
<1>2. CASE EventsAre
  BY <1>2, ParkedStays DEF EventsAre, EventStep, ReadyStep, datavars
<1>3. CASE NoRoom
  BY <1>3, ParkedStays DEF NoRoom, datavars
<1>4. CASE NewConnection
  BY <1>4, ParkedStays DEF NewConnection, HandleNewConnection
<1>5. CASE HandleDisconnection
  <2>1. UNCHANGED log /\ waiters' = [f \in Filter |-> RemoveWaiters(waiters[f], work.id)]
    BY <1>5, DisconnectIs DEF Core
  <2>2. ASSUME NEW f \in Filter PROVE Range(waiters'[f]) \subseteq Range(waiters[f])
    <3>1. waiters[f] \in Seq(Waiter)
      BY DEF Core, TypeInv, DataOK
    <3> QED BY <2>1, <3>1, RemoveWaitersIs
  <2> QED BY <2>1, <2>2, ParkedStays
<1> QED BY <1>1, <1>2, <1>3, <1>4, <1>5, StepIs, ConsumesParked, PacketsParked

\* No lost wake-up: whatever parks has read its log to the end, and no message
\* is appended behind a parked request.
THEOREM NoLostWakeUp == Spec => []ParkedIsCaughtUp
<1>1. Init => ParkedIsCaughtUp
  BY DEF Init, ParkedIsCaughtUp, Range
<1> QED BY <1>1, ParkedStep, CoreHolds, PTL DEF Spec

------------------------------------------------------------------------------
\* The slab after one of its entries is set to a connection.
LEMMA ConnSet ==
  ASSUME TypeInv, NEW id \in Slot, NEW c \in Connection, conns' = [conns EXCEPT ![id] = c]
  PROVE  /\ \A i \in Slot : conns'[i] = IF i = id THEN c ELSE conns[i]
         /\ \A i \in Slot : Live(i)' <=> i = id \/ Live(i)
         /\ c # Vacant
<1>1. c # Vacant
  BY DEF Connection, Vacant
<1>2. \A i \in Slot : conns'[i] = IF i = id THEN c ELSE conns[i]
  BY DEF TypeInv, ConnsOK
<1> QED BY <1>1, <1>2 DEF Live

\* The map stays sound when it gains nothing and no connection loses a
\* subscription it names.
LEMMA MapStays ==
  ASSUME Core, SubscriptionMapSound,
         \A f \in Filter : \A i \in subscription_map'[f] :
           /\ i \in subscription_map[f]
           /\ Live(i) /\ f \in conns[i].subs => Live(i)' /\ f \in conns'[i].subs
  PROVE  SubscriptionMapSound'
BY DEF SubscriptionMapSound

\* In particular when one connection changes and its subscriptions do not.
LEMMA MapKept ==
  ASSUME Core, SubscriptionMapSound, UNCHANGED subscription_map,
         \/ UNCHANGED conns
         \/ \E id \in Slot : \E c \in Connection :
              conns' = [conns EXCEPT ![id] = c] /\ c.subs = conns[id].subs
  PROVE  SubscriptionMapSound'
<1>1. \A f \in Filter : subscription_map[f] \subseteq Slot
  BY DEF Core, TypeInv, DataOK
<1>2. CASE UNCHANGED conns
  BY <1>2, MapStays DEF Live
<1>3. CASE \E id \in Slot : \E c \in Connection :
              conns' = [conns EXCEPT ![id] = c] /\ c.subs = conns[id].subs
  <2>1. PICK id \in Slot, c \in Connection :
          conns' = [conns EXCEPT ![id] = c] /\ c.subs = conns[id].subs
    BY <1>3
  <2>2. /\ \A i \in Slot : conns'[i] = IF i = id THEN c ELSE conns[i]
        /\ \A i \in Slot : Live(i)' <=> i = id \/ Live(i)
    <3>1. TypeInv /\ conns' = [conns EXCEPT ![id] = c]
      BY <2>1 DEF Core
    <3> QED BY ONLY <3>1, ConnSet
  <2> QED BY <1>1, <2>1, <2>2, MapStays
<1> QED BY <1>2, <1>3

\* SUBSCRIBE and UNSUBSCRIBE change the map and the subscriptions alike.
LEMMA PacketsMap ==
  ASSUME Core, SubscriptionMapSound, PacketsAre
  PROVE  SubscriptionMapSound'
<1>1. CASE \E c : PlainStep(c)
  BY <1>1, MapKept DEF PlainStep, PacketStep, Becomes, datavars, Me
<1>2. CASE \E c, filters, taken : PublishStep(c, filters, taken)
  BY <1>2, MapKept DEF PublishStep, PacketStep, Becomes, Me
<1>3. CASE \E c, f, q : SubscribeStep(c, f, q)
  <2>1. PICK c, g, q : SubscribeStep(c, g, q)
    BY <1>3
  <2>2. /\ work.id \in Slot /\ Live(work.id) /\ c \in Connection
        /\ conns' = [conns EXCEPT ![work.id] = c] /\ c.subs = conns[work.id].subs \cup {g}
        /\ subscription_map' = [subscription_map EXCEPT ![g] = @ \cup {work.id}]
        /\ subscription_map \in [Filter -> SUBSET Slot]
    BY <2>1 DEF SubscribeStep, PacketStep, Becomes, Me, Core, TypeInv, DataOK
  <2>3. PICK id \in Slot : id = work.id
    BY <2>2
  <2>4. /\ \A i \in Slot : conns'[i] = IF i = id THEN c ELSE conns[i]
        /\ \A i \in Slot : Live(i)' <=> i = id \/ Live(i)
    <3>1. TypeInv /\ c \in Connection /\ conns' = [conns EXCEPT ![id] = c]
      BY <2>2, <2>3 DEF Core
    <3> QED BY ONLY <3>1, ConnSet
  <2>5. ASSUME NEW f \in Filter, NEW i \in subscription_map'[f]
        PROVE  Live(i)' /\ f \in conns'[i].subs
    <3>1. i \in Slot /\ (i \in subscription_map[f] \/ (f = g /\ i = id))
      BY <2>2, <2>3, <2>5
    <3> QED BY <2>2, <2>3, <2>4, <3>1 DEF SubscriptionMapSound
  <2> QED BY <2>5 DEF SubscriptionMapSound
<1>4. CASE \E c, f : UnsubscribeStep(c, f)
  <2>1. PICK c, g : UnsubscribeStep(c, g)
    BY <1>4
  <2>2. /\ work.id \in Slot /\ Live(work.id) /\ c \in Connection
        /\ conns' = [conns EXCEPT ![work.id] = c]
        /\ subscription_map \in [Filter -> SUBSET Slot]
    BY <2>1 DEF UnsubscribeStep, PacketStep, Becomes, Core, TypeInv, DataOK
  <2>3. PICK id \in Slot : id = work.id
    BY <2>2
  <2>4. /\ \A i \in Slot : conns'[i] = IF i = id THEN c ELSE conns[i]
        /\ \A i \in Slot : Live(i)' <=> i = id \/ Live(i)
    <3>1. TypeInv /\ c \in Connection /\ conns' = [conns EXCEPT ![id] = c]
      BY <2>2, <2>3 DEF Core
    <3> QED BY ONLY <3>1, ConnSet
  <2>5. CASE c.subs = Me.subs /\ UNCHANGED subscription_map
    BY <2>2, <2>5, MapKept DEF Me
  <2>6. CASE /\ c.subs = Me.subs \ {g}
             /\ subscription_map' = [subscription_map EXCEPT ![g] = @ \ {work.id}]
    <3>1. ASSUME NEW f \in Filter, NEW i \in subscription_map'[f]
          PROVE  i \in Slot /\ i \in subscription_map[f] /\ (f = g => i # id)
      BY <2>2, <2>3, <2>6, <3>1
    <3>2. ASSUME NEW f \in Filter, NEW i \in subscription_map'[f]
          PROVE  Live(i)' /\ f \in conns'[i].subs
      <4>1. i \in Slot /\ i \in subscription_map[f] /\ (f = g => i # id)
        BY <3>1
      <4>2. Live(i) /\ f \in conns[i].subs
        BY <4>1 DEF SubscriptionMapSound
      <4> QED BY <2>3, <2>4, <2>6, <4>1, <4>2 DEF Me
    <3> QED BY <3>2 DEF SubscriptionMapSound
  <2> QED BY <2>1, <2>5, <2>6 DEF UnsubscribeStep
<1>5. CASE \E c, w : NotifyStep(c, w)
  BY <1>5, MapKept DEF NotifyStep, PacketStep, Becomes
<1>6. CASE PayloadEnd
  BY <1>6, MapKept DEF PayloadEnd, datavars, slabvars
<1> QED BY <1>1, <1>2, <1>3, <1>4, <1>5, <1>6 DEF PacketsAre

\* The connection whose buffer filled, as it is paused.
LEMMA FillsIs ==
  ASSUME Core, NEW q, NEW n, NEW moved, NEW conn, NEW pushed,
         Forwarding(q, n, moved, conn, pushed), ForwardFills(n, moved, conn, pushed)
  PROVE  \E c \in Connection :
           /\ conns' = [conns EXCEPT ![work.id] = c]
           /\ c.status = "Busy" /\ c.link = conn.link /\ c.subs = conn.subs /\ c.acks = conn.acks
           /\ c.requests = conn.requests \o Requeued(moved)
<1> DEFINE rs == conn.requests \o Requeued(moved)
           c == [[conn EXCEPT !.requests = @ \o Requeued(moved)] EXCEPT !.status = "Busy"]
<1>1. conn \in Connection /\ moved \in Request /\ work.requests # <<>> /\ InConsume
  BY DEF Forwarding
<1>2. work.requests \in Seq(Request)
  BY <1>1, ConsumeIs DEF Core, ConsumeWork
<1>3. rs \in Seq(Request)
  <2>1. conn.requests \in Seq(Request)
    BY <1>1 DEF Connection
  <2> QED BY <1>1, <1>2, <2>1, RequeuedIs DEF Requeued
<1>4. c \in Connection /\ c.status = "Busy" /\ c.link = conn.link /\ c.subs = conn.subs
      /\ c.acks = conn.acks /\ c.requests = rs
  BY <1>1, <1>3 DEF Connection
<1>5. conns' = [conns EXCEPT ![work.id] = c]
  BY DEF ForwardFills, Pause
<1> HIDE DEF c
<1> QED BY <1>4, <1>5

\* A consume changes no subscription.
LEMMA ConsumesMap ==
  ASSUME Core, SubscriptionMapSound, ConsumesAre
  PROVE  SubscriptionMapSound'
<1>1. CASE EventStep
  BY <1>1, MapKept DEF EventStep, datavars, slabvars
<1>2. CASE \E id, c : BeginStep(id, c)
  BY <1>2, MapKept DEF BeginStep, datavars
<1>3. CASE \E c : EndStep(c)
  BY <1>3, MapKept DEF EndStep, datavars, Me
<1>4. CASE \E q, n, moved, conn, pushed : ForwardStep(q, n, moved, conn, pushed)
  <2>1. PICK q, n, moved, conn, pushed : ForwardStep(q, n, moved, conn, pushed)
    BY <1>4
  <2>2. /\ work.id \in Slot /\ conn \in Connection /\ conn.subs = conns[work.id].subs
        /\ UNCHANGED subscription_map
    BY <2>1, ConsumeIs DEF ForwardStep, Forwarding, Core, Me
  <2>3. CASE ForwardFills(n, moved, conn, pushed)
    <3>1. Forwarding(q, n, moved, conn, pushed)
      BY <2>1 DEF ForwardStep
    <3>2. \E c \in Connection : conns' = [conns EXCEPT ![work.id] = c] /\ c.subs = conn.subs
      BY <2>3, <3>1, FillsIs
    <3> QED BY <2>2, <3>2, MapKept
  <2>4. CASE conns' = [conns EXCEPT ![work.id] = conn]
    BY <2>2, <2>4, MapKept
  <2> QED BY <2>1, <2>3, <2>4 DEF ForwardStep, ForwardGoesOn, ForwardParks, ForwardRequeues
<1> QED BY <1>1, <1>2, <1>3, <1>4 DEF ConsumesAre

\* Every step keeps the map sound; a connection that goes is taken off the map
\* before its id is free.
LEMMA MapStep ==
  ASSUME Core, SubscriptionMapSound, [Next]_vars
  PROVE  SubscriptionMapSound'
<1>1. CASE LinksAre
  BY <1>1, LinksFrame, MapKept DEF routervars, datavars, slabvars
<1>2. CASE EventsAre
  BY <1>2, MapKept DEF EventsAre, EventStep, ReadyStep, datavars, slabvars
<1>3. CASE NoRoom
  BY <1>3, MapKept DEF NoRoom, datavars, slabvars
<1>4. CASE NewConnection
  <2> DEFINE c == conns'[Head(vacant)]
  <2>1. PICK id \in Slot : id = Head(vacant) /\ ~Live(id)
    BY <1>4, RoomIsVacant DEF NewConnection, Core
  <2>2. /\ c \in Connection /\ conns' = [conns EXCEPT ![Head(vacant)] = c]
        /\ UNCHANGED subscription_map
    BY <1>4, NewConnectionIs DEF NewConnection, Core
  <2>3. PICK d \in Connection : conns' = [conns EXCEPT ![id] = d]
    BY <2>1, <2>2
  <2>4. /\ \A i \in Slot : conns'[i] = IF i = id THEN d ELSE conns[i]
        /\ \A i \in Slot : Live(i)' <=> i = id \/ Live(i)
    BY <2>3, ConnSet DEF Core
  <2>5. \A f \in Filter : subscription_map[f] \subseteq Slot
    BY DEF Core, TypeInv, DataOK
  <2>6. \A f \in Filter : \A i \in subscription_map[f] : i # id
    BY <2>1 DEF SubscriptionMapSound
  <2> QED BY <2>2, <2>4, <2>5, <2>6, MapStays
<1>5. CASE HandleDisconnection
  <2>1. PICK id \in Slot : id = work.id
    BY <1>5, DisconnectIs DEF Core
  <2>2. conns' = [conns EXCEPT ![id] = Vacant] /\ subscription_map' = RemovedFromMap(id)
    BY <1>5, <2>1, DisconnectIs DEF Core
  <2>3. \A i \in Slot : i # id => conns'[i] = conns[i]
    BY <2>2 DEF Core, TypeInv, ConnsOK
  <2>4. ASSUME NEW f \in Filter, NEW i \in subscription_map'[f]
        PROVE  i \in Slot /\ i \in subscription_map[f] /\ i # id
    BY <2>2, <2>4 DEF RemovedFromMap, SubscriptionMapSound, Core, TypeInv, DataOK
  <2> QED BY <2>3, <2>4, MapStays DEF Live
<1> QED BY <1>1, <1>2, <1>3, <1>4, <1>5, StepIs, ConsumesMap, PacketsMap

\* The map of subscriptions names live connections that hold the subscription:
\* no id outlives its connection there, to be served as its next owner.
THEOREM MapIsSound == Spec => []SubscriptionMapSound
<1>1. Init => SubscriptionMapSound
  BY DEF Init, SubscriptionMapSound
<1> QED BY <1>1, MapStep, CoreHolds, PTL DEF Spec

------------------------------------------------------------------------------
\* ReadyIsQueued in its two parts.
ReadyQueued ==
  \A id \in Slot : Live(id) /\ conns[id].status = "Ready" => id \in Range(readyqueue)
ConsumedIsLast == InConsume => readyqueue # <<>> /\ Last(readyqueue) = work.id

\* What is left before the last of a sequence.
LEMMA FrontIs ==
  ASSUME NEW S, NEW s \in Seq(S), s # <<>>
  PROVE  /\ Front(s) \in Seq(S)
         /\ \A x \in Range(s) : x # Last(s) => x \in Range(Front(s))
<1> DEFINE n == Len(s)
           f == Front(s)
<1>1. n \in Nat \ {0} /\ s \in [1 .. n -> S]
  OBVIOUS
<1>2. f \in Seq(S) /\ Len(f) = n - 1 /\ \A j \in 1 .. n - 1 : f[j] = s[j]
  BY <1>1 DEF Front
<1>3. Last(s) = s[n]
  BY DEF Last
<1> HIDE DEF f, n
<1>4. ASSUME NEW x \in Range(s), x # Last(s) PROVE x \in Range(f)
  <2>1. PICK j \in 1 .. n : s[j] = x
    BY <1>1, InRange DEF n
  <2>2. j \in 1 .. n - 1
    BY <1>1, <1>3, <1>4, <2>1
  <2>3. f[j] = x
    BY <1>2, <2>1, <2>2
  <2> QED BY <1>2, <2>2, <2>3, InRange
<1> QED BY <1>2, <1>4 DEF f

\* A step that queues the connection it changes, or leaves its state alone.
LEMMA QueueKept ==
  ASSUME Core, ReadyQueued, NEW id \in Slot, Live(id), NEW c \in Connection,
         conns' = [conns EXCEPT ![id] = c],
         \/ UNCHANGED readyqueue /\ (c.status = conns[id].status \/ c.status # "Ready")
         \/ readyqueue' = Append(readyqueue, id)
  PROVE  ReadyQueued'
<1>1. /\ \A i \in Slot : conns'[i] = IF i = id THEN c ELSE conns[i]
      /\ \A i \in Slot : Live(i)' <=> i = id \/ Live(i)
  BY ConnSet DEF Core
<1>2. readyqueue \in Seq(Slot)
  BY DEF Core, TypeInv, QueueOK
<1>3. \A x : x \in Range(Append(readyqueue, id)) <=> x \in Range(readyqueue) \/ x = id
  BY <1>2, AppendIs
<1>4. ASSUME NEW i \in Slot, Live(i)', conns'[i].status = "Ready"
      PROVE  i \in Range(readyqueue')
  <2>1. CASE i = id
    BY <1>1, <1>3, <1>4, <2>1 DEF ReadyQueued
  <2>2. CASE i # id
    <3>1. i \in Range(readyqueue)
      BY <1>1, <1>4, <2>2 DEF ReadyQueued
    <3> QED BY <1>3, <3>1
  <2> QED BY <2>1, <2>2
<1> QED BY <1>4 DEF ReadyQueued

\* A pause takes the connection under way off the queue: no other.
LEMMA PauseTakes ==
  ASSUME Core, ReadyQueued, ConsumedIsLast, InConsume, NEW id \in Slot, id = work.id,
         NEW c \in Connection, conns' = [conns EXCEPT ![id] = c], c.status # "Ready",
         readyqueue' = Front(readyqueue)
  PROVE  ReadyQueued'
<1>1. /\ \A i \in Slot : conns'[i] = IF i = id THEN c ELSE conns[i]
      /\ \A i \in Slot : Live(i)' <=> i = id \/ Live(i)
  BY ConnSet DEF Core
<1>2. readyqueue \in Seq(Slot) /\ readyqueue # <<>> /\ Last(readyqueue) = id
  BY DEF Core, TypeInv, QueueOK, ConsumedIsLast
<1>3. \A x \in Range(readyqueue) : x # id => x \in Range(Front(readyqueue))
  BY <1>2, FrontIs
<1>4. ASSUME NEW i \in Slot, Live(i)', conns'[i].status = "Ready"
      PROVE  i \in Range(readyqueue')
  <2>1. i # id
    BY <1>1, <1>4
  <2>2. i \in Range(readyqueue)
    BY <1>1, <1>4, <2>1 DEF ReadyQueued
  <2> QED BY <1>3, <2>1, <2>2
<1> QED BY <1>4 DEF ReadyQueued

\* Nothing changes but, maybe, that the id of a dead connection leaves.
LEMMA QueueStays ==
  ASSUME Core, ReadyQueued, UNCHANGED conns,
         \/ UNCHANGED readyqueue
         \/ readyqueue # <<>> /\ ~Live(Head(readyqueue)) /\ readyqueue' = Tail(readyqueue)
  PROVE  ReadyQueued'
<1>1. CASE UNCHANGED readyqueue
  BY <1>1 DEF ReadyQueued, Live
<1>2. CASE readyqueue # <<>> /\ ~Live(Head(readyqueue)) /\ readyqueue' = Tail(readyqueue)
  <2>1. readyqueue \in Seq(Slot)
    BY DEF Core, TypeInv, QueueOK
  <2>2. \A x : x \in Range(readyqueue) <=>
                 x = Head(readyqueue) \/ x \in Range(Tail(readyqueue))
    BY <1>2, <2>1, TailKept
  <2> QED BY <1>2, <2>2 DEF ReadyQueued, Live
<1> QED BY <1>1, <1>2

\* Packets only queue, and end outside of a consume.
LEMMA PacketsQueue ==
  ASSUME Core, ReadyQueued, PacketsAre
  PROVE  ReadyQueued' /\ ~InConsume'
<1>1. ASSUME NEW id, NEW c, PacketStep(id, c)
      PROVE  ReadyQueued' /\ ~InConsume'
  <2>1. ReadyQueued'
    <3>1. /\ id \in Slot /\ Live(id) /\ c \in Connection /\ conns' = [conns EXCEPT ![id] = c]
          /\ \/ UNCHANGED readyqueue /\ c.status = conns[id].status
             \/ readyqueue' = Append(readyqueue, id)
      BY <1>1 DEF PacketStep, Becomes, Queued
    <3> QED BY <3>1, QueueKept
  <2>2. ~InConsume'
    BY <1>1 DEF PacketStep, Onward, InConsume, PacketsWork, NotifyWork
  <2> QED BY <2>1, <2>2
<1>2. CASE PayloadEnd
  <2>1. UNCHANGED <<conns, readyqueue>>
    BY <1>2 DEF PayloadEnd, slabvars
  <2>2. ReadyQueued'
    BY <2>1, QueueStays
  <2>3. ~InConsume'
    BY <1>2, PayloadEndIs DEF Core, InConsume, Idle, DisconnectWork
  <2> QED BY <2>2, <2>3
<1> QED BY <1>1, <1>2
        DEF PacketsAre, PlainStep, PublishStep, SubscribeStep, UnsubscribeStep, NotifyStep

\* poll puts the connection it returns at the back, where pause takes it, and
\* takes no other.
LEMMA ConsumesQueue ==
  ASSUME Core, ReadyQueued, ConsumedIsLast, ConsumesAre
  PROVE  ReadyQueued' /\ ConsumedIsLast'
<1>0. readyqueue \in Seq(Slot)
  BY DEF Core, TypeInv, QueueOK
<1>1. CASE EventStep
  <2>1. ReadyQueued'
    BY <1>1, QueueStays DEF EventStep, slabvars
  <2>2. ~InConsume'
    BY <1>1 DEF EventStep, EventTaken, InConsume, Idle
  <2> QED BY <2>1, <2>2 DEF ConsumedIsLast
<1>2. CASE \E id, c : BeginStep(id, c)
  <2>1. PICK id, c : BeginStep(id, c)
    BY <1>2
  <2>2. /\ readyqueue # <<>> /\ id = Head(readyqueue) /\ id \in Slot /\ Live(id)
        /\ conns' = [conns EXCEPT ![id] = c] /\ c \in Connection
        /\ readyqueue' = Append(Tail(readyqueue), id) /\ work'.id = id
    BY <2>1 DEF BeginStep
  <2>3. Tail(readyqueue) \in Seq(Slot) /\ Append(Tail(readyqueue), id) \in Seq(Slot)
    BY <1>0, <2>2
  <2>4. \A x : x \in Range(readyqueue) <=> x \in Range(readyqueue')
    <3>1. \A x : x \in Range(Append(Tail(readyqueue), id)) <=>
                   x \in Range(Tail(readyqueue)) \/ x = id
      BY <2>2, <2>3, AppendIs
    <3>2. \A x : x \in Range(readyqueue) <=> x = Head(readyqueue) \/ x \in Range(Tail(readyqueue))
      BY <1>0, <2>2, TailKept
    <3> QED BY <2>2, <3>1, <3>2
  <2>5. Last(readyqueue') = id /\ readyqueue' # <<>>
    BY <2>2, <2>3 DEF Last
  <2>6. c.status = conns[id].status
    BY <2>1 DEF BeginStep
  <2>7. /\ \A i \in Slot : conns'[i] = IF i = id THEN c ELSE conns[i]
        /\ \A i \in Slot : Live(i)' <=> i = id \/ Live(i)
    <3>1. TypeInv /\ id \in Slot /\ c \in Connection /\ conns' = [conns EXCEPT ![id] = c]
      BY <2>2 DEF Core
    <3> QED BY ONLY <3>1, ConnSet
  <2> QED BY <2>2, <2>4, <2>5, <2>6, <2>7 DEF ReadyQueued, ConsumedIsLast
<1>3. CASE \E c : EndStep(c)
  <2>1. PICK c : EndStep(c)
    BY <1>3
  <2>2. /\ InConsume /\ work.id \in Slot /\ Live(work.id) /\ c \in Connection
        /\ conns' = [conns EXCEPT ![work.id] = c]
        /\ \/ UNCHANGED readyqueue /\ c.status = conns[work.id].status
           \/ readyqueue' = Front(readyqueue) /\ c.status # "Ready"
        /\ ~InConsume'
    BY <2>1 DEF EndStep, Me, InConsume, Idle
  <2> QED BY <2>2, QueueKept, PauseTakes DEF ConsumedIsLast
<1>4. CASE \E q, n, moved, conn, pushed : ForwardStep(q, n, moved, conn, pushed)
  <2>1. PICK q, n, moved, conn, pushed : ForwardStep(q, n, moved, conn, pushed)
    BY <1>4
  <2>2. /\ work.id \in Slot /\ Live(work.id) /\ conn \in Connection /\ InConsume
        /\ conn.status = conns[work.id].status /\ work \in ConsumeWork
    BY <2>1, ConsumeIs DEF ForwardStep, Forwarding, Core, Me
  <2>3. CASE ForwardFills(n, moved, conn, pushed)
    <3>1. \E c \in Connection : conns' = [conns EXCEPT ![work.id] = c] /\ c.status = "Busy"
      <4>1. Forwarding(q, n, moved, conn, pushed)
        BY <2>1 DEF ForwardStep
      <4> QED BY <2>3, <4>1, FillsIs
    <3>2. readyqueue' = Front(readyqueue) /\ ~InConsume'
      BY <2>3 DEF ForwardFills, Pause, InConsume, Idle
    <3>3. "Busy" # "Ready"
      OBVIOUS
    <3> QED BY <2>2, <3>1, <3>2, <3>3, PauseTakes DEF ConsumedIsLast
  <2>4. CASE \E left : ForwardGoesOn(conn, pushed, left)
    <3>1. conns' = [conns EXCEPT ![work.id] = conn] /\ UNCHANGED readyqueue /\ work'.id = work.id
      BY <2>2, <2>4 DEF ForwardGoesOn, ConsumeWork
    <3>2. ReadyQueued'
      BY <2>2, <3>1, QueueKept
    <3> QED BY <2>2, <3>1, <3>2 DEF ConsumedIsLast
  <2> QED BY <2>1, <2>3, <2>4 DEF ForwardStep, ForwardParks, ForwardRequeues
<1> QED BY <1>1, <1>2, <1>3, <1>4 DEF ConsumesAre

\* Every step keeps what is Ready in the queue.
LEMMA QueueStep ==
  ASSUME Core, ReadyQueued, ConsumedIsLast, [Next]_vars
  PROVE  ReadyQueued' /\ ConsumedIsLast'
<1>1. CASE LinksAre
  <2>1. UNCHANGED <<conns, readyqueue, work>>
    BY <1>1, LinksFrame DEF routervars, slabvars
  <2> QED BY <2>1 DEF ReadyQueued, ConsumedIsLast, Live, InConsume
<1>2. CASE EventsAre
  <2>1. CASE EventStep
    BY <2>1, ConsumesQueue DEF ConsumesAre
  <2>2. CASE \E id, c : ReadyStep(id, c)
    <3>1. PICK id, c : ReadyStep(id, c)
      BY <2>2
    <3>2. /\ id \in Slot /\ Live(id) /\ c \in Connection /\ conns' = [conns EXCEPT ![id] = c]
          /\ \/ UNCHANGED readyqueue /\ c.status = conns[id].status
             \/ readyqueue' = Append(readyqueue, id)
          /\ ~InConsume'
      BY <3>1 DEF ReadyStep, InConsume, Idle
    <3> QED BY <3>2, QueueKept DEF ConsumedIsLast
  <2> QED BY <1>2, <2>1, <2>2 DEF EventsAre
<1>3. CASE NoRoom
  BY <1>3, QueueStays DEF NoRoom, slabvars, ConsumedIsLast, InConsume, Idle
<1>4. CASE NewConnection
  <2>1. PICK id \in Slot : id = Head(vacant) /\ ~Live(id)
    BY <1>4, RoomIsVacant DEF NewConnection, Core
  <2> DEFINE c == conns'[Head(vacant)]
  <2>2. /\ c \in Connection /\ conns' = [conns EXCEPT ![Head(vacant)] = c]
        /\ readyqueue' = Append(readyqueue, Head(vacant)) /\ ~InConsume'
    BY <1>4, NewConnectionIs DEF NewConnection, Core, InConsume, Idle
  <2>3. PICK d \in Connection : conns' = [conns EXCEPT ![id] = d]
    BY <2>1, <2>2
  <2>4. /\ \A i \in Slot : conns'[i] = IF i = id THEN d ELSE conns[i]
        /\ \A i \in Slot : Live(i)' <=> i = id \/ Live(i)
    BY <2>3, ConnSet DEF Core
  <2>5. readyqueue \in Seq(Slot)
    BY DEF Core, TypeInv, QueueOK
  <2>6. \A x : x \in Range(Append(readyqueue, id)) <=> x \in Range(readyqueue) \/ x = id
    BY <2>5, AppendIs
  <2> QED BY <2>1, <2>2, <2>4, <2>6 DEF ReadyQueued, ConsumedIsLast
<1>5. CASE HandleDisconnection
  <2>1. PICK id \in Slot : id = work.id
    BY <1>5, DisconnectIs DEF Core
  <2>2. conns' = [conns EXCEPT ![id] = Vacant] /\ UNCHANGED readyqueue /\ ~InConsume'
    <3>1. work' = IF work.link = NoLink THEN Idle ELSE [op |-> "connect", link |-> work.link]
      BY <1>5, DisconnectIs DEF Core
    <3>2. conns' = [conns EXCEPT ![id] = Vacant] /\ UNCHANGED readyqueue
      BY <1>5, <2>1, DisconnectIs DEF Core
    <3> QED BY <3>1, <3>2 DEF InConsume, Idle
  <2>3. \A i \in Slot : conns'[i] = IF i = id THEN Vacant ELSE conns[i]
    BY <2>2 DEF Core, TypeInv, ConnsOK
  <2> QED BY <2>2, <2>3 DEF ReadyQueued, ConsumedIsLast, Live
<1> QED BY <1>1, <1>2, <1>3, <1>4, <1>5, StepIs, ConsumesQueue, PacketsQueue DEF ConsumedIsLast

\* A connection that is Ready will be polled, and pause finds the one it
\* pauses at the back of the queue (its assert_eq cannot fail).
THEOREM ReadyAreQueued == Spec => []ReadyIsQueued
<1>1. Init => ReadyQueued /\ ConsumedIsLast
  BY CoreInit DEF Init, ReadyQueued, ConsumedIsLast, InConsume, Idle, Live
<1>2. Core /\ ReadyQueued /\ ConsumedIsLast => ReadyIsQueued
  <2>1. SUFFICES ASSUME Core, ReadyQueued, ConsumedIsLast PROVE ReadyIsQueued
    OBVIOUS
  <2>2. readyqueue \in Seq(Slot)
    BY <2>1 DEF Core, TypeInv, QueueOK
  <2>3. \A id : id \in Range(readyqueue) => Contains(readyqueue, id)
    BY <2>2, InRange DEF Contains
  <2> QED BY <2>1, <2>3 DEF ReadyIsQueued, ReadyQueued, ConsumedIsLast, LiveIds
<1> QED BY <1>1, <1>2, QueueStep, CoreHolds, PTL DEF Spec

------------------------------------------------------------------------------
\* The tracker, consume, the waiters or the notifications hold a request of id
\* for f.
InTracker(id, f)  == \E q \in Range(conns[id].requests) : q.filter = f
InHand(id, f)     == InConsume /\ work.id = id /\ \E q \in Range(work.requests) : q.filter = f
InWaiters(id, f)  == \E w \in Range(waiters[f]) : w.id = id
InNotices(id, f)  == \E w \in Range(notifications) : w.id = id /\ w.request.filter = f
HasRequest(id, f) == InTracker(id, f) \/ InHand(id, f) \/ InWaiters(id, f) \/ InNotices(id, f)

LiveServed ==
  \A id \in Slot : Live(id) => \A f \in conns[id].subs : HasRequest(id, f)
SavedServed ==
  \A c \in Client : graveyard[c].saved =>
    \A f \in graveyard[c].subs : \E q \in Range(graveyard[c].requests) : q.filter = f

\* The four places a request may be in are those of HeldRequests.
LEMMA HeldIs ==
  ASSUME NEW id, NEW q,
         \/ q \in Range(conns[id].requests)
         \/ \E f \in Filter : q \in Range(RequestsOf(waiters[f], id))
         \/ q \in Range(RequestsOf(notifications, id))
         \/ InConsume /\ work.id = id /\ q \in Range(work.requests)
  PROVE  q \in HeldRequests(id)
<1> DEFINE A == Range(conns[id].requests)
           B == UNION {Range(RequestsOf(waiters[f], id)) : f \in Filter}
           C == Range(RequestsOf(notifications, id))
           D == IF InConsume /\ work.id = id THEN Range(work.requests) ELSE {}
<1>1. HeldRequests(id) = A \cup B \cup C \cup D
  BY DEF HeldRequests
<1>2. q \in A \/ q \in B \/ q \in C \/ q \in D
  OBVIOUS
<1> HIDE DEF A, B, C, D
<1> QED BY <1>1, <1>2

\* The two parts are the property the runs check.
LEMMA ServedIs ==
  ASSUME Core, LiveServed, SavedServed
  PROVE  SubscriptionsServed
<1>1. ASSUME NEW id \in LiveIds, NEW f \in conns[id].subs
      PROVE  \E q \in HeldRequests(id) : q.filter = f
  <2>1. id \in Slot /\ Live(id)
    BY DEF LiveIds
  <2>2. f \in Filter
    BY <2>1, LiveIs DEF Core, TypeInv, Connection
  <2>3. waiters[f] \in Seq(Waiter) /\ notifications \in Seq(Waiter)
    BY <2>2 DEF Core, TypeInv, DataOK
  <2>4. HasRequest(id, f)
    BY <2>1 DEF LiveServed
  <2>5. CASE InTracker(id, f)
    BY <2>5, HeldIs DEF InTracker
  <2>6. CASE InHand(id, f)
    <3>1. PICK q \in Range(work.requests) : q.filter = f
      BY <2>6 DEF InHand
    <3>2. q \in HeldRequests(id)
      BY <2>6, <3>1, HeldIs DEF InHand
    <3> QED BY <3>1, <3>2
  <2>7. CASE InWaiters(id, f)
    <3>1. PICK w \in Range(waiters[f]) : w.id = id
      BY <2>7 DEF InWaiters
    <3>2. w.request.filter = f
      BY <2>2, WaitersThere DEF Core
    <3>3. PICK j \in 1 .. Len(waiters[f]) : waiters[f][j] = w
      BY <2>3, InRange
    <3>4. w.request \in Range(RequestsOf(waiters[f], id))
      BY <2>3, <3>1, <3>3, RequestsOfIs
    <3> QED BY <2>2, <3>2, <3>4, HeldIs
  <2>8. CASE InNotices(id, f)
    <3>1. PICK w \in Range(notifications) : w.id = id /\ w.request.filter = f
      BY <2>8 DEF InNotices
    <3>2. PICK j \in 1 .. Len(notifications) : notifications[j] = w
      BY <2>3, InRange
    <3>3. w.request \in Range(RequestsOf(notifications, id))
      BY <2>3, <3>1, <3>2, RequestsOfIs
    <3>4. w.request \in HeldRequests(id)
      BY <3>3, HeldIs
    <3> QED BY <3>1, <3>4
  <2> QED BY <2>4, <2>5, <2>6, <2>7, <2>8 DEF HasRequest
<1> QED BY <1>1 DEF SubscriptionsServed, SavedServed

\* A step that takes no subscription up and loses no request.
LEMMA ServedStay ==
  ASSUME Core, LiveServed, NEW id \in Slot, NEW c,
         \/ UNCHANGED conns
         \/ /\ Live(id) /\ conns' = [conns EXCEPT ![id] = c]
            /\ c \in Connection /\ c.subs \subseteq conns[id].subs,
         \A i \in Slot : \A f \in Filter :
           Live(i)' /\ f \in conns'[i].subs /\ HasRequest(i, f) => HasRequest(i, f)'
  PROVE  LiveServed'
<1>1. CASE UNCHANGED conns
  <2>1. ASSUME NEW i \in Slot, Live(i)', NEW f \in conns'[i].subs PROVE HasRequest(i, f)'
    <3>1. Live(i) /\ f \in conns[i].subs /\ HasRequest(i, f)
      BY <1>1, <2>1 DEF Live, LiveServed
    <3>2. f \in Filter
      BY <3>1, LiveIs DEF Core, TypeInv, Connection
    <3> QED BY <2>1, <3>1, <3>2
  <2> QED BY <2>1 DEF LiveServed
<1>2. CASE /\ Live(id) /\ conns' = [conns EXCEPT ![id] = c]
           /\ c \in Connection /\ c.subs \subseteq conns[id].subs
  <2>1. /\ \A i \in Slot : conns'[i] = IF i = id THEN c ELSE conns[i]
        /\ \A i \in Slot : Live(i)' <=> i = id \/ Live(i)
    <3>1. TypeInv /\ c \in Connection /\ conns' = [conns EXCEPT ![id] = c]
      BY <1>2 DEF Core
    <3> QED BY ONLY <3>1, ConnSet
  <2>2. ASSUME NEW i \in Slot, Live(i)', NEW f \in conns'[i].subs PROVE HasRequest(i, f)'
    <3>1. Live(i) /\ f \in conns[i].subs
      BY <1>2, <2>1, <2>2
    <3>2. f \in Filter
      BY <3>1, LiveIs DEF Core, TypeInv, Connection
    <3> QED BY <2>2, <3>1, <3>2 DEF LiveServed
  <2> QED BY <2>2 DEF LiveServed
<1> QED BY <1>1, <1>2

\* What each place a request may be in keeps when its variable is kept.
LEMMA PlacesStay ==
  ASSUME TRUE
  PROVE  /\ \A i, f : UNCHANGED waiters /\ InWaiters(i, f) => InWaiters(i, f)'
         /\ \A i, f : UNCHANGED notifications /\ InNotices(i, f) => InNotices(i, f)'
         /\ \A i, f : conns'[i] = conns[i] /\ InTracker(i, f) => InTracker(i, f)'
BY DEF InWaiters, InNotices, InTracker

\* An event moves no request.
LEMMA EventsServed ==
  ASSUME Core, LiveServed, EventsAre
  PROVE  LiveServed'
<1>0. 0 \in Slot
  BY RouterAssumption DEF Slot
<1>1. CASE EventStep
  <2>1. UNCHANGED <<conns, waiters, notifications>> /\ ~InConsume
    BY <1>1 DEF EventStep, slabvars, datavars, InConsume, Idle
  <2>2. \A i \in Slot : \A f \in Filter : HasRequest(i, f) => HasRequest(i, f)'
    BY <2>1 DEF HasRequest, InTracker, InHand, InWaiters, InNotices
  <2> QED BY <1>0, <2>1, <2>2, ServedStay
<1>2. CASE \E id, c : ReadyStep(id, c)
  <2>1. PICK id, c : ReadyStep(id, c)
    BY <1>2
  <2>2. /\ id \in Slot /\ Live(id) /\ conns' = [conns EXCEPT ![id] = c] /\ c \in Connection
        /\ c.subs = conns[id].subs /\ c.requests = conns[id].requests
        /\ UNCHANGED <<waiters, notifications>> /\ ~InConsume
    BY <2>1 DEF ReadyStep, datavars, InConsume, Idle
  <2>3. \A i \in Slot : conns'[i] = IF i = id THEN c ELSE conns[i]
    BY <2>2 DEF Core, TypeInv, ConnsOK
  <2>4. \A i \in Slot : \A f \in Filter : HasRequest(i, f) => HasRequest(i, f)'
    BY <2>2, <2>3 DEF HasRequest, InTracker, InHand, InWaiters, InNotices
  <2> QED BY <2>2, <2>4, ServedStay
<1> QED BY <1>1, <1>2 DEF EventsAre

\* What consume takes from a tracker it holds, and gives back, or parks.
LEMMA ConsumesServed ==
  ASSUME Core, LiveServed, ConsumesAre
  PROVE  LiveServed'
<1>1. CASE EventStep
  BY <1>1, EventsServed DEF EventsAre
<1>2. CASE \E id, c : BeginStep(id, c)
  <2>1. PICK id, c : BeginStep(id, c)
    BY <1>2
  <2>2. /\ id \in Slot /\ Live(id) /\ conns' = [conns EXCEPT ![id] = c] /\ c \in Connection
        /\ c.subs = conns[id].subs /\ ~InConsume
        /\ InConsume' /\ work'.id = id /\ work'.requests = conns[id].requests
        /\ UNCHANGED <<waiters, notifications>>
    BY <2>1 DEF BeginStep, datavars, InConsume, Idle
  <2>3. \A i \in Slot : conns'[i] = IF i = id THEN c ELSE conns[i]
    BY <2>2 DEF Core, TypeInv, ConnsOK
  <2>4. \A i \in Slot : \A f \in Filter : HasRequest(i, f) => HasRequest(i, f)'
    BY <2>2, <2>3 DEF HasRequest, InTracker, InHand, InWaiters, InNotices
  <2> QED BY <2>2, <2>4, ServedStay
<1>3. CASE \E c : EndStep(c)
  <2>1. PICK c : EndStep(c)
    BY <1>3
  <2>2. /\ work.id \in Slot /\ Live(work.id) /\ conns' = [conns EXCEPT ![work.id] = c]
        /\ c \in Connection /\ c.subs = conns[work.id].subs
        /\ \A q : q \in Range(c.requests) <=>
                    q \in Range(conns[work.id].requests) \/ q \in Range(work.requests)
        /\ UNCHANGED <<waiters, notifications>>
    BY <2>1 DEF EndStep, datavars, Me
  <2>3. \A i \in Slot : conns'[i] = IF i = work.id THEN c ELSE conns[i]
    BY <2>2 DEF Core, TypeInv, ConnsOK
  <2>4. \A i \in Slot : \A f \in Filter : HasRequest(i, f) => HasRequest(i, f)'
    BY <2>2, <2>3 DEF HasRequest, InTracker, InHand, InWaiters, InNotices
  <2> QED BY <2>2, <2>4, ServedStay
<1>4. CASE \E q, n, moved, conn, pushed : ForwardStep(q, n, moved, conn, pushed)
  <2>1. PICK q, n, moved, conn, pushed : ForwardStep(q, n, moved, conn, pushed)
    BY <1>4
  <2>2. Forwarding(q, n, moved, conn, pushed)
    BY <2>1 DEF ForwardStep
  <2>3. /\ work.id \in Slot /\ Live(work.id) /\ conn \in Connection /\ InConsume
        /\ conn.subs = conns[work.id].subs /\ conn.requests = conns[work.id].requests
        /\ work \in ConsumeWork /\ work.requests \in Seq(Request) /\ work.requests # <<>>
        /\ q = Head(work.requests) /\ moved \in Request /\ moved.filter = q.filter
        /\ UNCHANGED notifications
    BY <2>2, ConsumeIs DEF Forwarding, Core, Me, ConsumeWork
  <2>4. \A r : r \in Range(work.requests) <=> r = q \/ r \in Range(Tail(work.requests))
    BY <2>3, TailKept
  <2>5. Tail(work.requests) \in Seq(Request) /\ Requeued(moved) \in Seq(Request)
    BY <2>3 DEF Requeued
  <2>6. \A r : r \in Range(Requeued(moved)) <=> r = moved \/ r \in Range(Tail(work.requests))
    BY <2>3, <2>5, AppendIs DEF Requeued
  <2>7. CASE ForwardFills(n, moved, conn, pushed)
    <3>1. PICK c \in Connection :
            /\ conns' = [conns EXCEPT ![work.id] = c]
            /\ c.status = "Busy" /\ c.link = conn.link /\ c.subs = conn.subs /\ c.acks = conn.acks
            /\ c.requests = conn.requests \o Requeued(moved)
      BY <2>2, <2>7, FillsIs
    <3>2. \A r : r \in Range(c.requests) <=>
                   r \in Range(conn.requests) \/ r \in Range(Requeued(moved))
      <4>1. conn.requests \in Seq(Request)
        BY <2>3 DEF Connection
      <4> QED BY <2>5, <3>1, <4>1, JoinIs
    <3>3. \A i \in Slot : conns'[i] = IF i = work.id THEN c ELSE conns[i]
      BY <3>1 DEF Core, TypeInv, ConnsOK
    <3>4. ASSUME NEW i \in Slot, NEW f \in Filter, HasRequest(i, f) PROVE HasRequest(i, f)'
      <4>1. UNCHANGED <<waiters, notifications>>
        BY <2>3, <2>7 DEF ForwardFills
      <4>2. CASE InWaiters(i, f) \/ InNotices(i, f)
        BY <4>1, <4>2 DEF HasRequest, InWaiters, InNotices
      <4>3. CASE InTracker(i, f) \/ InHand(i, f)
        BY <2>3, <2>4, <2>6, <3>2, <3>3, <4>3 DEF HasRequest, InTracker, InHand
      <4> QED BY <3>4, <4>2, <4>3 DEF HasRequest
    <3> QED BY <2>3, <3>1, <3>4, ServedStay
  <2>8. ASSUME conns' = [conns EXCEPT ![work.id] = conn],
               \A i \in Slot, f \in Filter : InWaiters(i, f) => InWaiters(i, f)',
               \A i \in Slot, f \in Filter : InHand(i, f) => InHand(i, f)' \/ InWaiters(i, f)'
        PROVE  LiveServed'
    <3>1. \A i \in Slot : conns'[i] = IF i = work.id THEN conn ELSE conns[i]
      BY <2>8 DEF Core, TypeInv, ConnsOK
    <3>2. ASSUME NEW i \in Slot, NEW f \in Filter, HasRequest(i, f) PROVE HasRequest(i, f)'
      <4>1. InTracker(i, f) => InTracker(i, f)'
        BY <2>3, <3>1 DEF InTracker
      <4>2. InNotices(i, f) => InNotices(i, f)'
        BY <2>3 DEF InNotices
      <4> QED BY <2>8, <3>2, <4>1, <4>2 DEF HasRequest
    <3> QED BY <2>3, <2>8, <3>2, ServedStay
  <2>9. ASSUME NEW left, ForwardGoesOn(conn, pushed, left)
        PROVE  /\ conns' = [conns EXCEPT ![work.id] = conn]
               /\ InConsume' /\ work'.id = work.id /\ work'.requests = left
    BY <2>3, <2>9 DEF ForwardGoesOn, ConsumeWork, InConsume
  <2>10. CASE ForwardParks(moved, conn, pushed)
    <3>1. /\ conns' = [conns EXCEPT ![work.id] = conn]
          /\ InConsume' /\ work'.id = work.id /\ work'.requests = Tail(work.requests)
      BY <2>9, <2>10 DEF ForwardParks
    <3> DEFINE g == moved.filter
               w == [id |-> work.id, request |-> moved]
    <3>2. /\ g \in Filter /\ waiters[g] \in Seq(Waiter) /\ w \in Waiter
          /\ waiters' = [waiters EXCEPT ![g] = Append(@, w)]
          /\ waiters \in [Filter -> Seq(Waiter)]
      BY <2>3, <2>10 DEF ForwardParks, Park, Core, TypeInv, DataOK, Request, Waiter
    <3>3. w.id = work.id /\ g = q.filter
      BY <2>3
    <3> HIDE DEF w, g
    <3>4. \A x : x \in Range(Append(waiters[g], w)) <=> x \in Range(waiters[g]) \/ x = w
      BY <3>2, AppendIs
    <3>5. \A f \in Filter : \A x : x \in Range(waiters'[f]) <=>
                              x \in Range(waiters[f]) \/ (f = g /\ x = w)
      BY <3>2, <3>4
    <3>6. \A i \in Slot, f \in Filter : InWaiters(i, f) => InWaiters(i, f)'
      BY <3>5 DEF InWaiters
    <3>7. \A i \in Slot, f \in Filter : InHand(i, f) => InHand(i, f)' \/ InWaiters(i, f)'
      BY <2>4, <3>1, <3>2, <3>3, <3>5 DEF InHand, InWaiters
    <3> QED BY <2>8, <3>1, <3>6, <3>7
  <2>11. CASE ForwardRequeues(moved, conn, pushed)
    <3>1. /\ conns' = [conns EXCEPT ![work.id] = conn]
          /\ InConsume' /\ work'.id = work.id /\ work'.requests = Requeued(moved)
          /\ UNCHANGED waiters
      BY <2>9, <2>11 DEF ForwardRequeues
    <3>2. \A i \in Slot, f \in Filter : InHand(i, f) => InHand(i, f)'
      BY <2>3, <2>4, <2>6, <3>1 DEF InHand
    <3> QED BY <2>8, <3>1, <3>2 DEF InWaiters
  <2> QED BY <2>1, <2>7, <2>10, <2>11 DEF ForwardStep
<1> QED BY <1>1, <1>2, <1>3, <1>4 DEF ConsumesAre

\* A publish takes requests from the waiters to the notifications.
LEMMA PublishServed ==
  ASSUME Core, LiveServed, NEW c, NEW filters, NEW taken, PublishStep(c, filters, taken)
  PROVE  LiveServed'
<1>1. /\ work.id \in Slot /\ Live(work.id) /\ c \in Connection
      /\ conns' = [conns EXCEPT ![work.id] = c]
      /\ c.subs = conns[work.id].subs /\ c.requests = conns[work.id].requests
      /\ work.op = "packets"
  BY DEF PublishStep, PacketStep, Becomes, Me
<1>2. /\ filters \in SUBSET Filter /\ waiters' = Taken(filters)
      /\ taken \in Seq(Waiter) /\ notifications' = notifications \o taken
      /\ \A w : w \in Range(taken) <=> \E f \in filters : w \in Range(waiters[f])
      /\ notifications \in Seq(Waiter)
  BY DEF PublishStep, Core, TypeInv, DataOK
<1>3. \A i \in Slot : conns'[i] = IF i = work.id THEN c ELSE conns[i]
  BY <1>1 DEF Core, TypeInv, ConnsOK
<1>4. \A w : w \in Range(notifications') <=> w \in Range(notifications) \/ w \in Range(taken)
  BY <1>2, JoinIs
<1>5. ASSUME NEW i \in Slot, NEW f \in Filter, HasRequest(i, f) PROVE HasRequest(i, f)'
  <2>1. CASE InTracker(i, f)
    BY <1>1, <1>3, <2>1 DEF HasRequest, InTracker
  <2>2. ~InHand(i, f)
    BY <1>1 DEF InHand, InConsume
  <2>3. CASE InNotices(i, f)
    BY <1>4, <2>3 DEF HasRequest, InNotices
  <2>4. CASE InWaiters(i, f)
    <3>1. PICK w \in Range(waiters[f]) : w.id = i
      BY <2>4 DEF InWaiters
    <3>2. w.request.filter = f
      BY <3>1, WaitersThere DEF Core
    <3>3. CASE f \in filters
      BY <1>2, <1>4, <3>1, <3>2, <3>3 DEF HasRequest, InNotices
    <3>4. CASE f \notin filters
      <4>1. waiters'[f] = waiters[f]
        BY <1>2, <3>4 DEF Taken
      <4> QED BY <3>1, <4>1 DEF HasRequest, InWaiters
    <3> QED BY <3>3, <3>4
  <2> QED BY <1>5, <2>1, <2>2, <2>3, <2>4 DEF HasRequest
<1> QED BY <1>1, <1>5, ServedStay

\* A new subscription has its request.
LEMMA SubscribeServed ==
  ASSUME Core, LiveServed, NEW c, NEW g, NEW q, SubscribeStep(c, g, q)
  PROVE  LiveServed'
<1>1. /\ work.id \in Slot /\ Live(work.id) /\ c \in Connection /\ Me \in Connection
      /\ conns' = [conns EXCEPT ![work.id] = c]
      /\ c.subs = Me.subs \cup {g} /\ g \in Filter /\ q \in Request /\ q.filter = g
      /\ (g \in Me.subs /\ c.requests = Me.requests) \/ c.requests = Append(Me.requests, q)
      /\ work.op = "packets" /\ UNCHANGED <<waiters, notifications>>
  BY PacketsIs DEF SubscribeStep, PacketStep, Becomes, Core
<1>2. /\ \A i \in Slot : conns'[i] = IF i = work.id THEN c ELSE conns[i]
      /\ \A i \in Slot : Live(i)' <=> i = work.id \/ Live(i)
  BY <1>1 DEF Core, TypeInv, ConnsOK, Live, Connection, Vacant
<1>3. \A r : r \in Range(Append(Me.requests, q)) <=> r \in Range(Me.requests) \/ r = q
  <2>1. Me.requests \in Seq(Request)
    BY <1>1 DEF Connection
  <2> QED BY <1>1, <2>1, AppendIs
<1>4. ASSUME NEW i \in Slot, NEW f \in Filter, HasRequest(i, f) PROVE HasRequest(i, f)'
  <2>1. ~InHand(i, f)
    BY <1>1 DEF InHand, InConsume
  <2>2. InTracker(i, f) => InTracker(i, f)'
    BY <1>1, <1>2, <1>3 DEF InTracker, Me
  <2> QED BY <1>1, <1>4, <2>1, <2>2 DEF HasRequest, InWaiters, InNotices
<1>5. ASSUME NEW i \in Slot, Live(i)', NEW f \in conns'[i].subs PROVE HasRequest(i, f)'
  <2>1. CASE Live(i) /\ f \in conns[i].subs
    <3>1. f \in Filter
      BY <2>1, LiveIs DEF Core, TypeInv, Connection
    <3> QED BY <1>4, <2>1, <3>1 DEF LiveServed
  <2>2. CASE ~(Live(i) /\ f \in conns[i].subs)
    <3>1. i = work.id /\ f = g /\ g \notin Me.subs
      BY <1>1, <1>2, <1>5, <2>2 DEF Me
    <3>2. q \in Range(conns'[i].requests)
      BY <1>1, <1>2, <1>3, <3>1
    <3> QED BY <1>1, <3>1, <3>2 DEF HasRequest, InTracker
  <2> QED BY <2>1, <2>2
<1> QED BY <1>5 DEF LiveServed

\* UNSUBSCRIBE takes the requests of no filter but its own.
LEMMA UnsubscribeServed ==
  ASSUME Core, LiveServed, NEW c, NEW g, UnsubscribeStep(c, g)
  PROVE  LiveServed'
<1>1. /\ work.id \in Slot /\ Live(work.id) /\ c \in Connection /\ Me \in Connection
      /\ conns' = [conns EXCEPT ![work.id] = c]
      /\ g \in Filter /\ work.op = "packets" /\ UNCHANGED notifications
      /\ waiters \in [Filter -> Seq(Waiter)]
  BY PacketsIs DEF UnsubscribeStep, PacketStep, Becomes, Core, TypeInv, DataOK
<1>2. \A i \in Slot : conns'[i] = IF i = work.id THEN c ELSE conns[i]
  BY <1>1 DEF Core, TypeInv, ConnsOK
<1>3. \A i, f : ~InHand(i, f)
  BY <1>1 DEF InHand, InConsume
<1>4. CASE c.subs = Me.subs /\ c.requests = Me.requests /\ UNCHANGED waiters
  <2>1. \A i \in Slot : \A f \in Filter : HasRequest(i, f) => HasRequest(i, f)'
    BY <1>1, <1>2, <1>3, <1>4 DEF HasRequest, InTracker, InWaiters, InNotices, Me
  <2> QED BY <1>1, <1>4, <2>1, ServedStay DEF Me
<1>5. CASE /\ c.subs = Me.subs \ {g} /\ c.requests = Unregistered(Me.requests, g)
           /\ waiters' = [waiters EXCEPT ![g] = RemoveWaiter(@, work.id)]
  <2>1. \A r : r \in Range(c.requests) <=> r \in Range(Me.requests) /\ r.filter # g
    <3>1. Me.requests \in Seq(Request)
      BY <1>1 DEF Connection
    <3> QED BY <1>5, <3>1, UnregisteredIs
  <2>2. \A w \in Range(waiters[g]) : w.id # work.id => w \in Range(waiters'[g])
    <3>1. waiters[g] \in Seq(Waiter) /\ waiters'[g] = RemoveWaiter(waiters[g], work.id)
      BY <1>1, <1>5
    <3> QED BY <3>1, RemoveWaiterIs
  <2>3. \A f \in Filter : f # g => waiters'[f] = waiters[f]
    BY <1>1, <1>5
  <2>4. ASSUME NEW i \in Slot, NEW f \in Filter,
               Live(i)' /\ f \in conns'[i].subs /\ HasRequest(i, f)
        PROVE  HasRequest(i, f)'
    <3>1. i # work.id \/ f # g
      BY <1>2, <1>5, <2>4
    <3>2. InTracker(i, f) => InTracker(i, f)'
      BY <1>2, <2>1, <3>1 DEF InTracker, Me
    <3>3. InWaiters(i, f) => InWaiters(i, f)'
      BY <2>2, <2>3, <3>1 DEF InWaiters
    <3> QED BY <1>1, <1>3, <2>4, <3>2, <3>3 DEF HasRequest, InNotices
  <2> QED BY <1>1, <1>5, <2>4, ServedStay DEF Me
<1> QED BY <1>4, <1>5 DEF UnsubscribeStep

\* A notification becomes a request of its tracker.
LEMMA NotifyServed ==
  ASSUME Core, LiveServed, NEW c, NEW w, NotifyStep(c, w)
  PROVE  LiveServed'
<1>1. /\ w.id \in Slot /\ Live(w.id) /\ c \in Connection
      /\ conns' = [conns EXCEPT ![w.id] = c] /\ c.subs = conns[w.id].subs
      /\ c.requests = Append(conns[w.id].requests, w.request)
      /\ w \in Waiter /\ notifications # <<>> /\ w = Head(notifications)
      /\ notifications' = Tail(notifications) /\ notifications \in Seq(Waiter)
      /\ work.op = "notify" /\ UNCHANGED waiters
  BY DEF NotifyStep, PacketStep, Becomes, Core, TypeInv, DataOK
<1>2. \A i \in Slot : conns'[i] = IF i = w.id THEN c ELSE conns[i]
  BY <1>1 DEF Core, TypeInv, ConnsOK
<1>3. \A r : r \in Range(c.requests) <=> r \in Range(conns[w.id].requests) \/ r = w.request
  <2>1. conns[w.id].requests \in Seq(Request) /\ w.request \in Request
    <3>1. conns[w.id] \in Connection
      BY <1>1, LiveIs DEF Core, TypeInv
    <3> QED BY <1>1, <3>1 DEF Connection, Waiter
  <2> QED BY <1>1, <2>1, AppendIs
<1>4. \A x : x \in Range(notifications) <=> x = w \/ x \in Range(notifications')
  BY <1>1, TailKept
<1>5. ASSUME NEW i \in Slot, NEW f \in Filter, HasRequest(i, f) PROVE HasRequest(i, f)'
  <2>1. ~InHand(i, f)
    BY <1>1 DEF InHand, InConsume
  <2>2. InTracker(i, f) => InTracker(i, f)'
    BY <1>2, <1>3 DEF InTracker
  <2>3. InNotices(i, f) => InNotices(i, f)' \/ InTracker(i, f)'
    BY <1>2, <1>3, <1>4 DEF InNotices, InTracker
  <2> QED BY <1>1, <1>5, <2>1, <2>2, <2>3 DEF HasRequest, InWaiters
<1> QED BY <1>1, <1>5, ServedStay

\* The packets of a connection lose no request of any connection.
LEMMA PacketsServed ==
  ASSUME Core, LiveServed, PacketsAre
  PROVE  LiveServed'
<1>1. CASE \E c : PlainStep(c)
  <2>1. PICK c : PlainStep(c)
    BY <1>1
  <2>2. /\ work.id \in Slot /\ Live(work.id) /\ c \in Connection
        /\ conns' = [conns EXCEPT ![work.id] = c]
        /\ c.subs = conns[work.id].subs /\ c.requests = conns[work.id].requests
        /\ work.op = "packets" /\ UNCHANGED <<waiters, notifications>>
    BY <2>1 DEF PlainStep, PacketStep, Becomes, Me, datavars
  <2>3. \A i \in Slot : conns'[i] = IF i = work.id THEN c ELSE conns[i]
    BY <2>2 DEF Core, TypeInv, ConnsOK
  <2>4. \A i \in Slot : \A f \in Filter : HasRequest(i, f) => HasRequest(i, f)'
    BY <2>2, <2>3 DEF HasRequest, InTracker, InHand, InConsume, InWaiters, InNotices
  <2> QED BY <2>2, <2>4, ServedStay
<1>2. CASE PayloadEnd
  <2>1. UNCHANGED <<conns, waiters, notifications>> /\ ~InConsume /\ work.id \in Slot
    BY <1>2, PayloadEndIs DEF PayloadEnd, slabvars, datavars, InConsume, Core
  <2>2. \A i \in Slot : \A f \in Filter : HasRequest(i, f) => HasRequest(i, f)'
    BY <2>1 DEF HasRequest, InTracker, InHand, InWaiters, InNotices
  <2> QED BY <2>1, <2>2, ServedStay
<1> QED BY <1>1, <1>2, PublishServed, SubscribeServed, UnsubscribeServed, NotifyServed
        DEF PacketsAre

\* A session that is saved or taken up again brings its requests along.
LEMMA ConnectServed ==
  ASSUME Core, LiveServed, SavedServed, NewConnection
  PROVE  LiveServed' /\ SavedServed'
<1>1. PICK id \in Slot : id = Head(vacant) /\ ~Live(id)
  BY RoomIsVacant DEF NewConnection, Core
<1>2. PICK d : d = conns'[id]
  OBVIOUS
<1>3. PICK k \in Client : k = ClientOf[work.link]
  BY NewConnectionIs DEF NewConnection, Core
<1>4. /\ d \in Connection /\ conns' = [conns EXCEPT ![id] = d]
      /\ \/ d.subs = {} /\ d.requests = <<>>
         \/ graveyard[k].saved /\ d.subs = graveyard[k].subs /\ d.requests = graveyard[k].requests
      /\ graveyard' = [graveyard EXCEPT ![k] = NoSession]
      /\ UNCHANGED <<waiters, notifications>> /\ ~InConsume
  BY <1>1, <1>2, <1>3, NewConnectionIs DEF NewConnection, Core, InConsume
<1>5. /\ \A i \in Slot : conns'[i] = IF i = id THEN d ELSE conns[i]
      /\ \A i \in Slot : Live(i)' <=> i = id \/ Live(i)
  BY <1>4 DEF Core, TypeInv, ConnsOK, Live, Connection, Vacant
<1>6. ASSUME NEW i \in Slot, Live(i)', NEW f \in conns'[i].subs PROVE HasRequest(i, f)'
  <2>1. CASE i = id
    <3>1. \E q \in Range(d.requests) : q.filter = f
      BY <1>4, <1>5, <1>6, <2>1 DEF SavedServed
    <3> QED BY <1>5, <2>1, <3>1 DEF HasRequest, InTracker
  <2>2. CASE i # id
    <3>1. HasRequest(i, f)
      BY <1>5, <1>6, <2>2 DEF LiveServed
    <3> QED BY <1>4, <1>5, <2>2, <3>1 DEF HasRequest, InTracker, InHand, InWaiters, InNotices
  <2> QED BY <2>1, <2>2
<1>7. SavedServed'
  <2>1. \A c \in Client : graveyard'[c] = IF c = k THEN NoSession ELSE graveyard[c]
    BY <1>4 DEF Core, TypeInv, GraveOK
  <2> QED BY <2>1 DEF SavedServed, NoSession
<1> QED BY <1>6, <1>7 DEF LiveServed

\* What handle_disconnection saves are the requests of the tracker and of every
\* log, so each subscription that is saved has its request.
LEMMA DisconnectServed ==
  ASSUME Core, LiveServed, SavedServed, HandleDisconnection
  PROVE  LiveServed' /\ SavedServed'
<1>1. PICK id \in Slot : id = work.id /\ Live(id) /\ conns[id] \in Connection
  BY DisconnectIs DEF Core, Me
<1>2. PICK k \in Client : k = ClientOf[Me.link]
  BY DisconnectIs DEF Core
<1>3. PICK g : g = graveyard'[k]
  OBVIOUS
<1>4. /\ conns' = [conns EXCEPT ![id] = Vacant]
      /\ waiters' = [f \in Filter |-> RemoveWaiters(waiters[f], id)]
      /\ graveyard' = [graveyard EXCEPT ![k] = g]
      /\ \/ g = NoSession
         \/ /\ g \in Session /\ g.subs = conns[id].subs
            /\ RewoundFrom(g.requests, SavedRequests(id), conns[id].inflight)
      /\ UNCHANGED notifications /\ work.op = "disconnect"
  BY <1>1, <1>2, <1>3, DisconnectIs DEF Core, Me, DisconnectWork
<1>5. \A i \in Slot : conns'[i] = IF i = id THEN Vacant ELSE conns[i]
  BY <1>4 DEF Core, TypeInv, ConnsOK
<1>6. \A i, f : ~InHand(i, f)
  BY <1>4 DEF InHand, InConsume
<1>7. ASSUME NEW i \in Slot, Live(i)', NEW f \in conns'[i].subs PROVE HasRequest(i, f)'
  <2>1. i # id /\ Live(i) /\ conns'[i] = conns[i]
    BY <1>5, <1>7 DEF Live
  <2>2. HasRequest(i, f)
    BY <1>7, <2>1 DEF LiveServed
  <2>3. f \in Filter
    BY <1>7, <2>1, LiveIs DEF Core, TypeInv, Connection
  <2>4. InWaiters(i, f) => InWaiters(i, f)'
    <3>1. waiters[f] \in Seq(Waiter)
      BY <2>3 DEF Core, TypeInv, DataOK
    <3>2. \A w \in Range(waiters[f]) : w.id # id => w \in Range(waiters'[f])
      BY <1>4, <2>3, <3>1, RemoveWaitersIs
    <3> QED BY <2>1, <3>2 DEF InWaiters
  <2> QED BY <1>4, <1>6, <2>1, <2>2, <2>4 DEF HasRequest, InTracker, InNotices
<1>8. ASSUME g # NoSession, NEW f \in g.subs PROVE \E r \in Range(g.requests) : r.filter = f
  <2>1. HasRequest(id, f) /\ f \in Filter
    BY <1>1, <1>4, <1>8 DEF LiveServed, Connection
  <2>2. ~InNotices(id, f)
    <3>1. notifications = <<>> /\ Range(<<>>) = {}
      BY <1>4, WaitersThere DEF Core, Range
    <3> QED BY <3>1 DEF InNotices
  <2>3. \A q : q \in Range(SavedRequests(id)) <=>
               \/ q \in Range(conns[id].requests)
               \/ \E h \in Filter : q \in Range(RequestsOf(waiters[h], id))
    BY <1>1, SavedIs DEF Core, TypeInv
  <2>4. \E q \in Range(SavedRequests(id)) : q.filter = f
    <3>1. CASE InTracker(id, f)
      BY <2>3, <3>1 DEF InTracker
    <3>2. CASE InWaiters(id, f)
      <4>1. PICK w \in Range(waiters[f]) : w.id = id
        BY <3>2 DEF InWaiters
      <4>2. waiters[f] \in Seq(Waiter) /\ w.request.filter = f
        BY <2>1, WaitersThere DEF Core, TypeInv, DataOK
      <4>3. PICK j \in 1 .. Len(waiters[f]) : waiters[f][j] = w
        BY <4>2, InRange
      <4>4. w.request \in Range(RequestsOf(waiters[f], id))
        BY <4>1, <4>2, <4>3, RequestsOfIs
      <4> QED BY <2>1, <2>3, <4>2, <4>4
    <3> QED BY <1>6, <2>1, <2>2, <3>1, <3>2 DEF HasRequest
  <2> QED BY <1>4, <1>8, <2>4 DEF RewoundFrom
<1>9. SavedServed'
  <2>1. \A c \in Client : graveyard'[c] = IF c = k THEN g ELSE graveyard[c]
    BY <1>4 DEF Core, TypeInv, GraveOK
  <2> QED BY <1>8, <2>1 DEF SavedServed, NoSession
<1> QED BY <1>7, <1>9 DEF LiveServed

\* Only a connection that comes or goes touches the sessions.
LEMMA GraveStays ==
  ASSUME Core, SavedServed, [Next]_vars
  PROVE  NewConnection \/ HandleDisconnection \/ SavedServed'
<1>1. UNCHANGED graveyard => SavedServed'
  BY DEF SavedServed
<1>2. CASE LinksAre
  BY <1>1, <1>2, LinksFrame DEF routervars, datavars
<1>3. CASE EventsAre
  BY <1>1, <1>3 DEF EventsAre, EventStep, ReadyStep, datavars
<1>4. CASE NoRoom
  BY <1>1, <1>4 DEF NoRoom, datavars
<1>5. CASE ConsumesAre
  <2>1. UNCHANGED graveyard
    <3>1. CASE EventStep
      BY <3>1 DEF EventStep, datavars
    <3>2. ASSUME NEW id, NEW c, BeginStep(id, c) PROVE UNCHANGED graveyard
      BY <3>2 DEF BeginStep, datavars
    <3>3. ASSUME NEW c, EndStep(c) PROVE UNCHANGED graveyard
      BY <3>3 DEF EndStep, datavars
    <3>4. ASSUME NEW q, NEW n, NEW moved, NEW conn, NEW pushed, ForwardStep(q, n, moved, conn, pushed)
          PROVE  UNCHANGED graveyard
      BY <3>4 DEF ForwardStep, Forwarding
    <3> QED BY <1>5, <3>1, <3>2, <3>3, <3>4 DEF ConsumesAre
  <2> QED BY <1>1, <2>1
<1>6. CASE PacketsAre
  BY <1>1, <1>6 DEF PacketsAre, PlainStep, PublishStep, SubscribeStep, UnsubscribeStep,
     NotifyStep, PacketStep, PayloadEnd, datavars
<1> QED BY <1>2, <1>3, <1>4, <1>5, <1>6, StepIs

\* Every step leaves every subscription its request.
LEMMA ServedStep ==
  ASSUME Core, LiveServed, SavedServed, [Next]_vars
  PROVE  LiveServed' /\ SavedServed'
<1>0. 0 \in Slot
  BY RouterAssumption DEF Slot
<1>1. ASSUME LinksAre \/ NoRoom PROVE LiveServed'
  <2>1. UNCHANGED <<conns, waiters, notifications>>
    BY <1>1, LinksFrame DEF NoRoom, routervars, slabvars, datavars
  <2>2. UNCHANGED work \/ ~InConsume
    BY <1>1, LinksFrame DEF NoRoom, routervars, InConsume
  <2>3. \A i \in Slot : \A f \in Filter : HasRequest(i, f) => HasRequest(i, f)'
    BY <2>1, <2>2 DEF HasRequest, InTracker, InHand, InConsume, InWaiters, InNotices
  <2>4. PICK z \in Slot : z = 0
    BY <1>0
  <2>5. LiveServed'
    BY <2>1, <2>3, <2>4, ServedStay
  <2> QED BY <2>5
<1>2. LiveServed'
  BY <1>1, StepIs, EventsServed, ConsumesServed, PacketsServed, ConnectServed, DisconnectServed
<1>3. SavedServed'
  BY GraveStays, ConnectServed, DisconnectServed
<1> QED BY <1>2, <1>3

\* No subscription is forgotten: a live or saved subscription always has a
\* request that reads its log, whatever the tracker, the waiters, the
\* notifications, consume and the graveyard pass among themselves.
THEOREM SubscriptionsAreServed == Spec => []SubscriptionsServed
<1>1. Init => LiveServed /\ SavedServed
  BY DEF Init, LiveServed, SavedServed, Live, NoSession
<1>2. Core /\ LiveServed /\ SavedServed => SubscriptionsServed
  BY ServedIs
<1> QED BY <1>1, <1>2, ServedStep, CoreHolds, PTL DEF Spec

------------------------------------------------------------------------------
\* The connection of a client is the one connection_map has, and the handler
\* that takes over finds it there.
MapExact ==
  \A id \in Slot : Live(id) => connection_map[ClientOf[conns[id].link]] = id
TakeoverExact ==
  /\ work.op = "connect" => connection_map[ClientOf[work.link]] = NoId
  /\ work.op = "disconnect" /\ work.link # NoLink =>
       connection_map[ClientOf[work.link]] = work.id
ClientsInv == MapExact /\ TakeoverExact

\* No step but the two that make and end a connection touches the map.
LEMMA ClientsKept ==
  ASSUME ClientsInv, SameLinks, UNCHANGED connection_map,
         \/ UNCHANGED work
         \/ work'.op \notin {"connect", "disconnect"}
         \/ work'.op = "disconnect" /\ work'.link = NoLink
  PROVE  ClientsInv'
BY DEF ClientsInv, MapExact, TakeoverExact, SameLinks

\* The steps that make and end no connection leave each its link.
LEMMA StepKeepsLinks ==
  ASSUME Core, [Next]_vars
  PROVE  \/ NoRoom \/ NewConnection \/ HandleDisconnection
         \/ SameLinks /\ (LinksAre \/ EventsAre \/ ConsumesAre \/ PacketsAre)
<1>1. CASE Steady
  <2>1. SameLinks
    BY <1>1, CoreSteady
  <2> QED BY <2>1, StepIs DEF HandleNewConnection, NoRoom, NewConnection
<1>2. CASE HandleNewConnection
  BY <1>2, ConnectSplit
<1>3. CASE HandleDisconnection
  BY <1>3
<1> QED BY <1>1, <1>2, <1>3, NextIsStep

\* Every step keeps connection_map exact.
LEMMA ClientsStep ==
  ASSUME Core, ClientsInv, [Next]_vars
  PROVE  ClientsInv'
<1>1. CASE LinksAre /\ SameLinks
  BY <1>1, LinksFrame, ClientsKept DEF routervars, slabvars
<1>2. CASE EventsAre /\ SameLinks
  <2>1. CASE EventStep
    <3>1. UNCHANGED connection_map /\ work = Idle
      BY <2>1 DEF EventStep, slabvars
    <3>2. MapExact'
      BY <1>2, <3>1 DEF ClientsInv, MapExact, SameLinks
    <3>3. CASE UNCHANGED work
      BY <1>2, <3>1, <3>3, ClientsKept
    <3>4. CASE EventTaken
      BY <3>1, <3>2, <3>4 DEF EventTaken, ClientsInv, TakeoverExact, Idle
    <3> QED BY <2>1, <3>3, <3>4 DEF EventStep
  <2>2. CASE \E id, c : ReadyStep(id, c)
    BY <1>2, <2>2, ClientsKept DEF ReadyStep
  <2> QED BY <1>2, <2>1, <2>2 DEF EventsAre
<1>3. CASE ConsumesAre /\ SameLinks
  <2>1. CASE EventStep
    BY <1>2, <1>3, <2>1 DEF EventsAre
  <2>2. ASSUME NEW id, NEW c, BeginStep(id, c) PROVE ClientsInv'
    BY <1>3, <2>2, ClientsKept DEF BeginStep
  <2>3. ASSUME NEW c, EndStep(c) PROVE ClientsInv'
    BY <1>3, <2>3, ClientsKept DEF EndStep, Idle
  <2>4. ASSUME NEW q, NEW n, NEW moved, NEW conn, NEW pushed, ForwardStep(q, n, moved, conn, pushed)
        PROVE  ClientsInv'
    <3>1. UNCHANGED connection_map /\ InConsume
      BY <2>4 DEF ForwardStep, Forwarding
    <3>2. work'.op \notin {"connect", "disconnect"}
      <4>1. work \in ConsumeWork
        BY <3>1, ConsumeIs DEF Core
      <4>2. CASE work' = Idle
        BY <4>2 DEF Idle
      <4>3. CASE \E left : work' = [work EXCEPT !.count = @ + 1, !.requests = left]
        BY <4>1, <4>3 DEF ConsumeWork
      <4> QED BY <2>4, <4>2, <4>3
              DEF ForwardStep, ForwardFills, ForwardParks, ForwardRequeues, ForwardGoesOn
    <3> QED BY <1>3, <3>1, <3>2, ClientsKept
  <2> QED BY <1>3, <2>1, <2>2, <2>3, <2>4 DEF ConsumesAre
<1>4. CASE PacketsAre /\ SameLinks
  <2>1. ASSUME NEW id, NEW c, PacketStep(id, c) PROVE ClientsInv'
    <3>1. UNCHANGED connection_map /\ work'.op \notin {"connect", "disconnect"}
      BY <2>1 DEF PacketStep, Onward, PacketsWork, NotifyWork
    <3> QED BY <1>4, <3>1, ClientsKept
  <2>2. CASE PayloadEnd
    <3>1. UNCHANGED connection_map /\ (work' = Idle \/ (work' \in DisconnectWork /\ work'.link = NoLink))
      BY <2>2, PayloadEndIs DEF Core, slabvars
    <3> QED BY <1>4, <3>1, ClientsKept DEF Idle, DisconnectWork
  <2> QED BY <1>4, <2>1, <2>2
          DEF PacketsAre, PlainStep, PublishStep, SubscribeStep, UnsubscribeStep, NotifyStep
<1>5. CASE NoRoom
  <2>1. UNCHANGED <<conns, connection_map>> /\ work' = Idle
    BY <1>5 DEF NoRoom, slabvars
  <2> QED BY <2>1 DEF ClientsInv, MapExact, TakeoverExact, Idle, Live
<1>6. CASE NewConnection
  <2>1. PICK id \in Slot : id = Head(vacant) /\ ~Live(id)
    BY <1>6, RoomIsVacant DEF NewConnection, Core
  <2>2. PICK d : d = conns'[id]
    OBVIOUS
  <2>3. PICK l \in Link : l = work.link /\ ClientOf[l] \in Client
    BY <1>6, NewConnectionIs DEF NewConnection, Core
  <2>4. /\ d \in Connection /\ conns' = [conns EXCEPT ![id] = d] /\ d.link = l
        /\ connection_map' = [connection_map EXCEPT ![ClientOf[l]] = id] /\ work' = Idle
    BY <1>6, <2>1, <2>2, <2>3, NewConnectionIs DEF NewConnection, Core
  <2>5. /\ \A i \in Slot : conns'[i] = IF i = id THEN d ELSE conns[i]
        /\ \A i \in Slot : Live(i)' <=> i = id \/ Live(i)
    BY <2>4 DEF Core, TypeInv, ConnsOK, Live, Connection, Vacant
  <2>6. \A c \in Client : connection_map'[c] = IF c = ClientOf[l] THEN id ELSE connection_map[c]
    BY <2>4 DEF Core, TypeInv, MapOK
  <2>7. connection_map[ClientOf[l]] = NoId
    BY <1>6, <2>3 DEF NewConnection, ClientsInv, TakeoverExact
  <2>8. NoId \notin Slot
    BY RouterAssumption DEF NoId, Slot
  <2>9. ASSUME NEW i \in Slot, Live(i)' PROVE connection_map'[ClientOf[conns'[i].link]] = i
    <3>1. CASE i = id
      BY <2>3, <2>4, <2>5, <2>6, <3>1
    <3>2. CASE i # id
      <4>1. Live(i) /\ conns'[i] = conns[i] /\ conns[i] \in Connection
        BY <2>5, <2>9, <3>2, LiveIs DEF Core, TypeInv
      <4>2. connection_map[ClientOf[conns[i].link]] = i
        BY <4>1 DEF ClientsInv, MapExact
      <4>3. ClientOf[conns[i].link] \in Client
        BY <4>1, RouterAssumption DEF Connection
      <4> QED BY <2>6, <2>7, <2>8, <4>1, <4>2, <4>3
    <3> QED BY <3>1, <3>2
  <2> QED BY <2>4, <2>9 DEF ClientsInv, MapExact, TakeoverExact, Idle
<1>7. CASE HandleDisconnection
  <2>1. PICK id \in Slot : id = work.id /\ Live(id) /\ conns[id] \in Connection
    BY <1>7, DisconnectIs DEF Core, Me
  <2>2. PICK k \in Client : k = ClientOf[conns[id].link]
    BY <1>7, <2>1, DisconnectIs DEF Core, Me
  <2>3. /\ conns' = [conns EXCEPT ![id] = Vacant]
        /\ connection_map' = [connection_map EXCEPT ![k] = NoId]
        /\ work' = IF work.link = NoLink THEN Idle ELSE [op |-> "connect", link |-> work.link]
        /\ work.op = "disconnect" /\ work.link \in Link \cup {NoLink}
    BY <1>7, <2>1, <2>2, DisconnectIs DEF Core, Me, DisconnectWork
  <2>4. \A i \in Slot : conns'[i] = IF i = id THEN Vacant ELSE conns[i]
    BY <2>3 DEF Core, TypeInv, ConnsOK
  <2>5. \A c \in Client : connection_map'[c] = IF c = k THEN NoId ELSE connection_map[c]
    BY <2>3 DEF Core, TypeInv, MapOK
  <2>6. connection_map[k] = id
    BY <2>1, <2>2 DEF ClientsInv, MapExact
  <2>7. ASSUME NEW i \in Slot, Live(i)' PROVE connection_map'[ClientOf[conns'[i].link]] = i
    <3>1. i # id /\ Live(i) /\ conns'[i] = conns[i]
      BY <2>4, <2>7 DEF Live
    <3>2. connection_map[ClientOf[conns[i].link]] = i
      BY <3>1 DEF ClientsInv, MapExact
    <3>3. ClientOf[conns[i].link] \in Client
      BY <3>1, LiveIs, RouterAssumption DEF Connection, Core, TypeInv
    <3> QED BY <2>5, <2>6, <3>1, <3>2, <3>3
  <2>8. TakeoverExact'
    <3>1. CASE work.link = NoLink
      BY <2>3, <3>1 DEF TakeoverExact, Idle
    <3>2. CASE work.link # NoLink
      <4>1. connection_map[ClientOf[work.link]] = id /\ ClientOf[work.link] \in Client
        BY <2>1, <2>3, <3>2, RouterAssumption DEF ClientsInv, TakeoverExact
      <4>2. id # NoId
        BY RouterAssumption DEF NoId, Slot
      <4>3. ClientOf[conns[id].link] = ClientOf[work.link]
        BY <4>1, <4>2 DEF Core, TypeInv, MapOK
      <4> QED BY <2>2, <2>3, <2>5, <3>2, <4>1, <4>3 DEF TakeoverExact
    <3> QED BY <3>1, <3>2
  <2> QED BY <2>7, <2>8 DEF ClientsInv, MapExact
<1> QED BY <1>1, <1>2, <1>3, <1>4, <1>5, <1>6, <1>7, StepKeepsLinks

\* There is no connection at the start.
LEMMA ClientsInit ==
  ASSUME Init
  PROVE  ClientsInv
BY DEF Init, ClientsInv, MapExact, TakeoverExact, Live, Idle

\* A client has one connection at a time.
OneConnectionPerClient ==
  \A i, j \in LiveIds : ClientOf[conns[i].link] = ClientOf[conns[j].link] => i = j

\* A takeover leaves no second connection of the client: in no state do two
\* live connections belong to one client_id.
THEOREM ClientsConnectOnce == Spec => []OneConnectionPerClient
<1>1. ClientsInv => OneConnectionPerClient
  BY DEF ClientsInv, MapExact, OneConnectionPerClient, LiveIds
<1> QED BY <1>1, ClientsInit, ClientsStep, CoreHolds, PTL DEF Spec

------------------------------------------------------------------------------
\* Where the Connect of a link is: in the channel, or in the hands of the
\* router; and whether a connection came of it.
Requested(l) == \E e \in Range(chan) : e.event = "Connect" /\ e.link = l
InHands(l)   == work.op \in {"connect", "disconnect"} /\ work.link = l
Linked(l)    == \E id \in Slot : Live(id) /\ conns[id].link = l
RequestedOnce(l) ==
  /\ \A i, j \in 1 .. Len(chan) :
       /\ chan[i].event = "Connect" /\ chan[i].link = l
       /\ chan[j].event = "Connect" /\ chan[j].link = l
       => i = j
  /\ ~(Requested(l) /\ InHands(l))

\* A link asks once, while it is connecting, and has no signal before it has
\* a connection; a connection whose CONNACK left has told its link its id.
NewIsUnknown(l) == at[l] = "new" => ~Linked(l) /\ ~Requested(l) /\ ~InHands(l) /\ sig[l] = 0
AskedIsWaiting(l) ==
  Requested(l) \/ InHands(l) => at[l] = "connecting" /\ ~Linked(l) /\ sig[l] = 0
Answers(id, l) ==
  \/ "ConnAck" \in Range(conns[id].acks) /\ sig[l] = 0 /\ at[l] = "connecting"
  \/ cid[l] = id /\ (at[l] = "connecting" => sig[l] > 0)
LinkedIsAnswered(l) == \A id \in Slot : Live(id) /\ conns[id].link = l => Answers(id, l)
LinkInv(l) == RequestedOnce(l) /\ NewIsUnknown(l) /\ AskedIsWaiting(l) /\ LinkedIsAnswered(l)

\* Acks have gone when consume is past its first step.
AcksGone == InConsume => conns[work.id].acks = <<>>
LinksInv == AcksGone /\ \A l \in Link : LinkInv(l)

\* The channel after its head is taken, and after an event is sent.
LEMMA ChanTail ==
  ASSUME ChanOK, chan # <<>>, chan' = Tail(chan)
  PROVE  /\ Head(chan) \in Range(chan)
         /\ \A e : e \in Range(chan) <=> e = Head(chan) \/ e \in Range(chan')
         /\ \A l : RequestedOnce(l) /\ Requested(l)' => ~(Head(chan).event = "Connect" /\ Head(chan).link = l)
         /\ \A l : RequestedOnce(l) /\ ~(Requested(l)' /\ InHands(l)') => RequestedOnce(l)'
<1>1. chan \in Seq(Event)
  BY DEF ChanOK
<1>2. \A e : e \in Range(chan) <=> e = Head(chan) \/ e \in Range(chan')
  BY <1>1, TailKept
<1> DEFINE n == Len(chan)
<1>3. /\ n \in Nat \ {0} /\ Len(chan') = n - 1 /\ Head(chan) = chan[1] /\ chan' \in Seq(Event)
      /\ \A i \in 1 .. n - 1 : chan'[i] = chan[i + 1] /\ i + 1 \in 1 .. n
  BY <1>1
<1>4. ASSUME NEW l, RequestedOnce(l), Requested(l)'
      PROVE  ~(Head(chan).event = "Connect" /\ Head(chan).link = l)
  <2>1. PICK e \in Range(chan') : e.event = "Connect" /\ e.link = l
    BY <1>4 DEF Requested
  <2>2. PICK i \in 1 .. n - 1 : chan'[i] = e
    <3>1. DOMAIN chan' = 1 .. n - 1
      BY <1>3
    <3> QED BY <2>1, <3>1 DEF Range
  <2>3. chan[i + 1] = e /\ i + 1 \in 1 .. n /\ 1 \in 1 .. n /\ i + 1 # 1
    BY <1>3, <2>2
  <2> QED BY <1>3, <1>4, <2>1, <2>3 DEF RequestedOnce
<1>5. ASSUME NEW l, RequestedOnce(l), ~(Requested(l)' /\ InHands(l)')
      PROVE  RequestedOnce(l)'
  <2>1. ASSUME NEW i \in 1 .. Len(chan'), NEW j \in 1 .. Len(chan'),
               chan'[i].event = "Connect" /\ chan'[i].link = l,
               chan'[j].event = "Connect" /\ chan'[j].link = l
        PROVE  i = j
    <3>1. i \in 1 .. n - 1 /\ j \in 1 .. n - 1
      BY <1>3
    <3>2. /\ chan'[i] = chan[i + 1] /\ i + 1 \in 1 .. n
          /\ chan'[j] = chan[j + 1] /\ j + 1 \in 1 .. n
      BY <1>3, <3>1
    <3>3. i + 1 = j + 1
      BY <1>5, <2>1, <3>2 DEF RequestedOnce
    <3> QED BY <1>3, <3>1, <3>3
  <2> QED BY <1>5, <2>1 DEF RequestedOnce
<1> QED BY <1>2, <1>4, <1>5

\* The channel after an event is sent: a link that had not asked has asked
\* once.
LEMMA ChanGrows ==
  ASSUME ChanOK, NEW e \in Event, chan' = Append(chan, e)
  PROVE  /\ \A x : x \in Range(chan') <=> x \in Range(chan) \/ x = e
         /\ \A l : /\ RequestedOnce(l) /\ ~(Requested(l)' /\ InHands(l)')
                   /\ e.event = "Connect" /\ e.link = l => ~Requested(l)
                   => RequestedOnce(l)'
<1>1. chan \in Seq(Event)
  BY DEF ChanOK
<1>2. \A x : x \in Range(chan') <=> x \in Range(chan) \/ x = e
  BY <1>1, AppendIs
<1> DEFINE n == Len(chan)
<1>3. /\ n \in Nat /\ Len(chan') = n + 1 /\ chan'[n + 1] = e
      /\ \A i \in 1 .. n : chan'[i] = chan[i]
  BY <1>1
<1>4. ASSUME NEW l, RequestedOnce(l), ~(Requested(l)' /\ InHands(l)'),
             e.event = "Connect" /\ e.link = l => ~Requested(l)
      PROVE  RequestedOnce(l)'
  <2> DEFINE Ask(x) == x.event = "Connect" /\ x.link = l
  <2>1. ASSUME NEW i \in 1 .. n, Ask(chan[i]) PROVE ~Ask(e)
    <3>1. Requested(l)
      <4>1. chan[i] \in Range(chan)
        BY <1>1, InRange
      <4> QED BY <2>1, <4>1 DEF Requested
    <3> QED BY <1>4, <3>1
  <2>2. ASSUME NEW i \in 1 .. Len(chan'), NEW j \in 1 .. Len(chan'), Ask(chan'[i]), Ask(chan'[j])
        PROVE  i = j
    <3>1. (i \in 1 .. n \/ i = n + 1) /\ (j \in 1 .. n \/ j = n + 1)
      BY <1>3
    <3>2. CASE i \in 1 .. n /\ j \in 1 .. n
      <4>1. Ask(chan[i]) /\ Ask(chan[j])
        BY <1>3, <2>2, <3>2
      <4> QED BY <1>4, <3>2, <4>1 DEF RequestedOnce
    <3>3. CASE i = n + 1 /\ j \in 1 .. n
      BY <1>3, <2>1, <2>2, <3>3
    <3>4. CASE j = n + 1 /\ i \in 1 .. n
      BY <1>3, <2>1, <2>2, <3>4
    <3> QED BY <3>1, <3>2, <3>3, <3>4
  <2> QED BY <1>4, <2>2 DEF RequestedOnce
<1> QED BY <1>2, <1>4

\* Two links of two connections are two.
LEMMA LinksDiffer ==
  ASSUME ClientsInv, NEW i \in Slot, NEW j \in Slot, Live(i), Live(j),
         conns[i].link = conns[j].link
  PROVE  i = j
BY DEF ClientsInv, MapExact

\* A step in which no link moves, no Connect is taken or sent, and what a
\* connection owes its link stays paid.
LEMMA LinkKept ==
  ASSUME NEW l \in Link, LinkInv(l), UNCHANGED at, SameLinks,
         Requested(l)' => Requested(l), InHands(l)' => InHands(l), RequestedOnce(l)',
         ~Linked(l) => sig'[l] = sig[l],
         \A id \in Slot : Live(id) /\ conns[id].link = l /\ Answers(id, l) => Answers(id, l)'
  PROVE  LinkInv(l)'
<1>1. Linked(l)' <=> Linked(l)
  BY DEF Linked, SameLinks
<1>2. NewIsUnknown(l)'
  BY <1>1 DEF LinkInv, NewIsUnknown
<1>3. AskedIsWaiting(l)'
  BY <1>1 DEF LinkInv, AskedIsWaiting
<1>4. LinkedIsAnswered(l)'
  BY DEF LinkInv, LinkedIsAnswered, SameLinks
<1> QED BY <1>2, <1>3, <1>4 DEF LinkInv

\* When the channel and the hands are the same, so is what was asked.
LEMMA AskedKept ==
  ASSUME UNCHANGED chan, NEW l, InHands(l)' => InHands(l), RequestedOnce(l)
  PROVE  (Requested(l)' <=> Requested(l)) /\ RequestedOnce(l)'
<1>1. Requested(l)' <=> Requested(l)
  BY DEF Requested
<1> QED BY <1>1 DEF RequestedOnce

\* The router takes a Connect in hand only from the channel, or from a
\* takeover.
LEMMA NotInHands ==
  ASSUME \/ UNCHANGED work
         \/ work'.op \notin {"connect", "disconnect"}
         \/ work'.op = "disconnect" /\ work'.link = NoLink
  PROVE  \A l \in Link : InHands(l)' => InHands(l)
BY RouterAssumption DEF InHands

\* Packets reach no link.
LEMMA PacketsLinks ==
  ASSUME Core, LinksInv, PacketsAre, SameLinks
  PROVE  LinksInv'
<1>1. ASSUME NEW id, NEW c, PacketStep(id, c) PROVE LinksInv'
  <2>1. /\ id \in Slot /\ c \in Connection /\ conns' = [conns EXCEPT ![id] = c]
        /\ "ConnAck" \in Range(c.acks) <=> "ConnAck" \in Range(conns[id].acks)
        /\ UNCHANGED <<chan, at, cid, sig>>
        /\ work'.op \notin {"consume", "connect", "disconnect"}
    BY <1>1 DEF PacketStep, Becomes, Onward, PacketsWork, NotifyWork, linkvars, bufvars
  <2>2. \A i \in Slot : conns'[i] = IF i = id THEN c ELSE conns[i]
    BY <2>1 DEF Core, TypeInv, ConnsOK
  <2>3. \A i \in Slot, l \in Link : Answers(i, l) => Answers(i, l)'
    BY <2>1, <2>2 DEF Answers
  <2>4. ASSUME NEW l \in Link PROVE LinkInv(l)'
    <3>1. LinkInv(l) /\ (InHands(l)' => InHands(l))
      BY <2>1, NotInHands DEF LinksInv
    <3>2. (Requested(l)' <=> Requested(l)) /\ RequestedOnce(l)'
      BY <2>1, <3>1, AskedKept DEF LinkInv
    <3> QED BY <2>1, <2>3, <3>1, <3>2, LinkKept
  <2>5. AcksGone'
    BY <2>1 DEF AcksGone, InConsume
  <2> QED BY <2>4, <2>5 DEF LinksInv
<1>2. CASE PayloadEnd
  <2>1. UNCHANGED <<chan, conns, at, cid, sig>>
    BY <1>2 DEF PayloadEnd, slabvars, linkvars, bufvars
  <2>2. work' = Idle \/ (work' \in DisconnectWork /\ work'.link = NoLink)
    BY <1>2, PayloadEndIs DEF Core
  <2>3. \A i \in Slot, l \in Link : Answers(i, l) => Answers(i, l)'
    BY <2>1 DEF Answers
  <2>4. ASSUME NEW l \in Link PROVE LinkInv(l)'
    <3>1. LinkInv(l) /\ (InHands(l)' => InHands(l))
      BY <2>2, NotInHands DEF LinksInv, Idle, DisconnectWork
    <3>2. (Requested(l)' <=> Requested(l)) /\ RequestedOnce(l)'
      BY <2>1, <3>1, AskedKept DEF LinkInv
    <3> QED BY <2>1, <2>3, <3>1, <3>2, LinkKept
  <2>5. AcksGone'
    BY <2>2 DEF AcksGone, InConsume, Idle, DisconnectWork
  <2> QED BY <2>4, <2>5 DEF LinksInv
<1> QED BY <1>1, <1>2
        DEF PacketsAre, PlainStep, PublishStep, SubscribeStep, UnsubscribeStep, NotifyStep

\* A Connect that is taken is in hand, and no more in the channel.
LEMMA EventsLinks ==
  ASSUME Core, LinksInv, EventsAre, SameLinks
  PROVE  LinksInv'
<1>0. ChanOK
  BY DEF Core, TypeInv
<1>1. CASE EventStep
  <2>1. UNCHANGED <<conns, at, cid, sig>> /\ work = Idle
    BY <1>1 DEF EventStep, slabvars, linkvars
  <2>2. \A i \in Slot, l \in Link : Answers(i, l) => Answers(i, l)'
    BY <2>1 DEF Answers
  <2>3. \A l : ~InHands(l)
    BY <2>1 DEF InHands, Idle
  <2>4. AcksGone'
    BY <1>1, <2>1 DEF EventStep, EventTaken, AcksGone, InConsume, Idle
  <2>5. CASE UNCHANGED <<chan, work>>
    <3>1. ASSUME NEW l \in Link PROVE LinkInv(l)'
      <4>1. LinkInv(l) /\ (InHands(l)' => InHands(l))
        BY <2>5 DEF LinksInv, InHands
      <4>2. (Requested(l)' <=> Requested(l)) /\ RequestedOnce(l)'
        BY <2>5, <4>1, AskedKept DEF LinkInv
      <4> QED BY <2>1, <2>2, <4>1, <4>2, LinkKept
    <3> QED BY <2>4, <3>1 DEF LinksInv
  <2>6. CASE EventTaken
    <3>1. PICK e : e = Head(chan)
      OBVIOUS
    <3>2. chan # <<>> /\ chan' = Tail(chan)
      BY <2>6 DEF EventTaken
    <3>3. /\ e \in Range(chan) /\ \A x : x \in Range(chan) <=> x = e \/ x \in Range(chan')
          /\ \A l : RequestedOnce(l) /\ Requested(l)' => ~(e.event = "Connect" /\ e.link = l)
          /\ \A l : RequestedOnce(l) /\ ~(Requested(l)' /\ InHands(l)') => RequestedOnce(l)'
      BY <1>0, <3>1, <3>2, ChanTail
    <3>4. \A l \in Link : InHands(l)' => e.event = "Connect" /\ e.link = l
      <4>1. UNCHANGED work => \A l : ~InHands(l)'
        BY <2>3 DEF InHands
      <4> QED BY <2>6, <3>1, <4>1, RouterAssumption DEF EventTaken, InHands
    <3>5. ASSUME NEW l \in Link PROVE LinkInv(l)'
      <4>1. LinkInv(l) /\ RequestedOnce(l)
        BY DEF LinksInv, LinkInv
      <4>2. Requested(l)' => Requested(l)
        BY <3>3 DEF Requested
      <4>3. RequestedOnce(l)'
        BY <3>3, <3>4, <4>1
      <4>4. InHands(l)' => Requested(l)
        BY <3>3, <3>4 DEF Requested
      <4>5. Linked(l)' <=> Linked(l)
        BY <2>1 DEF Linked, Live
      <4>6. NewIsUnknown(l)' /\ AskedIsWaiting(l)'
        BY <2>1, <4>1, <4>2, <4>4, <4>5 DEF LinkInv, NewIsUnknown, AskedIsWaiting
      <4>7. LinkedIsAnswered(l)'
        BY <2>1, <2>2, <4>1 DEF LinkInv, LinkedIsAnswered, Live
      <4> QED BY <4>3, <4>6, <4>7 DEF LinkInv
    <3> QED BY <2>4, <3>5 DEF LinksInv
  <2> QED BY <1>1, <2>5, <2>6 DEF EventStep
<1>2. CASE \E id, c : ReadyStep(id, c)
  <2>1. PICK id, c : ReadyStep(id, c)
    BY <1>2
  <2>2. /\ id \in Slot /\ conns' = [conns EXCEPT ![id] = c] /\ c.acks = conns[id].acks
        /\ work = Idle /\ UNCHANGED <<work, at, cid, sig>>
        /\ chan # <<>> /\ chan' = Tail(chan)
    BY <2>1 DEF ReadyStep, linkvars, bufvars
  <2>3. \A i \in Slot : conns'[i] = IF i = id THEN c ELSE conns[i]
    BY <2>2 DEF Core, TypeInv, ConnsOK
  <2>4. \A i \in Slot, l \in Link : Answers(i, l) => Answers(i, l)'
    BY <2>2, <2>3 DEF Answers
  <2>5. ASSUME NEW l \in Link PROVE LinkInv(l)'
    <3>1. LinkInv(l) /\ RequestedOnce(l) /\ ~InHands(l)'
      BY <2>2 DEF LinksInv, LinkInv, InHands, Idle
    <3>2. (Requested(l)' => Requested(l)) /\ RequestedOnce(l)'
      BY <1>0, <2>2, <3>1, ChanTail DEF Requested
    <3> QED BY <2>2, <2>4, <3>1, <3>2, LinkKept
  <2>6. AcksGone'
    BY <2>2 DEF AcksGone, InConsume, Idle
  <2> QED BY <2>5, <2>6 DEF LinksInv
<1> QED BY <1>1, <1>2 DEF EventsAre

\* A signal, or none: the pending signals of other links are what they were.
LEMMA SignalMore ==
  ASSUME BufsOK, NEW l \in Link, Signal(l) \/ UNCHANGED sig
  PROVE  /\ \A k \in Link : k # l => sig'[k] = sig[k]
         /\ sig'[l] >= sig[l] /\ sig[l] \in Nat
         /\ sig[l] > 0 => sig'[l] > 0
         /\ Signal(l) => sig'[l] > 0
<1>1. sig[l] \in Nat
  BY RouterAssumption DEF BufsOK
<1>2. CASE Signal(l)
  BY <1>1, <1>2, SignalIs
<1> QED BY <1>1, <1>2

\* A CONNACK goes out with a signal, and with the id of the connection it is
\* of.
LEMMA BeginLinks ==
  ASSUME Core, ClientsInv, LinksInv, SameLinks, NEW id, NEW c, BeginStep(id, c)
  PROVE  LinksInv'
<1>1. PICK k \in Link : k = c.link
  BY DEF BeginStep, Connection
<1>2. /\ id \in Slot /\ Live(id) /\ conns[id] \in Connection /\ conns[id].link = k
      /\ conns' = [conns EXCEPT ![id] = c] /\ c.acks = <<>>
      /\ conns[id].acks = <<>> => UNCHANGED sig
      /\ conns[id].acks # <<>> => Signal(k)
      /\ cid' = IF "ConnAck" \in Range(conns[id].acks) THEN [cid EXCEPT ![k] = id] ELSE cid
      /\ InConsume' /\ work'.id = id
      /\ UNCHANGED <<chan, at>>
  BY <1>1 DEF BeginStep, InConsume
<1>3. \A i \in Slot : conns'[i] = IF i = id THEN c ELSE conns[i]
  BY <1>2 DEF Core, TypeInv, ConnsOK
<1>4. /\ \A l \in Link : l # k => sig'[l] = sig[l] /\ cid'[l] = cid[l]
      /\ sig[k] > 0 => sig'[k] > 0
      /\ cid'[k] = IF "ConnAck" \in Range(conns[id].acks) THEN id ELSE cid[k]
      /\ "ConnAck" \in Range(conns[id].acks) => sig'[k] > 0
  <2>1. BufsOK /\ LinksOK
    BY DEF Core, TypeInv
  <2>2. "ConnAck" \in Range(conns[id].acks) => conns[id].acks # <<>>
    BY DEF Range
  <2>3. \A l \in Link : l # k => cid'[l] = cid[l]
    BY <1>2, <2>1 DEF LinksOK
  <2>4. cid'[k] = IF "ConnAck" \in Range(conns[id].acks) THEN id ELSE cid[k]
    BY <1>2, <2>1 DEF LinksOK
  <2>5. Signal(k) \/ UNCHANGED sig
    BY <1>2
  <2>6. \A l \in Link : l # k => sig'[l] = sig[l]
    BY <2>1, <2>5, SignalMore
  <2>7. (sig[k] > 0 => sig'[k] > 0) /\ (Signal(k) => sig'[k] > 0)
    BY <2>1, <2>5, SignalMore
  <2> QED BY <1>2, <2>2, <2>3, <2>4, <2>6, <2>7
<1>5. ASSUME NEW l \in Link PROVE LinkInv(l)'
  <2>1. LinkInv(l)
    BY DEF LinksInv
  <2>2. InHands(l)' => InHands(l)
    BY <1>2 DEF InHands, InConsume
  <2>3. (Requested(l)' <=> Requested(l)) /\ RequestedOnce(l)'
    BY <1>2, <2>1, <2>2, AskedKept DEF LinkInv
  <2>4. ~Linked(l) => sig'[l] = sig[l]
    BY <1>2, <1>4 DEF Linked
  <2>5. ASSUME NEW i \in Slot, Live(i), conns[i].link = l, Answers(i, l) PROVE Answers(i, l)'
    <3>1. CASE l # k
      <4>1. i # id
        BY <1>2, <2>5, <3>1
      <4> QED BY <1>2, <1>3, <1>4, <2>5, <3>1, <4>1 DEF Answers
    <3>2. CASE l = k
      <4>1. i = id
        BY <1>2, <2>5, <3>2, LinksDiffer
      <4> QED BY <1>2, <1>4, <2>5, <3>2, <4>1 DEF Answers
    <3> QED BY <3>1, <3>2
  <2> QED BY <1>2, <2>1, <2>2, <2>3, <2>4, <2>5, LinkKept
<1>6. AcksGone'
  BY <1>2, <1>3 DEF AcksGone
<1> QED BY <1>5, <1>6 DEF LinksInv

\* The end of a consume reaches no link.
LEMMA EndLinks ==
  ASSUME Core, LinksInv, SameLinks, NEW c, EndStep(c)
  PROVE  LinksInv'
<1>1. /\ work.id \in Slot /\ conns' = [conns EXCEPT ![work.id] = c]
      /\ c.acks = conns[work.id].acks
      /\ work' = Idle /\ UNCHANGED <<chan, at, cid, sig>>
  BY DEF EndStep, Me, linkvars, bufvars
<1>2. \A i \in Slot : conns'[i] = IF i = work.id THEN c ELSE conns[i]
  BY <1>1 DEF Core, TypeInv, ConnsOK
<1>3. \A i \in Slot, l \in Link : Answers(i, l) => Answers(i, l)'
  BY <1>1, <1>2 DEF Answers
<1>4. ASSUME NEW l \in Link PROVE LinkInv(l)'
  <2>1. LinkInv(l) /\ (InHands(l)' => InHands(l))
    BY <1>1 DEF LinksInv, InHands, Idle
  <2>2. (Requested(l)' <=> Requested(l)) /\ RequestedOnce(l)'
    BY <1>1, <2>1, AskedKept DEF LinkInv
  <2> QED BY <1>1, <1>3, <2>1, <2>2, LinkKept
<1>5. AcksGone'
  BY <1>1 DEF AcksGone, InConsume, Idle
<1> QED BY <1>4, <1>5 DEF LinksInv

\* What a forward does to the connection, in all its outcomes.
LEMMA ForwardOn ==
  ASSUME Core, NEW q, NEW n, NEW moved, NEW conn, NEW pushed,
         ForwardStep(q, n, moved, conn, pushed)
  PROVE  /\ work.id \in Slot /\ Live(work.id) /\ Me \in Connection /\ Me.link \in Link
         /\ InConsume /\ n \in Nat /\ pushed \in Seq(Notification) /\ Len(pushed) = n
         /\ Signal(Me.link) \/ UNCHANGED sig
         /\ UNCHANGED <<chan, at, cid>>
         /\ work' = Idle \/ (InConsume' /\ work'.id = work.id)
         /\ \E c \in Connection :
              /\ conns' = [conns EXCEPT ![work.id] = c]
              /\ c.acks = conns[work.id].acks /\ c.link = conns[work.id].link
              /\ \/ c.status = conns[work.id].status
                    /\ obuf' = [obuf EXCEPT ![Me.link] = @ \o pushed]
                 \/ c.status = "Busy" /\ n > 0 /\ Signal(Me.link)
                    /\ obuf' = [obuf EXCEPT ![Me.link] = Append(@ \o pushed, "Unschedule")]
<1>1. Forwarding(q, n, moved, conn, pushed)
  BY DEF ForwardStep
<1>2. /\ work.id \in Slot /\ Live(work.id) /\ Me \in Connection /\ Me.link \in Link
      /\ InConsume /\ work \in ConsumeWork
  BY <1>1, ConsumeIs DEF Forwarding, Core, Connection
<1>3. /\ n \in Nat /\ pushed \in Seq(Notification) /\ Len(pushed) = n
      /\ conn \in Connection /\ conn.acks = Me.acks /\ conn.link = Me.link
      /\ conn.status = Me.status
      /\ n # 0 => Signal(Me.link)
      /\ n = 0 => UNCHANGED sig
      /\ UNCHANGED <<chan, at, cid>>
  BY <1>1 DEF Forwarding, linkvars
<1>4. CASE ForwardFills(n, moved, conn, pushed)
  <2>1. PICK c \in Connection :
          /\ conns' = [conns EXCEPT ![work.id] = c]
          /\ c.status = "Busy" /\ c.link = conn.link /\ c.subs = conn.subs /\ c.acks = conn.acks
          /\ c.requests = conn.requests \o Requeued(moved)
    BY <1>1, <1>4, FillsIs
  <2>2. /\ n > 0 /\ work' = Idle
        /\ obuf' = [obuf EXCEPT ![Me.link] = Append(@ \o pushed, "Unschedule")]
    BY <1>4 DEF ForwardFills
  <2>3. Signal(Me.link)
    BY <1>3, <2>2
  <2> QED BY <1>2, <1>3, <2>1, <2>2, <2>3 DEF Me
<1>5. ASSUME NEW left, ForwardGoesOn(conn, pushed, left)
      PROVE  /\ conns' = [conns EXCEPT ![work.id] = conn]
             /\ obuf' = [obuf EXCEPT ![Me.link] = @ \o pushed]
             /\ InConsume' /\ work'.id = work.id
  BY <1>2, <1>5 DEF ForwardGoesOn, InConsume, ConsumeWork
<1>6. CASE ForwardParks(moved, conn, pushed) \/ ForwardRequeues(moved, conn, pushed)
  <2>1. /\ conns' = [conns EXCEPT ![work.id] = conn]
        /\ obuf' = [obuf EXCEPT ![Me.link] = @ \o pushed]
        /\ InConsume' /\ work'.id = work.id
    BY <1>5, <1>6 DEF ForwardParks, ForwardRequeues
  <2> QED BY <1>2, <1>3, <2>1 DEF Me
<1> QED BY <1>4, <1>6 DEF ForwardStep

\* A forward signals the link of its connection at most.
LEMMA ForwardLinks ==
  ASSUME Core, ClientsInv, LinksInv, SameLinks, NEW q, NEW n, NEW moved, NEW conn, NEW pushed,
         ForwardStep(q, n, moved, conn, pushed)
  PROVE  LinksInv'
<1>1. PICK id \in Slot, k \in Link : id = work.id /\ k = conns[id].link /\ Live(id)
  BY ForwardOn DEF Me
<1>2. /\ Signal(k) \/ UNCHANGED sig
      /\ UNCHANGED <<chan, at, cid>> /\ InConsume
      /\ work' = Idle \/ (InConsume' /\ work'.id = id)
  BY <1>1, ForwardOn DEF Me
<1>3. PICK c \in Connection : conns' = [conns EXCEPT ![id] = c] /\ c.acks = conns[id].acks
  BY <1>1, ForwardOn
<1>4. \A i \in Slot : conns'[i] = IF i = id THEN c ELSE conns[i]
  BY <1>3 DEF Core, TypeInv, ConnsOK
<1>5. c.acks = <<>> /\ "ConnAck" \notin Range(c.acks)
  BY <1>1, <1>2, <1>3 DEF LinksInv, AcksGone, Range
<1>6. /\ \A l \in Link : l # k => sig'[l] = sig[l]
      /\ sig[k] > 0 => sig'[k] > 0
  BY <1>1, <1>2, SignalMore DEF Core, TypeInv
<1>7. ASSUME NEW l \in Link PROVE LinkInv(l)'
  <2>1. LinkInv(l)
    BY DEF LinksInv
  <2>2. InHands(l)' => InHands(l)
    BY <1>2 DEF InHands, InConsume, Idle
  <2>3. (Requested(l)' <=> Requested(l)) /\ RequestedOnce(l)'
    BY <1>2, <2>1, <2>2, AskedKept DEF LinkInv
  <2>4. ~Linked(l) => sig'[l] = sig[l]
    BY <1>1, <1>6 DEF Linked
  <2>5. ASSUME NEW i \in Slot, Live(i), conns[i].link = l, Answers(i, l) PROVE Answers(i, l)'
    <3>1. CASE l # k
      <4>1. i # id
        BY <1>1, <2>5, <3>1
      <4> QED BY <1>2, <1>4, <1>6, <2>5, <3>1, <4>1 DEF Answers
    <3>2. CASE l = k
      <4>1. i = id
        BY <1>1, <2>5, <3>2, LinksDiffer
      <4> QED BY <1>2, <1>3, <1>5, <1>6, <2>5, <3>2, <4>1 DEF Answers
    <3> QED BY <3>1, <3>2
  <2> QED BY <1>2, <2>1, <2>2, <2>3, <2>4, <2>5, LinkKept
<1>8. AcksGone'
  BY <1>2, <1>3, <1>4, <1>5 DEF AcksGone, InConsume, Idle
<1> QED BY <1>7, <1>8 DEF LinksInv

\* A Connect for which there is no room is forgotten.
LEMMA NoRoomLinks ==
  ASSUME Core, LinksInv, NoRoom
  PROVE  LinksInv'
<1>1. UNCHANGED <<chan, conns, at, cid, sig>> /\ work' = Idle
  BY DEF NoRoom, slabvars, linkvars, bufvars
<1>2. SameLinks /\ \A i \in Slot, l \in Link : Answers(i, l) => Answers(i, l)'
  BY <1>1 DEF SameLinks, Live, Answers
<1>3. ASSUME NEW l \in Link PROVE LinkInv(l)'
  <2>1. LinkInv(l) /\ (InHands(l)' => InHands(l))
    BY <1>1 DEF LinksInv, InHands, Idle
  <2>2. (Requested(l)' <=> Requested(l)) /\ RequestedOnce(l)'
    BY <1>1, <2>1, AskedKept DEF LinkInv
  <2> QED BY <1>1, <1>2, <2>1, <2>2, LinkKept
<1>4. AcksGone'
  BY <1>1 DEF AcksGone, InConsume, Idle
<1> QED BY <1>3, <1>4 DEF LinksInv

\* A new connection has its CONNACK still to send, and its link waits for it.
LEMMA ConnectLinks ==
  ASSUME Core, LinksInv, NewConnection
  PROVE  LinksInv'
<1>1. PICK id \in Slot : id = Head(vacant) /\ ~Live(id)
  BY RoomIsVacant DEF NewConnection, Core
<1>2. PICK d : d = conns'[id]
  OBVIOUS
<1>3. PICK k \in Link : k = work.link
  BY NewConnectionIs DEF NewConnection, Core
<1>4. /\ d \in Connection /\ conns' = [conns EXCEPT ![id] = d] /\ d.link = k
      /\ d.acks = <<"ConnAck">> /\ work' = Idle /\ work.op = "connect"
      /\ UNCHANGED <<chan, at, cid, sig>>
  BY <1>1, <1>2, <1>3, NewConnectionIs DEF NewConnection, Core, linkvars, bufvars
<1>5. /\ \A i \in Slot : conns'[i] = IF i = id THEN d ELSE conns[i]
      /\ \A i \in Slot : Live(i)' <=> i = id \/ Live(i)
  BY <1>4 DEF Core, TypeInv, ConnsOK, Live, Connection, Vacant
<1>6. "ConnAck" \in Range(<<"ConnAck">>)
  BY DEF Range
<1>7. InHands(k) /\ \A l : ~InHands(l)'
  BY <1>3, <1>4 DEF InHands, Idle
<1>8. ASSUME NEW l \in Link PROVE LinkInv(l)'
  <2>1. LinkInv(l)
    BY DEF LinksInv
  <2>2. (Requested(l)' <=> Requested(l)) /\ RequestedOnce(l)'
    BY <1>4, <1>7, <2>1, AskedKept DEF LinkInv
  <2>3. Linked(l)' <=> l = k \/ Linked(l)
    BY <1>1, <1>4, <1>5 DEF Linked
  <2>4. CASE l = k
    <3>1. at[l] = "connecting" /\ ~Linked(l) /\ sig[l] = 0 /\ ~Requested(l)
      BY <1>7, <2>1, <2>4 DEF LinkInv, AskedIsWaiting, RequestedOnce
    <3>2. NewIsUnknown(l)' /\ AskedIsWaiting(l)'
      BY <1>4, <1>7, <2>2, <3>1 DEF NewIsUnknown, AskedIsWaiting
    <3>3. Answers(id, l)'
      BY <1>4, <1>5, <1>6, <3>1 DEF Answers
    <3>4. \A i \in Slot : Live(i)' /\ conns'[i].link = l => i = id
      BY <1>5, <3>1 DEF Linked
    <3>5. LinkedIsAnswered(l)'
      BY <3>3, <3>4 DEF LinkedIsAnswered
    <3> QED BY <2>2, <3>2, <3>5 DEF LinkInv
  <2>5. CASE l # k
    <3>1. NewIsUnknown(l)' /\ AskedIsWaiting(l)'
      BY <1>4, <1>7, <2>1, <2>2, <2>3, <2>5 DEF LinkInv, NewIsUnknown, AskedIsWaiting
    <3>2. ASSUME NEW i \in Slot, Live(i)', conns'[i].link = l PROVE Answers(i, l)'
      <4>1. i # id /\ Live(i) /\ conns'[i] = conns[i]
        BY <1>4, <1>5, <2>5, <3>2
      <4>2. Answers(i, l)
        BY <2>1, <3>2, <4>1 DEF LinkInv, LinkedIsAnswered
      <4> QED BY <1>4, <4>1, <4>2 DEF Answers
    <3>3. LinkedIsAnswered(l)'
      BY <3>2 DEF LinkedIsAnswered
    <3> QED BY <2>2, <3>1, <3>3 DEF LinkInv
  <2> QED BY <2>4, <2>5
<1>9. AcksGone'
  BY <1>4 DEF AcksGone, InConsume, Idle
<1> QED BY <1>8, <1>9 DEF LinksInv

\* A connection that ends is no longer one its link could hear of.
LEMMA DisconnectLinks ==
  ASSUME Core, ClientsInv, LinksInv, HandleDisconnection
  PROVE  LinksInv'
<1>1. PICK id \in Slot : id = work.id /\ Live(id) /\ conns[id] \in Connection
  BY DisconnectIs DEF Core, Me
<1>2. PICK k \in Link : k = conns[id].link
  BY <1>1, DisconnectIs DEF Core, Me
<1>3. /\ conns' = [conns EXCEPT ![id] = Vacant]
      /\ UNCHANGED sig \/ Signal(k)
      /\ work' = IF work.link = NoLink THEN Idle ELSE [op |-> "connect", link |-> work.link]
      /\ work.op = "disconnect"
      /\ UNCHANGED <<chan, at, cid>>
  BY <1>1, <1>2, DisconnectIs DEF Core, Me, DisconnectWork, linkvars
<1>4. \A i \in Slot : conns'[i] = IF i = id THEN Vacant ELSE conns[i]
  BY <1>3 DEF Core, TypeInv, ConnsOK
<1>5. \A l \in Link : l # k => sig'[l] = sig[l]
  BY <1>3, SignalMore DEF Core, TypeInv
<1>6. \A l \in Link : InHands(l)' => InHands(l)
  BY <1>3 DEF InHands, Idle
<1>7. ASSUME NEW l \in Link PROVE LinkInv(l)'
  <2>1. LinkInv(l)
    BY DEF LinksInv
  <2>2. (Requested(l)' <=> Requested(l)) /\ RequestedOnce(l)'
    BY <1>3, <1>6, <2>1, AskedKept DEF LinkInv
  <2>3. Linked(l)' => Linked(l)
    BY <1>4 DEF Linked, Live
  <2>4. l = k => Linked(l)
    BY <1>1, <1>2 DEF Linked
  <2>5. NewIsUnknown(l)' /\ AskedIsWaiting(l)'
    BY <1>3, <1>5, <1>6, <2>1, <2>2, <2>3, <2>4 DEF LinkInv, NewIsUnknown, AskedIsWaiting
  <2>6. ASSUME NEW i \in Slot, Live(i)', conns'[i].link = l PROVE Answers(i, l)'
    <3>1. i # id /\ Live(i) /\ conns'[i] = conns[i]
      BY <1>4, <2>6 DEF Live
    <3>2. l # k
      BY <1>1, <1>2, <2>6, <3>1, LinksDiffer
    <3>3. Answers(i, l)
      BY <2>1, <2>6, <3>1 DEF LinkInv, LinkedIsAnswered
    <3> QED BY <1>3, <1>5, <3>1, <3>2, <3>3 DEF Answers
  <2>7. LinkedIsAnswered(l)'
    BY <2>6 DEF LinkedIsAnswered
  <2> QED BY <2>2, <2>5, <2>7 DEF LinkInv
<1>8. AcksGone'
  BY <1>3 DEF AcksGone, InConsume, Idle
<1> QED BY <1>7, <1>8 DEF LinksInv

\* What a link does once it has asked: it moves on, and asks no more.
LinkMoves(l, s) ==
  /\ at[l] # "new" /\ at' = [at EXCEPT ![l] = s] /\ s \notin {"new", "connecting"}
  /\ at[l] = "connecting" => sig[l] > 0 \/ Dropped(l)
  /\ \/ UNCHANGED chan
     \/ \E e \in Event : chan' = Append(chan, e) /\ e.event # "Connect"
  /\ \A k \in Link : k # l => sig'[k] = sig[k]
  /\ UNCHANGED cid

\* A link asks, or moves on.
LEMMA LinkStepIs ==
  ASSUME Core, NEW l \in Link, LinkStep(l)
  PROVE  \/ SendConnect(l)
         \/ \E s : LinkMoves(l, s)
<1>1. LinksOK /\ BufsOK
  BY DEF Core, TypeInv
<1>2. \A n : \A k \in Link : k # l => [sig EXCEPT ![l] = n][k] = sig[k]
  BY <1>1 DEF BufsOK
<1>3. at = [at EXCEPT ![l] = at[l]]
  BY <1>1 DEF LinksOK
<1>4. ASSUME NEW event \in {"DeviceData", "Disconnect", "Ready"}, Send(cid[l], event, l)
      PROVE  \E e \in Event : chan' = Append(chan, e) /\ e.event # "Connect"
  <2>1. [id |-> cid[l], event |-> event, link |-> l] \in Event
    BY <1>1 DEF LinksOK, Event
  <2> QED BY <1>4, <2>1 DEF Send
<1>5. CASE Opened(l) \/ ConnAckLost(l)
  <2>1. PICK s \in {"serving", "lost"} : at' = [at EXCEPT ![l] = s]
    BY <1>5 DEF Opened, ConnAckLost
  <2>2. LinkMoves(l, s)
    BY <1>2, <1>5, <2>1 DEF Opened, ConnAckLost, TakeConnAck, LinkMoves
  <2> QED BY <2>2
<1>6. CASE RouterDrop(l)
  <2>1. LinkMoves(l, "gone")
    BY <1>6 DEF RouterDrop, LinkMoves, bufvars
  <2> QED BY <2>1
<1>7. CASE Exchange(l)
  <2>1. PICK s \in {"serving", "waking"} : at' = [at EXCEPT ![l] = s]
    BY <1>7 DEF Exchange
  <2>2. LinkMoves(l, s)
    BY <1>2, <1>7, <2>1 DEF Exchange, LinkMoves
  <2> QED BY <2>2
<1>8. CASE Wake(l)
  <2>1. LinkMoves(l, "serving")
    BY <1>4, <1>8 DEF Wake, LinkMoves, bufvars
  <2> QED BY <2>1
<1>9. CASE NotifyRouter(l)
  <2>1. LinkMoves(l, "serving")
    BY <1>4, <1>9 DEF NotifyRouter, LinkMoves, bufvars
  <2> QED BY <2>1
<1>10. CASE NetError(l)
  <2>1. LinkMoves(l, "gone")
    BY <1>4, <1>10 DEF NetError, LinkMoves, bufvars
  <2> QED BY <2>1
<1>11. ASSUME NEW p, NetRead(l, p) PROVE LinkMoves(l, "notifying")
  BY <1>11 DEF NetRead, LinkMoves
<1> QED BY <1>5, <1>6, <1>7, <1>8, <1>9, <1>10, <1>11 DEF LinkStep, Serve

\* Every step of a link keeps what is known of it.
LEMMA LinkStepLinks ==
  ASSUME Core, LinksInv, NEW l \in Link, LinkStep(l)
  PROVE  LinksInv'
<1>0. ChanOK
  BY DEF Core, TypeInv
<1>1. UNCHANGED <<conns, work>>
  BY LinkStepFrame DEF routervars, slabvars
<1>2. AcksGone'
  BY <1>1 DEF LinksInv, AcksGone, InConsume
<1>3. \A k : InHands(k)' <=> InHands(k)
  BY <1>1 DEF InHands
<1>4. \A k : Linked(k)' <=> Linked(k)
  BY <1>1 DEF Linked, Live
<1>5. CASE SendConnect(l)
  <2>1. /\ at[l] = "new" /\ at' = [at EXCEPT ![l] = "connecting"]
        /\ UNCHANGED <<cid, sig>>
    BY <1>5 DEF SendConnect, bufvars
  <2>2. \A k \in Link : at'[k] = IF k = l THEN "connecting" ELSE at[k]
    BY <2>1 DEF Core, TypeInv, LinksOK
  <2> DEFINE ev == [id |-> 0, event |-> "Connect", link |-> l]
  <2>3. PICK e \in Event : chan' = Append(chan, e) /\ e.event = "Connect" /\ e.link = l
    <3>1. ev \in Event /\ chan' = Append(chan, ev)
      BY <1>5, RouterAssumption DEF SendConnect, Send, Event, Slot
    <3> QED BY <3>1
  <2>4. /\ \A x : x \in Range(chan') <=> x \in Range(chan) \/ x = e
        /\ \A k : /\ RequestedOnce(k) /\ ~(Requested(k)' /\ InHands(k)')
                  /\ e.event = "Connect" /\ e.link = k => ~Requested(k)
                  => RequestedOnce(k)'
    BY <1>0, <2>3, ChanGrows
  <2>5. ASSUME NEW k \in Link PROVE LinkInv(k)'
    <3>1. LinkInv(k)
      BY DEF LinksInv
    <3>2. Requested(k)' <=> Requested(k) \/ k = l
      BY <2>3, <2>4 DEF Requested
    <3>3. k = l => ~Linked(k) /\ ~Requested(k) /\ ~InHands(k) /\ sig[k] = 0
      BY <2>1, <3>1 DEF LinkInv, NewIsUnknown
    <3>4. RequestedOnce(k)'
      <4>1. ~(Requested(k)' /\ InHands(k)')
        BY <1>3, <3>1, <3>2, <3>3 DEF LinkInv, RequestedOnce
      <4>2. e.event = "Connect" /\ e.link = k => ~Requested(k)
        BY <2>3, <3>3
      <4> QED BY <2>4, <3>1, <4>1, <4>2 DEF LinkInv
    <3>5. NewIsUnknown(k)' /\ AskedIsWaiting(k)'
      BY <1>3, <1>4, <2>1, <2>2, <3>1, <3>2, <3>3 DEF LinkInv, NewIsUnknown, AskedIsWaiting
    <3>6. LinkedIsAnswered(k)'
      BY <1>1, <2>1, <2>2, <3>1, <3>3 DEF LinkInv, LinkedIsAnswered, Answers, Linked, Live
    <3> QED BY <3>4, <3>5, <3>6 DEF LinkInv
  <2> QED BY <1>2, <2>5 DEF LinksInv
<1>6. ASSUME NEW s, LinkMoves(l, s) PROVE LinksInv'
  <2>1. \A k \in Link : at'[k] = IF k = l THEN s ELSE at[k]
    BY <1>6 DEF LinkMoves, Core, TypeInv, LinksOK
  <2>2. ASSUME NEW k \in Link, RequestedOnce(k)
        PROVE  (Requested(k)' <=> Requested(k)) /\ RequestedOnce(k)'
    <3>1. CASE UNCHANGED chan
      BY <1>3, <2>2, <3>1, AskedKept
    <3>2. ASSUME NEW e \in Event, chan' = Append(chan, e), e.event # "Connect"
          PROVE  (Requested(k)' <=> Requested(k)) /\ RequestedOnce(k)'
      <4>1. /\ \A x : x \in Range(chan') <=> x \in Range(chan) \/ x = e
            /\ \A i : /\ RequestedOnce(i) /\ ~(Requested(i)' /\ InHands(i)')
                      /\ e.event = "Connect" /\ e.link = i => ~Requested(i)
                      => RequestedOnce(i)'
        BY <1>0, <3>2, ChanGrows
      <4>2. Requested(k)' <=> Requested(k)
        BY <3>2, <4>1 DEF Requested
      <4>3. ~(Requested(k) /\ InHands(k))
        BY <2>2 DEF RequestedOnce
      <4> QED BY <1>3, <2>2, <3>2, <4>1, <4>2, <4>3
    <3> QED BY <1>6, <3>1, <3>2 DEF LinkMoves
  <2>3. ASSUME NEW k \in Link PROVE LinkInv(k)'
    <3>1. LinkInv(k) /\ (Requested(k)' <=> Requested(k)) /\ RequestedOnce(k)'
      BY <2>2 DEF LinksInv, LinkInv
    <3>2. CASE k # l
      <4>1. at'[k] = at[k] /\ sig'[k] = sig[k] /\ cid' = cid
        BY <1>6, <2>1, <3>2 DEF LinkMoves
      <4> QED BY <1>1, <1>3, <1>4, <3>1, <4>1
              DEF LinkInv, NewIsUnknown, AskedIsWaiting, LinkedIsAnswered, Answers, Live
    <3>3. CASE k = l
      <4>1. at'[k] \notin {"new", "connecting"} /\ cid' = cid
        BY <1>6, <2>1, <3>3 DEF LinkMoves
      <4>2. ~Requested(k) /\ ~InHands(k)
        <5>1. CASE at[k] # "connecting" \/ sig[k] > 0
          BY <3>1, <5>1 DEF LinkInv, AskedIsWaiting
        <5>2. CASE Dropped(k)
          <6>1. ~InHands(k)
            BY <5>2 DEF Dropped, InHands
          <6>2. \A i \in 1 .. Len(chan) : ~(chan[i].event = "Connect" /\ chan[i].link = k)
            BY <5>2 DEF Dropped
          <6>3. ~Requested(k)
            BY <1>0, <6>2, InRange DEF Requested, ChanOK
          <6> QED BY <6>1, <6>3
        <5> QED BY <1>6, <3>3, <5>1, <5>2 DEF LinkMoves
      <4>3. ASSUME NEW i \in Slot, Live(i)', conns'[i].link = k PROVE Answers(i, k)'
        <5>1. Live(i) /\ conns[i].link = k
          BY <1>1, <4>3 DEF Live
        <5>2. ~Dropped(k)
          BY <5>1 DEF Dropped, LiveIds
        <5>3. Answers(i, k)
          BY <3>1, <5>1 DEF LinkInv, LinkedIsAnswered
        <5>4. cid[k] = i
          BY <1>6, <3>3, <5>2, <5>3 DEF LinkMoves, Answers
        <5> QED BY <4>1, <5>4 DEF Answers
      <4> QED BY <1>3, <3>1, <4>1, <4>2, <4>3
              DEF LinkInv, NewIsUnknown, AskedIsWaiting, LinkedIsAnswered
    <3> QED BY <3>2, <3>3
  <2> QED BY <1>2, <2>3 DEF LinksInv
<1> QED BY <1>5, <1>6, LinkStepIs

\* Every step keeps what links and connections know of one another.
LEMMA LinksStep ==
  ASSUME Core, ClientsInv, LinksInv, [Next]_vars
  PROVE  LinksInv'
<1>1. CASE NoRoom \/ NewConnection \/ HandleDisconnection
  BY <1>1, NoRoomLinks, ConnectLinks, DisconnectLinks
<1>2. CASE UNCHANGED vars
  <2>1. UNCHANGED <<chan, conns, work, at, cid, sig>>
    BY <1>2 DEF vars, slabvars, linkvars, bufvars
  <2>2. AcksGone'
    BY <2>1 DEF LinksInv, AcksGone, InConsume
  <2>3. ASSUME NEW l \in Link PROVE LinkInv(l)'
    BY <2>1 DEF LinksInv, LinkInv, RequestedOnce, NewIsUnknown, AskedIsWaiting, LinkedIsAnswered,
                Answers, Linked, InHands, Requested, Live
  <2> QED BY <2>2, <2>3 DEF LinksInv
<1>3. CASE \E l \in Link : LinkStep(l)
  BY <1>3, LinkStepLinks
<1>4. CASE EventsAre /\ SameLinks
  BY <1>4, EventsLinks
<1>5. CASE PacketsAre /\ SameLinks
  BY <1>5, PacketsLinks
<1>6. CASE ConsumesAre /\ SameLinks
  <2>1. EventStep => EventsAre
    BY DEF EventsAre
  <2> QED BY <1>6, <2>1, EventsLinks, BeginLinks, EndLinks, ForwardLinks DEF ConsumesAre
<1> QED BY <1>1, <1>2, <1>3, <1>4, <1>5, <1>6, StepKeepsLinks DEF LinksAre

\* At the start no link has asked.
LEMMA LinksInit ==
  ASSUME Init
  PROVE  LinksInv
<1>1. chan = <<>> /\ work = Idle
  BY DEF Init
<1>2. \A id \in Slot : ~Live(id)
  BY DEF Init, Live
<1>3. \A l \in Link : at[l] = "new" /\ sig[l] = 0
  BY DEF Init
<1>4. \A l : ~Requested(l) /\ ~InHands(l) /\ ~Linked(l)
  BY <1>1, <1>2 DEF Requested, InHands, Linked, Range, Idle
<1>5. \A l : RequestedOnce(l)
  BY <1>1, <1>4 DEF RequestedOnce
<1>6. AcksGone
  BY <1>1 DEF AcksGone, InConsume, Idle
<1> QED BY <1>2, <1>3, <1>4, <1>5, <1>6
        DEF LinksInv, LinkInv, NewIsUnknown, AskedIsWaiting, LinkedIsAnswered

------------------------------------------------------------------------------
\* A connection is served by its link, or its Disconnect is on its way or
\* being handled.
Ending(id) ==
  \/ \E e \in Range(chan) : e.event = "Disconnect" /\ e.link = conns[id].link /\ e.id = id
  \/ work.op = "disconnect" /\ work.id = id
Kept(id) == at[conns[id].link] \in {"connecting", "lost"} \cup Serving \/ Ending(id)
AllKept == \A id \in Slot : Live(id) => Kept(id)

\* A step of the router that leaves the links where they are keeps it, when a
\* Disconnect that is taken is the next thing handled.
LEMMA KeptBySteady ==
  ASSUME AllKept, SameLinks, UNCHANGED at,
         work.op = "disconnect" => UNCHANGED work,
         \A e \in Range(chan) : e.event = "Disconnect" /\ Live(e.id) =>
           e \in Range(chan') \/ (work'.op = "disconnect" /\ work'.id = e.id)
  PROVE  AllKept'
BY DEF AllKept, Kept, Ending, SameLinks

\* A Disconnect that is taken, of a live connection, is handled next.
LEMMA KeptOnEvents ==
  ASSUME Core, AllKept, SameLinks, EventsAre
  PROVE  AllKept'
<1>0. ChanOK
  BY DEF Core, TypeInv
<1>1. CASE EventStep
  <2>1. work.op # "disconnect" /\ UNCHANGED at
    BY <1>1 DEF EventStep, linkvars, Idle
  <2>2. CASE UNCHANGED <<chan, work>>
    BY <2>1, <2>2, KeptBySteady
  <2>3. CASE EventTaken
    <3>1. chan # <<>> /\ chan' = Tail(chan)
      BY <2>3 DEF EventTaken
    <3>2. PICK h : h = Head(chan)
      OBVIOUS
    <3>3. \A e : e \in Range(chan) <=> e = h \/ e \in Range(chan')
      BY <1>0, <3>1, <3>2, ChanTail
    <3>4. h.event = "Disconnect" /\ Live(h.id) => work'.op = "disconnect" /\ work'.id = h.id
      BY <2>3, <3>2 DEF EventTaken
    <3> QED BY <2>1, <3>3, <3>4, KeptBySteady
  <2> QED BY <1>1, <2>2, <2>3 DEF EventStep
<1>2. ASSUME NEW id, NEW c, ReadyStep(id, c) PROVE AllKept'
  <2>1. /\ chan # <<>> /\ chan' = Tail(chan) /\ Head(chan).event = "Ready"
        /\ work.op # "disconnect" /\ UNCHANGED at
    BY <1>2 DEF ReadyStep, linkvars, Idle
  <2>2. \A e : e \in Range(chan) <=> e = Head(chan) \/ e \in Range(chan')
    BY <1>0, <2>1, ChanTail
  <2> QED BY <2>1, <2>2, KeptBySteady
<1> QED BY <1>1, <1>2 DEF EventsAre

\* A link that fails sends the Disconnect of its own connection: it has been
\* told that id; a link the router dropped has no connection left.
LEMMA KeptOnLink ==
  ASSUME Core, ClientsInv, LinksInv, AllKept, NEW l \in Link, LinkStep(l)
  PROVE  AllKept'
<1>0. ChanOK
  BY DEF Core, TypeInv
<1>1. UNCHANGED <<conns, work>>
  BY LinkStepFrame DEF routervars, slabvars
<1>2. \A id \in Slot : Live(id)' <=> Live(id)
  BY <1>1 DEF Live
<1>3. \A id \in Slot : Live(id) => conns[id].link \in Link
  BY LiveIs DEF Core, TypeInv, Connection
<1>4. at \in [Link -> {"new", "connecting", "serving", "notifying", "waking", "gone", "lost"}]
  BY DEF Core, TypeInv, LinksOK
<1>5. /\ \A k \in Link : k # l => at'[k] = at[k]
      /\ \E s : at' = [at EXCEPT ![l] = s]
      /\ UNCHANGED chan \/ \E e \in Event : chan' = Append(chan, e)
  <2>1. CASE SendConnect(l)
    <3> DEFINE ev == [id |-> 0, event |-> "Connect", link |-> l]
    <3>1. ev \in Event /\ chan' = Append(chan, ev)
      BY <2>1, RouterAssumption DEF SendConnect, Send, Event, Slot
    <3>2. at' = [at EXCEPT ![l] = "connecting"]
      BY <2>1 DEF SendConnect
    <3> QED BY <1>4, <3>1, <3>2
  <2>2. ASSUME NEW s, LinkMoves(l, s)
        PROVE  at' = [at EXCEPT ![l] = s] /\ (UNCHANGED chan \/ \E e \in Event : chan' = Append(chan, e))
    BY <2>2 DEF LinkMoves
  <2> QED BY <1>4, <2>1, <2>2, LinkStepIs
<1>6. Range(chan) \subseteq Range(chan')
  BY <1>0, <1>5, ChanGrows
<1>7. \A id \in Slot : Ending(id) => Ending(id)'
  BY <1>1, <1>6 DEF Ending
<1>8. at'[l] = "gone" => (\A id \in Slot : Live(id) /\ conns[id].link = l => Ending(id)')
  <2>1. SUFFICES ASSUME at'[l] = "gone", NEW id \in Slot, Live(id), conns[id].link = l
        PROVE  Ending(id)'
    OBVIOUS
  <2>2. CASE at[l] = "gone"
    BY <1>7, <2>1, <2>2 DEF AllKept, Kept, Serving
  <2>3. CASE at[l] # "gone"
    <3>1. RouterDrop(l) \/ NetError(l)
      BY <1>4, <2>1, <2>3 DEF LinkStep, Serve, SendConnect, ConnAckLost, Opened, Exchange, Wake,
                              NotifyRouter, NetRead
    <3>2. ~RouterDrop(l)
      BY <2>1 DEF RouterDrop, Dropped, LiveIds
    <3>3. at[l] # "connecting" /\ Send(cid[l], "Disconnect", l)
      BY <3>1, <3>2 DEF NetError
    <3>4. Answers(id, l)
      BY <2>1 DEF LinksInv, LinkInv, LinkedIsAnswered
    <3>5. cid[l] = id
      BY <3>3, <3>4 DEF Answers
    <3> DEFINE ev == [id |-> cid[l], event |-> "Disconnect", link |-> l]
    <3>6. ev \in Event /\ chan' = Append(chan, ev)
      BY <3>3, <3>5 DEF Send, Event
    <3>7. ev \in Range(chan')
      BY <1>0, <3>6, AppendIs DEF ChanOK
    <3>8. ev.event = "Disconnect" /\ ev.link = conns'[id].link /\ ev.id = id
      BY <1>1, <2>1, <3>5
    <3> QED BY <3>7, <3>8 DEF Ending
  <2> QED BY <2>2, <2>3
<1>9. at'[l] # "gone" => at'[l] \in {"connecting", "lost"} \cup Serving
  BY <1>4 DEF LinkStep, Serve, SendConnect, ConnAckLost, Opened, RouterDrop, NetError, Exchange, Wake,
              NotifyRouter, NetRead, Serving
<1>10. ASSUME NEW id \in Slot, Live(id)' PROVE Kept(id)'
  <2>1. Live(id) /\ Kept(id) /\ conns'[id].link = conns[id].link
    BY <1>1, <1>2, <1>10 DEF AllKept
  <2>2. CASE conns[id].link = l
    BY <1>8, <1>9, <2>1, <2>2 DEF Kept
  <2>3. CASE conns[id].link # l
    BY <1>3, <1>5, <1>7, <2>1, <2>3 DEF Kept
  <2> QED BY <2>2, <2>3
<1> QED BY <1>10 DEF AllKept

\* Every step leaves every connection its link, or an end to come.
LEMMA KeptStep ==
  ASSUME Core, ClientsInv, LinksInv, AllKept, [Next]_vars
  PROVE  AllKept'
<1>1. CASE \E l \in Link : LinkStep(l)
  BY <1>1, KeptOnLink
<1>2. CASE UNCHANGED vars /\ SameLinks
  BY <1>2, KeptBySteady DEF vars, linkvars
<1>3. CASE EventsAre /\ SameLinks
  BY <1>3, KeptOnEvents
<1>4. CASE PacketsAre /\ SameLinks
  <2>1. ASSUME NEW id, NEW c, PacketStep(id, c) PROVE AllKept'
    BY <1>4, <2>1, KeptBySteady DEF PacketStep, Onward, linkvars
  <2>2. CASE PayloadEnd
    BY <1>4, <2>2, KeptBySteady DEF PayloadEnd, linkvars
  <2> QED BY <1>4, <2>1, <2>2
          DEF PacketsAre, PlainStep, PublishStep, SubscribeStep, UnsubscribeStep, NotifyStep
<1>5. CASE ConsumesAre /\ SameLinks
  <2>1. CASE EventStep
    BY <1>5, <2>1, KeptOnEvents DEF EventsAre
  <2>2. ASSUME NEW id, NEW c, BeginStep(id, c) PROVE AllKept'
    BY <1>5, <2>2, KeptBySteady DEF BeginStep, Idle
  <2>3. ASSUME NEW c, EndStep(c) PROVE AllKept'
    BY <1>5, <2>3, KeptBySteady DEF EndStep, InConsume, linkvars
  <2>4. ASSUME NEW q, NEW n, NEW moved, NEW conn, NEW pushed, ForwardStep(q, n, moved, conn, pushed)
        PROVE  AllKept'
    <3>1. UNCHANGED <<chan, at>> /\ work.op # "disconnect"
      BY <2>4 DEF ForwardStep, Forwarding, InConsume, linkvars
    <3> QED BY <1>5, <3>1, KeptBySteady
  <2> QED BY <1>5, <2>1, <2>2, <2>3, <2>4 DEF ConsumesAre
<1>6. CASE NoRoom
  <2>1. UNCHANGED <<chan, conns, at>> /\ work.op = "connect"
    BY <1>6 DEF NoRoom, slabvars, linkvars
  <2>2. SameLinks
    BY <2>1 DEF SameLinks, Live
  <2> QED BY <2>1, <2>2, KeptBySteady
<1>7. CASE NewConnection
  <2>1. PICK id \in Slot : id = Head(vacant) /\ ~Live(id)
    BY <1>7, RoomIsVacant DEF NewConnection, Core
  <2>2. PICK d : d = conns'[id]
    OBVIOUS
  <2>3. PICK l \in Link : l = work.link
    BY <1>7, NewConnectionIs DEF NewConnection, Core
  <2>4. /\ d \in Connection /\ conns' = [conns EXCEPT ![id] = d] /\ d.link = l
        /\ work.op = "connect" /\ UNCHANGED <<chan, at>>
    BY <1>7, <2>1, <2>2, <2>3, NewConnectionIs DEF NewConnection, Core, linkvars
  <2>5. /\ \A i \in Slot : conns'[i] = IF i = id THEN d ELSE conns[i]
        /\ \A i \in Slot : Live(i)' <=> i = id \/ Live(i)
    BY <2>4 DEF Core, TypeInv, ConnsOK, Live, Connection, Vacant
  <2>6. at[l] = "connecting"
    BY <2>3, <2>4 DEF LinksInv, LinkInv, AskedIsWaiting, InHands
  <2>7. ASSUME NEW i \in Slot, Live(i)' PROVE Kept(i)'
    <3>1. CASE i = id
      BY <2>4, <2>5, <2>6, <3>1 DEF Kept
    <3>2. CASE i # id
      BY <2>4, <2>5, <2>7, <3>2 DEF AllKept, Kept, Ending
    <3> QED BY <3>1, <3>2
  <2> QED BY <2>7 DEF AllKept
<1>8. CASE HandleDisconnection
  <2>1. PICK id \in Slot : id = work.id /\ Live(id)
    BY <1>8, DisconnectIs DEF Core
  <2>2. conns' = [conns EXCEPT ![id] = Vacant] /\ UNCHANGED <<chan, at>>
    BY <1>8, <2>1, DisconnectIs DEF Core, HandleDisconnection, linkvars
  <2>3. \A i \in Slot : conns'[i] = IF i = id THEN Vacant ELSE conns[i]
    BY <2>2 DEF Core, TypeInv, ConnsOK
  <2> QED BY <2>1, <2>2, <2>3 DEF AllKept, Kept, Ending, Live
<1> QED BY <1>1, <1>2, <1>3, <1>4, <1>5, <1>6, <1>7, <1>8, StepKeepsLinks DEF LinksAre

\* No connection outlives its link unnoticed, however the breaks of links,
\* takeovers and the ends of connections fall together.
THEOREM ConnectionsAreKept == Spec => []ConnectionsHaveLinks
<1>1. Init => AllKept
  BY DEF Init, AllKept, Live
<1>2. AllKept => ConnectionsHaveLinks
  BY DEF AllKept, Kept, Ending, ConnectionsHaveLinks, Doomed, LiveIds
<1> QED BY <1>1, <1>2, LinksInit, LinksStep, KeptStep, ClientsInit, ClientsStep, CoreHolds, PTL DEF Spec

------------------------------------------------------------------------------
\* What a Busy connection is woken by: while its link waits for the CONNACK,
\* an Unschedule behind that, with a signal for each; later an Unschedule and
\* a signal, or a Ready that is to be sent or is in the channel.
Unscheduled(s) == "Unschedule" \in Range(s)
ReadyComes(id) == \E e \in Range(chan) : e.event = "Ready" /\ e.id = id
Roused(id) ==
  LET l == conns[id].link IN
  conns[id].status = "Busy" =>
    /\ at[l] = "connecting" => obuf[l] # <<>> /\ Unscheduled(Tail(obuf[l])) /\ sig[l] > 1
    /\ at[l] \in Serving => \/ Unscheduled(obuf[l]) /\ sig[l] > 0
                            \/ at[l] = "waking"
                            \/ ReadyComes(id)
AllRoused == \A id \in Slot : Live(id) => Roused(id)

\* What lies behind the head of a buffer still does when more is pushed.
LEMMA TailGrows ==
  ASSUME NEW S, NEW s \in Seq(S), NEW t \in Seq(S), NEW x
  PROVE  /\ x \in Range(s) => x \in Range(s \o t)
         /\ s # <<>> => s \o t # <<>>
         /\ s # <<>> /\ x \in Range(Tail(s)) => x \in Range(Tail(s \o t))
         /\ s # <<>> /\ x \in Range(t) => x \in Range(Tail(s \o t))
<1>1. \A y : y \in Range(s \o t) <=> y \in Range(s) \/ y \in Range(t)
  BY JoinIs
<1>2. s # <<>> => s \o t # <<>> /\ Tail(s \o t) = Tail(s) \o t
  <2>1. SUFFICES ASSUME s # <<>> PROVE s \o t # <<>> /\ Tail(s \o t) = Tail(s) \o t
    OBVIOUS
  <2> DEFINE n == Len(s)
             m == Len(t)
             u == s \o t
             v == Tail(s)
  <2>2. n \in Nat \ {0} /\ m \in Nat
    BY <2>1
  <2>3. /\ u \in Seq(S) /\ Len(u) = n + m
        /\ \A i \in 1 .. n : u[i] = s[i]
        /\ \A i \in 1 .. m : u[n + i] = t[i]
    BY ConcatProperties, <2>2
  <2>4. u # <<>>
    BY <2>2, <2>3
  <2>5. /\ v \in Seq(S) /\ Len(v) = n - 1
        /\ \A i \in 1 .. n - 1 : v[i] = s[i + 1]
    BY <2>1
  <2> HIDE DEF u, v
  <2>6. /\ Tail(u) \in Seq(S) /\ Len(Tail(u)) = n + m - 1
        /\ \A i \in 1 .. n + m - 1 : Tail(u)[i] = u[i + 1]
    BY <2>2, <2>3, <2>4
  <2>7. /\ v \o t \in Seq(S) /\ Len(v \o t) = n - 1 + m
        /\ \A i \in 1 .. n - 1 : (v \o t)[i] = v[i]
        /\ \A i \in 1 .. m : (v \o t)[n - 1 + i] = t[i]
    <3>1. /\ v \o t \in Seq(S) /\ Len(v \o t) = Len(v) + m
          /\ \A i \in 1 .. Len(v) + m : (v \o t)[i] = IF i <= Len(v) THEN v[i] ELSE t[i - Len(v)]
      BY <2>5, ConcatProperties
    <3>2. \A i \in 1 .. m : n - 1 + i \in 1 .. n - 1 + m /\ ~(n - 1 + i <= n - 1) /\ n - 1 + i - (n - 1) = i
      BY <2>2
    <3>3. \A i \in 1 .. n - 1 : i \in 1 .. n - 1 + m
      BY <2>2
    <3>4. \A i \in 1 .. n - 1 : i <= n - 1
      OBVIOUS
    <3>5. Len(v) = n - 1 /\ Len(v) + m = n - 1 + m
      BY ONLY <2>5
    <3>6. \A i \in 1 .. n - 1 + m : (v \o t)[i] = IF i <= n - 1 THEN v[i] ELSE t[i - (n - 1)]
      BY ONLY <3>1, <3>5
    <3>7. \A i \in 1 .. n - 1 : (v \o t)[i] = v[i]
      BY ONLY <3>3, <3>4, <3>6
    <3>8. \A i \in 1 .. m : (v \o t)[n - 1 + i] = t[i]
      <4> SUFFICES ASSUME NEW i \in 1 .. m PROVE (v \o t)[n - 1 + i] = t[i]
        OBVIOUS
      <4>1. n - 1 + i \in 1 .. n - 1 + m /\ ~(n - 1 + i <= n - 1) /\ n - 1 + i - (n - 1) = i
        BY <3>2
      <4>2. PICK k \in 1 .. n - 1 + m : k = n - 1 + i
        BY ONLY <4>1
      <4>3. ~(k <= n - 1) /\ k - (n - 1) = i
        BY ONLY <4>1, <4>2
      <4>4. (v \o t)[k] = t[k - (n - 1)]
        BY ONLY <3>6, <4>2, <4>3
      <4> QED BY ONLY <4>2, <4>3, <4>4
    <3> QED BY ONLY <3>1, <3>5, <3>7, <3>8
  <2>8. ASSUME NEW i \in 1 .. n + m - 1 PROVE Tail(u)[i] = (v \o t)[i]
    <3>1. CASE i <= n - 1
      BY <2>2, <2>3, <2>5, <2>6, <2>7, <3>1
    <3>2. CASE ~(i <= n - 1)
      <4>1. PICK j \in 1 .. m : i = n - 1 + j /\ i + 1 = n + j
        <5>1. /\ i - (n - 1) \in 1 .. m /\ i = n - 1 + (i - (n - 1))
              /\ i + 1 = n + (i - (n - 1))
          BY <2>2, <3>2
        <5> QED BY <5>1
      <4>2. u[i + 1] = t[j]
        BY <2>3, <4>1
      <4> QED BY <2>6, <2>7, <4>1, <4>2
    <3> QED BY <3>1, <3>2
  <2>9. Tail(u) = v \o t
    <3>1. Tail(u) \in Seq(S) /\ v \o t \in Seq(S) /\ Len(Tail(u)) = Len(v \o t)
          /\ \A i \in 1 .. Len(Tail(u)) : Tail(u)[i] = (v \o t)[i]
      BY <2>2, <2>6, <2>7, <2>8
    <3> QED BY ONLY <3>1, SeqEqual
  <2> QED BY <2>4, <2>9 DEF u, v
<1>3. s # <<>> => Tail(s) \in Seq(S)
  OBVIOUS
<1>4. s # <<>> => \A y : y \in Range(Tail(s) \o t) <=> y \in Range(Tail(s)) \/ y \in Range(t)
  BY <1>3, JoinIs
<1> QED BY <1>1, <1>2, <1>4

\* A step that pushes to the buffer, signals, and takes no Ready of id.
LEMMA RouseKept ==
  ASSUME BufsOK, BufsOK', NEW id \in Slot, Roused(id), NEW l \in Link, l = conns[id].link,
         conns'[id].link = l, conns'[id].status = "Busy" => conns[id].status = "Busy",
         at'[l] = at[l],
         \E t \in Seq(Notification) : obuf'[l] = obuf[l] \o t,
         sig'[l] >= sig[l],
         ReadyComes(id) => ReadyComes(id)'
  PROVE  Roused(id)'
<1>1. PICK t \in Seq(Notification) : obuf'[l] = obuf[l] \o t
  OBVIOUS
<1>2. obuf[l] \in Seq(Notification) /\ sig[l] \in Nat /\ sig'[l] \in Nat
  BY RouterAssumption DEF BufsOK
<1>3. SUFFICES ASSUME conns[id].status = "Busy"
      PROVE  /\ at[l] = "connecting" => obuf'[l] # <<>> /\ Unscheduled(Tail(obuf'[l])) /\ sig'[l] > 1
             /\ at[l] \in Serving => \/ Unscheduled(obuf'[l]) /\ sig'[l] > 0
                                     \/ at[l] = "waking"
                                     \/ ReadyComes(id)'
  BY DEF Roused, Unscheduled
<1>4. /\ at[l] = "connecting" => obuf[l] # <<>> /\ Unscheduled(Tail(obuf[l])) /\ sig[l] > 1
      /\ at[l] \in Serving => \/ Unscheduled(obuf[l]) /\ sig[l] > 0
                              \/ at[l] = "waking"
                              \/ ReadyComes(id)
  BY <1>3 DEF Roused
<1>5. /\ sig[l] > 1 => sig'[l] > 1
      /\ sig[l] > 0 => sig'[l] > 0
  BY <1>2
<1>6. /\ Unscheduled(obuf[l]) => Unscheduled(obuf'[l])
      /\ obuf[l] # <<>> => obuf'[l] # <<>>
      /\ obuf[l] # <<>> /\ Unscheduled(Tail(obuf[l])) => Unscheduled(Tail(obuf'[l]))
  BY <1>1, <1>2, TailGrows DEF Unscheduled
<1> QED BY <1>4, <1>5, <1>6

\* Nothing moves but the channel.
LEMMA RouseStays ==
  ASSUME BufsOK, NEW id \in Slot, Roused(id), conns[id].link \in Link,
         conns'[id].link = conns[id].link,
         conns'[id].status = "Busy" => conns[id].status = "Busy",
         at'[conns[id].link] = at[conns[id].link],
         obuf'[conns[id].link] = obuf[conns[id].link],
         sig'[conns[id].link] = sig[conns[id].link],
         ReadyComes(id) => ReadyComes(id)'
  PROVE  Roused(id)'
BY DEF Roused

\* Pushing one more behind what was pushed.
LEMMA AppendJoin ==
  ASSUME NEW s \in Seq(Notification), NEW t \in Seq(Notification), NEW e \in Notification
  PROVE  Append(s \o t, e) = s \o Append(t, e)
<1>1. <<e>> \in Seq(Notification) /\ s \o t \in Seq(Notification)
  OBVIOUS
<1>2. Append(t, e) = t \o <<e>> /\ Append(s \o t, e) = (s \o t) \o <<e>>
  BY <1>1, AppendIsConcat
<1>3. (s \o t) \o <<e>> = s \o (t \o <<e>>)
  BY <1>1, ConcatAssociative
<1> QED BY <1>2, <1>3

\* A Ready that is taken ends the pause of its connection.
LEMMA EventsRoused ==
  ASSUME Core, AllRoused, SameLinks, EventsAre
  PROVE  AllRoused'
<1>0. ChanOK /\ BufsOK /\ \A i \in Slot : Live(i) => conns[i].link \in Link
  BY LiveIs DEF Core, TypeInv, Connection
<1>1. CASE EventStep
  <2>1. UNCHANGED <<conns, at, obuf, sig>>
    BY <1>1 DEF EventStep, slabvars, linkvars
  <2>2. \A i \in Slot : Live(i) /\ ReadyComes(i) => ReadyComes(i)'
    <3>1. CASE UNCHANGED chan
      BY <3>1 DEF ReadyComes
    <3>2. CASE EventTaken
      <4>1. chan # <<>> /\ chan' = Tail(chan)
        BY <3>2 DEF EventTaken
      <4>2. PICK h : h = Head(chan)
        OBVIOUS
      <4>3. \A e : e \in Range(chan) <=> e = h \/ e \in Range(chan')
        BY <1>0, <4>1, <4>2, ChanTail
      <4>4. h.event = "Ready" => ~Live(h.id)
        BY <3>2, <4>2 DEF EventTaken
      <4> QED BY <4>3, <4>4 DEF ReadyComes
    <3> QED BY <1>1, <3>1, <3>2 DEF EventStep
  <2> QED BY <1>0, <2>1, <2>2, RouseStays DEF AllRoused, SameLinks
<1>2. ASSUME NEW id, NEW c, ReadyStep(id, c) PROVE AllRoused'
  <2>1. /\ id \in Slot /\ conns' = [conns EXCEPT ![id] = c] /\ c.status = "Ready"
        /\ chan # <<>> /\ chan' = Tail(chan) /\ id = Head(chan).id
        /\ UNCHANGED <<at, obuf, sig>>
    BY <1>2 DEF ReadyStep, linkvars, bufvars
  <2>2. \A i \in Slot : conns'[i] = IF i = id THEN c ELSE conns[i]
    BY <2>1 DEF Core, TypeInv, ConnsOK
  <2>3. \A e : e \in Range(chan) <=> e = Head(chan) \/ e \in Range(chan')
    BY <1>0, <2>1, ChanTail
  <2>4. \A i \in Slot : i # id /\ ReadyComes(i) => ReadyComes(i)'
    BY <2>1, <2>3 DEF ReadyComes
  <2>5. ASSUME NEW i \in Slot, Live(i)' PROVE Roused(i)'
    <3>1. Live(i) /\ Roused(i) /\ conns'[i].link = conns[i].link
      BY <2>5 DEF AllRoused, SameLinks
    <3>2. CASE i = id
      BY <2>1, <2>2, <3>2 DEF Roused
    <3>3. CASE i # id
      BY <1>0, <2>1, <2>2, <2>4, <3>1, <3>3, RouseStays
    <3> QED BY <3>2, <3>3
  <2> QED BY <2>5 DEF AllRoused
<1> QED BY <1>1, <1>2 DEF EventsAre

\* Packets pause no connection as Busy.
LEMMA PacketsRoused ==
  ASSUME Core, AllRoused, SameLinks, PacketsAre
  PROVE  AllRoused'
<1>0. BufsOK /\ \A i \in Slot : Live(i) => conns[i].link \in Link
  BY LiveIs DEF Core, TypeInv, Connection
<1>1. ASSUME NEW id, NEW c, PacketStep(id, c) PROVE AllRoused'
  <2>1. /\ id \in Slot /\ conns' = [conns EXCEPT ![id] = c]
        /\ c.status = conns[id].status \/ c.status = "Ready"
        /\ UNCHANGED <<chan, at, obuf, sig>>
    BY <1>1 DEF PacketStep, Becomes, Queued, linkvars, bufvars
  <2>2. \A i \in Slot : conns'[i] = IF i = id THEN c ELSE conns[i]
    BY <2>1 DEF Core, TypeInv, ConnsOK
  <2>3. \A i \in Slot : ReadyComes(i) => ReadyComes(i)'
    BY <2>1 DEF ReadyComes
  <2>4. \A i \in Slot : conns'[i].status = "Busy" => conns[i].status = "Busy"
    BY <2>1, <2>2
  <2> QED BY <1>0, <2>1, <2>3, <2>4, RouseStays DEF AllRoused, SameLinks
<1>2. CASE PayloadEnd
  <2>1. UNCHANGED <<chan, conns, at, obuf, sig>>
    BY <1>2 DEF PayloadEnd, slabvars, linkvars, bufvars
  <2>2. \A i \in Slot : ReadyComes(i) => ReadyComes(i)'
    BY <2>1 DEF ReadyComes
  <2> QED BY <1>0, <2>1, <2>2, RouseStays DEF AllRoused, SameLinks
<1> QED BY <1>1, <1>2
        DEF PacketsAre, PlainStep, PublishStep, SubscribeStep, UnsubscribeStep, NotifyStep

\* One connection is pushed to; what is not pushed to is as it was.
LEMMA PushRouses ==
  ASSUME Core, ClientsInv, AllRoused, SameLinks, BufsOK',
         NEW id \in Slot, Live(id), NEW k \in Link, k = conns[id].link,
         NEW c \in Connection, conns' = [conns EXCEPT ![id] = c],
         NEW t \in Seq(Notification), obuf' = [obuf EXCEPT ![k] = @ \o t],
         Signal(k) \/ UNCHANGED sig, UNCHANGED <<chan, at>>,
         c.status = "Busy" => conns[id].status = "Busy"
  PROVE  AllRoused'
<1>0. BufsOK /\ \A i \in Slot : Live(i) => conns[i].link \in Link
  BY LiveIs DEF Core, TypeInv, Connection
<1>1. \A i \in Slot : conns'[i] = IF i = id THEN c ELSE conns[i]
  BY DEF Core, TypeInv, ConnsOK
<1>2. /\ \A l \in Link : l # k => sig'[l] = sig[l] /\ obuf'[l] = obuf[l]
      /\ sig'[k] >= sig[k] /\ obuf'[k] = obuf[k] \o t
  <2>1. /\ \A l \in Link : l # k => sig'[l] = sig[l]
        /\ sig'[k] >= sig[k]
    BY <1>0, SignalMore
  <2> QED BY <1>0, <2>1 DEF BufsOK
<1>3. \A i \in Slot : ReadyComes(i) => ReadyComes(i)'
  BY DEF ReadyComes
<1>4. ASSUME NEW i \in Slot, Live(i)' PROVE Roused(i)'
  <2>1. Live(i) /\ Roused(i) /\ conns'[i].link = conns[i].link
    BY <1>4 DEF AllRoused, SameLinks
  <2>2. CASE i = id
    <3>1. conns'[i].status = "Busy" => conns[i].status = "Busy"
      BY <1>1, <2>2
    <3>2. at'[k] = at[k] /\ k = conns[i].link /\ conns'[i].link = k
      BY <2>1, <2>2
    <3>3. \E u \in Seq(Notification) : obuf'[k] = obuf[k] \o u
      BY <1>2
    <3> QED BY <1>0, <1>2, <1>3, <2>1, <3>1, <3>2, <3>3, RouseKept
  <2>3. CASE i # id
    <3>1. conns[i].link # k
      BY <2>1, <2>3, LinksDiffer
    <3> QED BY <1>0, <1>1, <1>2, <1>3, <2>1, <2>3, <3>1, RouseStays
  <2> QED BY <2>2, <2>3
<1> QED BY <1>4 DEF AllRoused

\* A buffer that fills gets an Unschedule and a signal, behind the CONNACK and
\* its signal when the link has not taken these.
LEMMA ConsumesRoused ==
  ASSUME Core, Core', ClientsInv, LinksInv, AllRoused, SameLinks, ConsumesAre
  PROVE  AllRoused'
<1>0. BufsOK /\ BufsOK' /\ \A i \in Slot : Live(i) => conns[i].link \in Link
  BY LiveIs DEF Core, TypeInv, Connection
<1>1. CASE EventStep
  BY <1>1, EventsRoused DEF EventsAre
<1>2. ASSUME NEW id, NEW c, BeginStep(id, c) PROVE AllRoused'
  <2>1. PICK i \in Slot, k \in Link : i = id /\ k = conns[i].link /\ Live(i)
    BY <1>0, <1>2 DEF BeginStep
  <2>2. /\ c \in Connection /\ conns' = [conns EXCEPT ![i] = c]
        /\ c.status = conns[i].status /\ UNCHANGED <<chan, at>>
        /\ Signal(k) \/ UNCHANGED sig
        /\ IF conns[i].acks = <<>> THEN UNCHANGED obuf
           ELSE obuf' = [obuf EXCEPT ![k] = @ \o conns[i].acks]
    BY <1>2, <2>1 DEF BeginStep
  <2>3. conns[i].acks \in Seq(Notification)
    <3>1. conns[i].acks \in Seq({"ConnAck", "DeviceAck"})
      BY <2>1, LiveIs DEF Core, TypeInv, Connection
    <3>2. {"ConnAck", "DeviceAck"} \subseteq Notification
      BY DEF Notification
    <3> QED BY <3>1, <3>2
  <2>4. PICK t \in Seq(Notification) : obuf' = [obuf EXCEPT ![k] = @ \o t]
    <3>1. CASE conns[i].acks = <<>>
      <4>1. obuf' = obuf /\ obuf \in [Link -> Seq(Notification)]
        BY <1>0, <2>2, <3>1 DEF BufsOK
      <4>2. obuf[k] \in Seq(Notification)
        BY <4>1
      <4>3. obuf[k] \o <<>> = obuf[k]
        BY <4>2, ConcatEmptySeq
      <4>4. obuf' = [obuf EXCEPT ![k] = @ \o <<>>] /\ <<>> \in Seq(Notification)
        BY <4>1, <4>3
      <4> QED BY <4>4
    <3>2. CASE conns[i].acks # <<>>
      BY <2>2, <2>3, <3>2
    <3> QED BY <3>1, <3>2
  <2> QED BY <1>0, <2>1, <2>2, <2>4, PushRouses
<1>3. ASSUME NEW c, EndStep(c) PROVE AllRoused'
  <2>1. PICK id \in Slot : id = work.id
    BY <1>3 DEF EndStep
  <2>2. /\ conns' = [conns EXCEPT ![id] = c]
        /\ c.status = "Busy" => conns[id].status = "Busy"
        /\ UNCHANGED <<chan, at, obuf, sig>>
    BY <1>3, <2>1 DEF EndStep, Me, linkvars, bufvars
  <2>3. \A i \in Slot : conns'[i] = IF i = id THEN c ELSE conns[i]
    BY <2>2 DEF Core, TypeInv, ConnsOK
  <2>4. \A i \in Slot : ReadyComes(i) => ReadyComes(i)'
    BY <2>2 DEF ReadyComes
  <2>5. \A i \in Slot : conns'[i].status = "Busy" => conns[i].status = "Busy"
    BY <2>2, <2>3
  <2> QED BY <1>0, <2>2, <2>4, <2>5, RouseStays DEF AllRoused, SameLinks
<1>4. ASSUME NEW q, NEW n, NEW moved, NEW conn, NEW pushed, ForwardStep(q, n, moved, conn, pushed)
      PROVE  AllRoused'
  <2>1. PICK id \in Slot, k \in Link : id = work.id /\ k = conns[id].link /\ Live(id)
    BY <1>4, ForwardOn DEF Me
  <2>2. /\ Signal(k) \/ UNCHANGED sig
        /\ UNCHANGED <<chan, at, cid>> /\ InConsume
        /\ n \in Nat /\ pushed \in Seq(Notification) /\ Len(pushed) = n
    BY <1>4, <2>1, ForwardOn DEF Me
  <2>3. PICK c \in Connection :
          /\ conns' = [conns EXCEPT ![id] = c]
          /\ c.acks = conns[id].acks /\ c.link = k
          /\ \/ c.status = conns[id].status /\ obuf' = [obuf EXCEPT ![k] = @ \o pushed]
             \/ c.status = "Busy" /\ n > 0 /\ Signal(k)
                /\ obuf' = [obuf EXCEPT ![k] = Append(@ \o pushed, "Unschedule")]
    BY <1>4, <2>1, ForwardOn DEF Me
  <2>4. CASE c.status = conns[id].status /\ obuf' = [obuf EXCEPT ![k] = @ \o pushed]
    BY <1>0, <2>1, <2>2, <2>3, <2>4, PushRouses
  <2>5. CASE c.status = "Busy" /\ n > 0 /\ Signal(k)
             /\ obuf' = [obuf EXCEPT ![k] = Append(@ \o pushed, "Unschedule")]
    <3> DEFINE t == Append(pushed, "Unschedule")
    <3>1. t \in Seq(Notification) /\ "Unschedule" \in Range(t)
      <4>1. "Unschedule" \in Notification
        BY DEF Notification
      <4> QED BY <2>2, <4>1, AppendIs
    <3>2. obuf[k] \in Seq(Notification)
      BY <1>0 DEF BufsOK
    <3>3. Append(obuf[k] \o pushed, "Unschedule") = obuf[k] \o t
      <4>1. "Unschedule" \in Notification
        BY DEF Notification
      <4>2. PICK s : s = obuf[k]
        OBVIOUS
      <4>3. PICK e \in Notification : e = "Unschedule"
        BY <4>1
      <4>4. s \in Seq(Notification)
        BY <3>2, <4>2
      <4>5. Append(s \o pushed, e) = s \o Append(pushed, e)
        <5>1. s \in Seq(Notification) /\ pushed \in Seq(Notification) /\ e \in Notification
          BY <2>2, <4>3, <4>4
        <5> QED BY ONLY <5>1, AppendJoin
      <4> QED BY <4>2, <4>3, <4>5
    <3>4. /\ \A l \in Link : l # k => sig'[l] = sig[l] /\ obuf'[l] = obuf[l]
          /\ obuf'[k] = obuf[k] \o t
      <4>1. \A l \in Link : l # k => sig'[l] = sig[l]
        BY <1>0, <2>5, SignalIs
      <4> QED BY <1>0, <2>5, <3>3, <4>1 DEF BufsOK
    <3> HIDE DEF t
    <3>5. \A i \in Slot : conns'[i] = IF i = id THEN c ELSE conns[i]
      BY <2>3 DEF Core, TypeInv, ConnsOK
    <3>6. \A i \in Slot : ReadyComes(i) => ReadyComes(i)'
      BY <2>2 DEF ReadyComes
    <3>7. Roused(id)'
      <4>1. sig'[k] > 0 /\ (sig[k] > 0 => sig'[k] > 1)
        BY <1>0, <2>5, SignalIs
      <4>2. Unscheduled(obuf'[k])
        BY <3>1, <3>2, <3>4, JoinIs DEF Unscheduled
      <4>3. ASSUME at[k] = "connecting"
            PROVE  obuf'[k] # <<>> /\ Unscheduled(Tail(obuf'[k])) /\ sig'[k] > 1
        <5>1. Answers(id, k)
          BY <2>1 DEF LinksInv, LinkInv, LinkedIsAnswered
        <5>2. "ConnAck" \notin Range(conns[id].acks)
          BY <2>1, <2>2 DEF LinksInv, AcksGone, Range
        <5>3. sig[k] > 0 /\ obuf[k] # <<>>
          BY <1>0, <4>3, <5>1, <5>2 DEF Answers, BufsOK
        <5>4. obuf'[k] # <<>> /\ Unscheduled(Tail(obuf'[k]))
          BY <3>1, <3>2, <3>4, <5>3, TailGrows DEF Unscheduled
        <5> QED BY <4>1, <5>3, <5>4
      <4>4. conns'[id].link = k /\ at'[k] = at[k]
        BY <2>2, <2>3, <3>5
      <4> QED BY <4>1, <4>2, <4>3, <4>4 DEF Roused, Unscheduled
    <3>8. ASSUME NEW i \in Slot, Live(i)' PROVE Roused(i)'
      <4>1. Live(i) /\ Roused(i) /\ conns'[i].link = conns[i].link
        BY <3>8 DEF AllRoused, SameLinks
      <4>2. CASE i # id
        <5>1. conns[i].link # k
          BY <2>1, <4>1, <4>2, LinksDiffer
        <5> QED BY <1>0, <2>2, <3>4, <3>5, <3>6, <4>1, <4>2, <5>1, RouseStays
      <4> QED BY <3>7, <4>2
    <3> QED BY <3>8 DEF AllRoused
  <2> QED BY <2>3, <2>4, <2>5
<1> QED BY <1>1, <1>2, <1>3, <1>4 DEF ConsumesAre

\* A new connection is Ready, and the end of one reaches no other link.
LEMMA SlabsRoused ==
  ASSUME Core, ClientsInv, AllRoused, NoRoom \/ NewConnection \/ HandleDisconnection
  PROVE  AllRoused'
<1>0. BufsOK /\ \A i \in Slot : Live(i) => conns[i].link \in Link
  BY LiveIs DEF Core, TypeInv, Connection
<1>1. CASE NoRoom
  <2>1. UNCHANGED <<chan, conns, at, obuf, sig>>
    BY <1>1 DEF NoRoom, slabvars, linkvars, bufvars
  <2>2. \A i \in Slot : ReadyComes(i) => ReadyComes(i)'
    BY <2>1 DEF ReadyComes
  <2> QED BY <1>0, <2>1, <2>2, RouseStays DEF AllRoused, Live
<1>2. CASE NewConnection
  <2>1. PICK id \in Slot : id = Head(vacant) /\ ~Live(id)
    BY <1>2, RoomIsVacant DEF NewConnection, Core
  <2>2. PICK d : d = conns'[id]
    OBVIOUS
  <2>3. /\ d \in Connection /\ conns' = [conns EXCEPT ![id] = d] /\ d.status = "Ready"
        /\ UNCHANGED <<chan, at, obuf, sig>>
    BY <1>2, <2>1, <2>2, NewConnectionIs DEF NewConnection, Core, linkvars, bufvars
  <2>4. /\ \A i \in Slot : conns'[i] = IF i = id THEN d ELSE conns[i]
        /\ \A i \in Slot : Live(i)' <=> i = id \/ Live(i)
    BY <2>3 DEF Core, TypeInv, ConnsOK, Live, Connection, Vacant
  <2>5. \A i \in Slot : ReadyComes(i) => ReadyComes(i)'
    BY <2>3 DEF ReadyComes
  <2>6. ASSUME NEW i \in Slot, Live(i)' PROVE Roused(i)'
    <3>1. CASE i = id
      BY <2>3, <2>4, <3>1 DEF Roused
    <3>2. CASE i # id
      <4>1. Live(i) /\ Roused(i) /\ conns'[i] = conns[i]
        BY <2>4, <2>6, <3>2 DEF AllRoused
      <4> QED BY <1>0, <2>3, <2>5, <4>1, RouseStays
    <3> QED BY <3>1, <3>2
  <2> QED BY <2>6 DEF AllRoused
<1>3. CASE HandleDisconnection
  <2>1. PICK id \in Slot : id = work.id /\ Live(id) /\ conns[id] \in Connection
    BY <1>3, DisconnectIs DEF Core, Me
  <2>2. PICK k \in Link : k = conns[id].link
    BY <1>3, <2>1, DisconnectIs DEF Core, Me
  <2>3. /\ conns' = [conns EXCEPT ![id] = Vacant]
        /\ UNCHANGED <<obuf, sig>> \/ (obuf' = [obuf EXCEPT ![k] = Append(@, "Disconnect")] /\ Signal(k))
        /\ UNCHANGED <<chan, at>>
    <3>1. conns' = [conns EXCEPT ![id] = Vacant]
      BY <1>3, <2>1, DisconnectIs DEF Core
    <3>2. UNCHANGED <<chan, at>>
      BY <1>3 DEF HandleDisconnection, linkvars
    <3>3. UNCHANGED <<obuf, sig>> \/ (obuf' = [obuf EXCEPT ![k] = Append(@, "Disconnect")] /\ Signal(k))
      BY <1>3, <2>1, <2>2 DEF HandleDisconnection, Me
    <3> QED BY <3>1, <3>2, <3>3
  <2>4. \A i \in Slot : conns'[i] = IF i = id THEN Vacant ELSE conns[i]
    BY <2>3 DEF Core, TypeInv, ConnsOK
  <2>5. \A l \in Link : l # k => sig'[l] = sig[l] /\ obuf'[l] = obuf[l]
    <3>1. \A l \in Link : l # k => sig'[l] = sig[l]
      BY <1>0, <2>3, SignalMore
    <3> QED BY <1>0, <2>3, <3>1 DEF BufsOK
  <2>6. \A i \in Slot : ReadyComes(i) => ReadyComes(i)'
    BY <2>3 DEF ReadyComes
  <2>7. ASSUME NEW i \in Slot, Live(i)' PROVE Roused(i)'
    <3>1. i # id /\ Live(i) /\ Roused(i) /\ conns'[i] = conns[i]
      BY <2>4, <2>7 DEF AllRoused, Live
    <3>2. conns[i].link # k
      BY <2>1, <2>2, <3>1, LinksDiffer
    <3> QED BY <1>0, <2>3, <2>5, <2>6, <3>1, <3>2, RouseStays
  <2> QED BY <2>7 DEF AllRoused
<1> QED BY <1>1, <1>2, <1>3

\* A link that takes an Unschedule is about to send Ready, and sends it with
\* the id of its connection.
LEMMA LinkRoused ==
  ASSUME Core, LinksInv, AllRoused, NEW l \in Link, LinkStep(l)
  PROVE  AllRoused'
<1>0. /\ ChanOK /\ BufsOK /\ \A i \in Slot : Live(i) => conns[i].link \in Link
      /\ at \in [Link -> {"new", "connecting", "serving", "notifying", "waking", "gone", "lost"}]
      /\ obuf \in [Link -> Seq(Notification)] /\ sig \in [Link -> Nat]
  BY LiveIs, RouterAssumption DEF Core, TypeInv, Connection, LinksOK, BufsOK
<1>1. UNCHANGED conns /\ \A i \in Slot : Live(i)' <=> Live(i)
  BY LinkStepFrame DEF routervars, slabvars, Live
<1>2. /\ \A k \in Link : k # l => at'[k] = at[k] /\ sig'[k] = sig[k] /\ obuf'[k] = obuf[k]
      /\ UNCHANGED chan \/ \E e \in Event : chan' = Append(chan, e)
  <2>1. UNCHANGED chan \/ \E e \in Event : chan' = Append(chan, e)
    <3>1. CASE SendConnect(l)
      <4> DEFINE ev == [id |-> 0, event |-> "Connect", link |-> l]
      <4>1. ev \in Event /\ chan' = Append(chan, ev)
        BY <3>1, RouterAssumption DEF SendConnect, Send, Event, Slot
      <4> QED BY <4>1
    <3> QED BY <3>1, LinkStepIs DEF LinkMoves
  <2>2. \A k \in Link : k # l => at'[k] = at[k] /\ sig'[k] = sig[k] /\ obuf'[k] = obuf[k]
    BY <1>0 DEF LinkStep, Serve, SendConnect, ConnAckLost, Opened, TakeConnAck, RouterDrop, NetError,
                Exchange, Wake, NotifyRouter, NetRead, bufvars
  <2> QED BY <2>1, <2>2
<1>3. Range(chan) \subseteq Range(chan')
  BY <1>0, <1>2, ChanGrows
<1>4. \A i \in Slot : ReadyComes(i) => ReadyComes(i)'
  BY <1>3 DEF ReadyComes
<1>5. ASSUME NEW i \in Slot, Live(i), Roused(i), conns[i].link = l PROVE Roused(i)'
  <2>1. Answers(i, l) /\ Linked(l)
    BY <1>5 DEF LinksInv, LinkInv, LinkedIsAnswered, Linked
  <2>2. SUFFICES ASSUME conns[i].status = "Busy"
        PROVE  /\ at'[l] = "connecting" => obuf'[l] # <<>> /\ Unscheduled(Tail(obuf'[l])) /\ sig'[l] > 1
               /\ at'[l] \in Serving => \/ Unscheduled(obuf'[l]) /\ sig'[l] > 0
                                        \/ at'[l] = "waking"
                                        \/ ReadyComes(i)'
    BY <1>1, <1>5 DEF Roused, Unscheduled
  <2>3. /\ at[l] = "connecting" => obuf[l] # <<>> /\ Unscheduled(Tail(obuf[l])) /\ sig[l] > 1
        /\ at[l] \in Serving => \/ Unscheduled(obuf[l]) /\ sig[l] > 0
                                \/ at[l] = "waking"
                                \/ ReadyComes(i)
    BY <1>5, <2>2 DEF Roused
  <2>4. CASE SendConnect(l)
    BY <2>1, <2>4 DEF SendConnect, LinksInv, LinkInv, NewIsUnknown
  <2>5. CASE Opened(l)
    <3>1. /\ at[l] = "connecting" /\ at'[l] = "serving"
          /\ sig'[l] = sig[l] - 1 /\ obuf'[l] = Tail(obuf[l])
      BY <1>0, <2>5 DEF Opened, TakeConnAck
    <3>2. sig[l] > 1 /\ Unscheduled(obuf'[l]) /\ sig[l] \in Nat
      BY <1>0, <2>3, <3>1
    <3> QED BY <3>1, <3>2
  <2>6. CASE ConnAckLost(l) \/ RouterDrop(l) \/ NetError(l)
    <3>1. at'[l] \in {"lost", "gone"}
      BY <1>0, <2>6 DEF ConnAckLost, RouterDrop, NetError
    <3> QED BY <3>1 DEF Serving
  <2>7. CASE Exchange(l)
    <3>1. UNCHANGED chan /\ at[l] = "serving"
          /\ at'[l] = IF Contains(obuf[l], "Unschedule") THEN "waking" ELSE "serving"
      BY <1>0, <2>7 DEF Exchange
    <3>2. CASE Contains(obuf[l], "Unschedule")
      BY <3>1, <3>2
    <3>3. CASE ~Contains(obuf[l], "Unschedule")
      <4>1. obuf[l] \in Seq(Notification)
        BY <1>0
      <4>2. ~Unscheduled(obuf[l])
        BY <3>3, <4>1, InRange DEF Contains, Unscheduled
      <4> QED BY <1>4, <2>3, <3>1, <3>3, <4>2 DEF Serving
    <3> QED BY <3>2, <3>3
  <2>8. CASE Wake(l)
    <3>1. /\ at[l] = "waking" /\ at'[l] = "serving" /\ Send(cid[l], "Ready", l)
      BY <1>0, <2>8 DEF Wake
    <3>2. cid[l] = i
      BY <2>1, <3>1 DEF Answers
    <3> DEFINE ev == [id |-> cid[l], event |-> "Ready", link |-> l]
    <3>3. ev \in Event /\ chan' = Append(chan, ev)
      BY <3>1, <3>2 DEF Send, Event
    <3>4. ev \in Range(chan') /\ ev.event = "Ready" /\ ev.id = i
      BY <1>0, <3>2, <3>3, AppendIs DEF ChanOK
    <3>5. ReadyComes(i)'
      BY <3>4 DEF ReadyComes
    <3> QED BY <3>1, <3>5
  <2>9. CASE NotifyRouter(l) \/ \E p \in Sends[l] : NetRead(l, p)
    <3>1. /\ at[l] \in {"serving", "notifying"} /\ at'[l] \in {"serving", "notifying"}
          /\ UNCHANGED <<obuf, sig>>
      BY <1>0, <2>9 DEF NotifyRouter, NetRead, bufvars
    <3> QED BY <1>4, <2>3, <3>1 DEF Serving
  <2> QED BY <2>4, <2>5, <2>6, <2>7, <2>8, <2>9 DEF LinkStep, Serve
<1>6. ASSUME NEW i \in Slot, Live(i)' PROVE Roused(i)'
  <2>1. Live(i) /\ Roused(i)
    BY <1>1, <1>6 DEF AllRoused
  <2>2. CASE conns[i].link # l
    BY <1>0, <1>1, <1>2, <1>4, <2>1, <2>2, RouseStays
  <2> QED BY <1>5, <2>1, <2>2
<1> QED BY <1>6 DEF AllRoused

\* Every step leaves a Busy connection what wakes it.
LEMMA RousedStep ==
  ASSUME Core, Core', ClientsInv, LinksInv, AllRoused, [Next]_vars
  PROVE  AllRoused'
<1>1. CASE UNCHANGED vars
  <2>1. UNCHANGED <<chan, conns, at, obuf, sig>>
    BY <1>1 DEF vars, slabvars, linkvars, bufvars
  <2> QED BY <2>1 DEF AllRoused, Roused, ReadyComes, Unscheduled, Live
<1> QED BY <1>1, StepKeepsLinks, SlabsRoused, LinkRoused, EventsRoused, ConsumesRoused, PacketsRoused
        DEF LinksAre

\* What wakes a Busy connection, in the words of the property.
LEMMA RousedIsWoken ==
  ASSUME Core, AllRoused
  PROVE  BusyWillWake
<1>1. SUFFICES ASSUME NEW id \in Slot, Live(id), conns[id].status = "Busy",
                      at[conns[id].link] \in {"connecting"} \cup Serving
      PROVE  \/ Contains(obuf[conns[id].link], "Unschedule") /\ sig[conns[id].link] > 0
             \/ at[conns[id].link] = "waking"
             \/ \E e \in Range(chan) : e.event = "Ready" /\ e.id = id
  BY DEF BusyWillWake, LiveIds
<1>2. PICK l \in Link : l = conns[id].link
  BY <1>1, LiveIs DEF Core, TypeInv, Connection
<1>3. obuf[l] \in Seq(Notification) /\ sig[l] \in Nat
  BY RouterAssumption DEF Core, TypeInv, BufsOK
<1>4. /\ at[l] = "connecting" => obuf[l] # <<>> /\ Unscheduled(Tail(obuf[l])) /\ sig[l] > 1
      /\ at[l] \in Serving => \/ Unscheduled(obuf[l]) /\ sig[l] > 0
                              \/ at[l] = "waking"
                              \/ ReadyComes(id)
  BY <1>1, <1>2 DEF AllRoused, Roused
<1>5. obuf[l] # <<>> /\ Unscheduled(Tail(obuf[l])) => Unscheduled(obuf[l])
  BY <1>3, TailKept DEF Unscheduled
<1>6. Unscheduled(obuf[l]) => Contains(obuf[l], "Unschedule")
  BY <1>3, InRange DEF Contains, Unscheduled
<1> QED BY <1>1, <1>2, <1>3, <1>4, <1>5, <1>6 DEF ReadyComes

\* A connection paused as Busy is never left without what ends the pause.
THEOREM BusyIsWoken == Spec => []BusyWillWake
<1>1. Init => AllRoused
  BY DEF Init, AllRoused, Live
<1> QED BY <1>1, RousedIsWoken, RousedStep, LinksInit, LinksStep, ClientsInit, ClientsStep,
           CoreInit, CoreStep, PTL DEF Spec
==============================================================================
