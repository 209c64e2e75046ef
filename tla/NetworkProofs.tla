--------------------------- MODULE NetworkProofs ---------------------------
(***************************************************************************)
(* Theorems about Network, for any batches, sizes, capacities and chunks.   *)
(*                                                                          *)
(* 1. Framing: what read_mut makes of the bytes of a whole frame, and of    *)
(*    a part of one, which asks for no more than the frame still lacks.     *)
(* 2. The two loops, turn by turn: the write buffer after a batch (Whole),  *)
(*    and readv, which reads packet by packet from the middle of it.        *)
(* 3. Awake, which holds whatever the bytes are: counters, the event that   *)
(*    announces the packets in the link's buffer, and the timer.            *)
(* 4. Framed, the inductive invariant: what was read and what is in flight  *)
(*    are the bytes of one batch from the frame the reader is at.  From it  *)
(*    what the runs check, given that what the codecs write they read back.   *)
(* 5. That law for message traffic, over both codecs: from the digits of a  *)
(*    length and the flags of a byte to the packets of each shape.          *)
(***************************************************************************)
EXTENDS Network, SequenceTheorems, FiniteSetTheorems, NaturalsInduction, TLAPS

Byte == 0 .. 255

LEMMA ByteInt == \A b \in Byte : b \in Int
BY DEF Byte

\* The law of the codecs the stream rests on: what they write they read back.  It
\* is FramesReadBack in the initial states, which have either codec.
CodecsAgree == \A pr \in DOMAIN Batches : FramesOf(pr)

------------------------------------------------------------------------------
\* Framing.  The length in the header of s ends at its n-th byte.
HeaderAt(s, n) ==
  /\ n \in 1 .. 4 /\ n + 1 <= Len(s)
  /\ s[n + 1] < 128 /\ \A i \in 2 .. n : s[i] >= 128

\* The header such bytes have.
HeaderOf(s, n) == [byte1 |-> s[1], hlen |-> n + 1, rlen |-> LengthOf(SubSeq(s, 2, n + 1))]

LEMMA LengthRead ==
  ASSUME NEW s \in Seq(Byte), NEW n \in 1 .. 4, n <= Len(s), s[n] < 128,
         \A i \in 1 .. n - 1 : s[i] >= 128
  PROVE  ReadLength(s) = Got(LengthOf(SubSeq(s, 1, n)), SubSeq(s, n + 1, Len(s)))
<1> DEFINE ends == {i \in 1 .. Len(s) : i <= 4 /\ s[i] < 128}
<1>0. \A i \in 1 .. Len(s) : s[i] \in Int
  BY ByteInt
<1>1. n \in ends /\ \A i \in ends : n <= i
  BY <1>0
<1>2. Min(ends) = n
  <2>1. ends \subseteq Int
    OBVIOUS
  <2> HIDE DEF ends
  <2>2. Min(ends) \in ends /\ \A i \in ends : Min(ends) <= i
    BY <1>1 DEF Min
  <2>3. n \in ends /\ Min(ends) <= n /\ n <= Min(ends)
    BY <1>1, <2>2
  <2>4. Min(ends) \in Int
    BY <2>1, <2>2
  <2>5. n \in Int
    BY <2>1, <2>3
  <2> QED BY ONLY <2>3, <2>4, <2>5
<1>3. ends # {}
  BY <1>1
<1> QED BY <1>2, <1>3 DEF ReadLength

LEMMA LengthCut ==
  ASSUME NEW s \in Seq(Byte), Len(s) < 4, \A i \in 1 .. Len(s) : s[i] >= 128
  PROVE  ReadLength(s) = Short(1)
<1>1. {i \in 1 .. Len(s) : i <= 4 /\ s[i] < 128} = {}
  BY ByteInt
<1>2. ~(Len(s) >= 4)
  OBVIOUS
<1> QED BY <1>1, <1>2 DEF ReadLength

\* A length that can be read has an end.
LEMMA LengthThere ==
  ASSUME NEW s \in Seq(Byte), ReadLength(s).err = "ok"
  PROVE  \E n \in 1 .. 4 : n <= Len(s) /\ s[n] < 128 /\ \A i \in 1 .. n - 1 : s[i] >= 128
<1> DEFINE ends == {i \in 1 .. Len(s) : i <= 4 /\ s[i] < 128}
<1>0. \A i \in 1 .. Len(s) : s[i] \in Int
  BY ByteInt
<1>1. ends # {}
  BY DEF ReadLength, Short, Fail
<1>2. PICK n \in ends : \A i \in ends : n <= i
  <2>1. ends \subseteq 1 .. 4
    OBVIOUS
  <2> HIDE DEF ends
  <2>2. CASE 1 \in ends BY <2>1, <2>2
  <2>3. CASE 1 \notin ends /\ 2 \in ends BY <2>1, <2>3
  <2>4. CASE ends \cap {1, 2} = {} /\ 3 \in ends BY <2>1, <2>4
  <2>5. CASE ends \cap {1, 2, 3} = {}
    <3>1. PICK x \in ends : TRUE
      BY <1>1
    <3>2. \A y \in ends : y = 4
      BY <2>1, <2>5
    <3> QED BY <3>1, <3>2
  <2> QED BY <2>2, <2>3, <2>4, <2>5
<1>3. n \in 1 .. 4 /\ n <= Len(s) /\ s[n] < 128
  OBVIOUS
<1>4. ASSUME NEW i \in 1 .. n - 1 PROVE s[i] >= 128
  <2>1. i \in 1 .. Len(s) /\ i <= 4 /\ i < n
    BY <1>3
  <2>2. i \notin ends
    BY <1>2, <2>1
  <2> QED BY <1>0, <2>1, <2>2
<1> QED BY <1>3, <1>4

LEMMA HeaderRead ==
  ASSUME NEW s \in Seq(Byte), NEW n, HeaderAt(s, n)
  PROVE  ParseFixedHeader(s) = Got(HeaderOf(s, n), SubSeq(s, n + 2, Len(s)))
<1>1. /\ n \in 1 .. 4 /\ n + 1 <= Len(s) /\ s[n + 1] < 128
      /\ \A i \in 2 .. n : s[i] >= 128 /\ Len(s) \in Nat
  BY DEF HeaderAt
<1>2. /\ Tail(s) \in Seq(Byte) /\ Len(Tail(s)) = Len(s) - 1
      /\ \A i \in 1 .. Len(s) - 1 : Tail(s)[i] = s[i + 1]
  BY <1>1
<1>3. n <= Len(Tail(s)) /\ Tail(s)[n] < 128 /\ \A i \in 1 .. n - 1 : Tail(s)[i] >= 128
  <2>1. ASSUME NEW i \in 1 .. n - 1 PROVE Tail(s)[i] >= 128
    <3>1. i + 1 \in 2 .. n /\ i \in 1 .. Len(s) - 1
      BY <1>1
    <3> QED BY <1>1, <1>2, <3>1
  <2> QED BY <1>1, <1>2, <2>1
<1>4. ReadLength(Tail(s)) = Got(LengthOf(SubSeq(Tail(s), 1, n)), SubSeq(Tail(s), n + 1, Len(Tail(s))))
  BY <1>1, <1>2, <1>3, LengthRead
<1>5. SubSeq(Tail(s), 1, n) = SubSeq(s, 2, n + 1)
  BY <1>1, <1>2
<1>6. SubSeq(Tail(s), n + 1, Len(Tail(s))) = SubSeq(s, n + 2, Len(s))
  BY <1>1, <1>2
<1>7. PICK v : v = LengthOf(SubSeq(s, 2, n + 1))
  OBVIOUS
<1>8. PICK rest : rest = SubSeq(s, n + 2, Len(s))
  OBVIOUS
<1>12. Len(s) - Len(rest) = n + 1
  <2>1. CASE n + 2 <= Len(s)
    <3>1. Len(rest) = Len(s) - (n + 2) + 1
      BY <1>1, <1>8, <2>1
    <3> QED BY <1>1, <3>1
  <2>2. CASE n + 1 = Len(s)
    <3>1. Len(rest) = 0
      BY <1>1, <1>8, <2>2
    <3> QED BY <1>1, <2>2, <3>1
  <2> QED BY <1>1, <2>1, <2>2
<1>9. ReadLength(Tail(s)) = [err |-> "ok", val |-> v, rest |-> rest]
  BY <1>4, <1>5, <1>6, <1>7, <1>8 DEF Got
<1>10. ~(Len(s) < 2)
  BY <1>1
<1>11. ParseFixedHeader(s) = Got([byte1 |-> s[1], hlen |-> n + 1, rlen |-> v], rest)
  BY <1>9, <1>10, <1>12 DEF ParseFixedHeader
<1> QED BY <1>7, <1>8, <1>11 DEF HeaderOf

LEMMA HeaderThere ==
  ASSUME NEW s \in Seq(Byte), ParseFixedHeader(s).err = "ok"
  PROVE  \E n : HeaderAt(s, n)
<1>1. Len(s) >= 2
  BY DEF ParseFixedHeader, Short
<1>2. /\ Tail(s) \in Seq(Byte) /\ Len(Tail(s)) = Len(s) - 1
      /\ \A i \in 1 .. Len(s) - 1 : Tail(s)[i] = s[i + 1]
  BY <1>1
<1>3. ReadLength(Tail(s)).err = "ok"
  BY <1>1 DEF ParseFixedHeader
<1>4. PICK n \in 1 .. 4 : /\ n <= Len(Tail(s)) /\ Tail(s)[n] < 128
                          /\ \A i \in 1 .. n - 1 : Tail(s)[i] >= 128
  BY <1>2, <1>3, LengthThere
<1>5. n + 1 <= Len(s) /\ s[n + 1] < 128
  BY <1>2, <1>4
<1>6. ASSUME NEW i \in 2 .. n PROVE s[i] >= 128
  <2>1. i - 1 \in 1 .. n - 1 /\ i - 1 \in 1 .. Len(s) - 1 /\ i - 1 + 1 = i
    BY <1>5
  <2> QED BY <1>2, <1>4, <2>1
<1> QED BY <1>4, <1>5, <1>6 DEF HeaderAt

\* Bytes that stop before their header does.
LEMMA HeaderCut ==
  ASSUME NEW s \in Seq(Byte), NEW f \in Seq(Byte), NEW n, HeaderAt(f, n),
         Len(s) <= n, \A i \in 1 .. Len(s) : s[i] = f[i]
  PROVE  \E need \in 1 .. (n + 1) - Len(s) : ParseFixedHeader(s) = Short(need)
<1>1. n \in 1 .. 4 /\ \A i \in 2 .. n : f[i] >= 128
  BY DEF HeaderAt
<1>2. CASE Len(s) < 2
  <2>1. ParseFixedHeader(s) = Short(2 - Len(s))
    BY <1>2 DEF ParseFixedHeader
  <2> QED BY <1>1, <1>2, <2>1
<1>3. CASE Len(s) >= 2
  <2>1. /\ Tail(s) \in Seq(Byte) /\ Len(Tail(s)) = Len(s) - 1
        /\ \A i \in 1 .. Len(s) - 1 : Tail(s)[i] = s[i + 1]
    BY <1>3
  <2>2. ASSUME NEW i \in 1 .. Len(Tail(s)) PROVE Tail(s)[i] >= 128
    <3>1. i + 1 \in 2 .. n /\ i + 1 \in 1 .. Len(s) /\ i \in 1 .. Len(s) - 1
      BY <1>1, <2>1
    <3> QED BY <1>1, <2>1, <3>1
  <2>3. ReadLength(Tail(s)) = Short(1)
    <3>1. Len(Tail(s)) < 4
      BY <1>1, <2>1
    <3> QED BY <2>1, <2>2, <3>1, LengthCut
  <2>4. ParseFixedHeader(s) = Short(1)
    BY <1>3, <2>3 DEF ParseFixedHeader, Short
  <2> QED BY <1>1, <2>4
<1> QED BY <1>2, <1>3

\* The header is read from the bytes of its own.
LEMMA HeaderSame ==
  ASSUME NEW s \in Seq(Byte), NEW f \in Seq(Byte), NEW n, HeaderAt(f, n),
         n + 1 <= Len(s), \A i \in 1 .. n + 1 : s[i] = f[i]
  PROVE  ParseFixedHeader(s) = Got(HeaderOf(f, n), SubSeq(s, n + 2, Len(s)))
<1>1. /\ n \in 1 .. 4 /\ n + 1 <= Len(f) /\ f[n + 1] < 128
      /\ \A i \in 2 .. n : f[i] >= 128
  BY DEF HeaderAt
<1>2. HeaderAt(s, n)
  <2>1. s[n + 1] < 128
    BY <1>1
  <2>2. ASSUME NEW i \in 2 .. n PROVE s[i] >= 128
    BY <1>1
  <2> QED BY <1>1, <2>1, <2>2 DEF HeaderAt
<1>3. SubSeq(s, 2, n + 1) = SubSeq(f, 2, n + 1)
  BY <1>1
<1>4. s[1] = f[1]
  BY <1>1
<1>5. HeaderOf(s, n) = HeaderOf(f, n)
  BY <1>3, <1>4 DEF HeaderOf
<1> QED BY <1>2, <1>5, HeaderRead

\* What a frame says of itself.
LEMMA FrameHeader ==
  ASSUME NEW pr, NEW p, NEW f, FrameOf(pr, p, f)
  PROVE  \E n, h :
           /\ f \in Seq(Byte) /\ HeaderAt(f, n) /\ h = HeaderOf(f, n)
           /\ h.hlen = n + 1 /\ FrameLength(h) = Len(f) /\ Len(f) >= 2
           /\ h.byte1 \div 16 \in DOMAIN PacketTypes /\ PacketTypes[h.byte1 \div 16] = p.type
           /\ ReadsBack(p, BodyRead(pr, h, p.type, SubSeq(f, h.hlen + 1, Len(f))))
<1>1. f \in Seq(Byte) /\ FrameAgrees(pr, p, f, ParseFixedHeader(f))
  BY DEF FrameOf, Byte
<1>2. PICK n : HeaderAt(f, n)
  BY <1>1, HeaderThere DEF FrameAgrees
<1>3. PICK h : h = HeaderOf(f, n)
  OBVIOUS
<1>4. ParseFixedHeader(f).val = h
  BY <1>1, <1>2, <1>3, HeaderRead DEF Got
<1>5. h.hlen = n + 1
  BY <1>3 DEF HeaderOf
<1>6. Len(f) >= 2
  BY <1>1, <1>2 DEF HeaderAt
<1>7. /\ FrameLength(h) = Len(f)
      /\ h.byte1 \div 16 \in DOMAIN PacketTypes /\ PacketTypes[h.byte1 \div 16] = p.type
      /\ ReadsBack(p, BodyRead(pr, h, p.type, SubSeq(f, h.hlen + 1, Len(f))))
  BY <1>1, <1>4 DEF FrameAgrees
<1> QED BY <1>1, <1>2, <1>3, <1>5, <1>6, <1>7

\* What read_mut makes of a stream that begins with the frame of p: p, or a  *)
\* refusal that ends the link.
WholeRead(p, f, s, r) ==
  /\ r.got.err = "ok" => r.got.val = Seen(p) /\ r.stream = SubSeq(s, Len(f) + 1, Len(s))
  /\ r.got.err # "InsufficientBytes" /\ r.stream \in Seq(Byte)

\* What it makes of a stream that ends before the frame does.
CutRead(f, s, r) ==
  /\ r.stream = s /\ r.got.err # "ok"
  /\ r.got.err = "InsufficientBytes" => r.got.need \in 1 .. Len(f) - Len(s)

\* A body that reads back is refused only where the broker has no use for it.
LEMMA UnpackBody ==
  ASSUME NEW pr, NEW h, NEW type, NEW body, NEW p,
         ReadsBack(p, BodyRead(pr, h, type, body))
  PROVE  LET r == Unpack(pr, h, type, body)
         IN r.err # "InsufficientBytes" /\ (r.err = "ok" => r.val = Seen(p))
<1>1. CASE pr = "v5" /\ type \in {"connack", "unsuback"}
  <2>1. Unpack(pr, h, type, body) = V5!Unpack(h, type, body)
    BY <1>1 DEF Unpack
  <2>2. V5!Unpack(h, type, body) \in {V5!Fail("PayloadRequired"), V5!Fail("unreachable")}
    BY <1>1 DEF V5!Unpack, V5!ReadEmpty
  <2> QED BY <2>1, <2>2 DEF V5!Fail
<1>2. CASE ~(pr = "v5" /\ type \in {"connack", "unsuback"})
  BY <1>2 DEF BodyRead, ReadsBack
<1> QED BY <1>1, <1>2

LEMMA ReadWhole ==
  ASSUME NEW p, NEW f, NEW s \in Seq(Byte), FrameOf(protocol, p, f),
         Len(f) <= Len(s), SubSeq(s, 1, Len(f)) = f
  PROVE  WholeRead(p, f, s, ReadMut(s))
<1>1. PICK n, h :
           /\ f \in Seq(Byte) /\ HeaderAt(f, n) /\ h = HeaderOf(f, n)
           /\ h.hlen = n + 1 /\ FrameLength(h) = Len(f) /\ Len(f) >= 2
           /\ h.byte1 \div 16 \in DOMAIN PacketTypes /\ PacketTypes[h.byte1 \div 16] = p.type
           /\ ReadsBack(p, BodyRead(protocol, h, p.type, SubSeq(f, h.hlen + 1, Len(f))))
  BY FrameHeader
<1>2. n \in 1 .. 4 /\ n + 1 <= Len(f)
  BY <1>1 DEF HeaderAt
<1>3. \A i \in 1 .. Len(f) : s[i] = f[i]
  BY <1>1
<1>4. ParseFixedHeader(s) = Got(h, SubSeq(s, n + 2, Len(s)))
  <2>1. \A i \in 1 .. n + 1 : s[i] = f[i]
    BY <1>1, <1>2, <1>3
  <2>2. n + 1 <= Len(s)
    BY <1>1, <1>2
  <2> QED BY <1>1, <2>1, <2>2, HeaderSame
<1>5. SubSeq(s, h.hlen + 1, Len(f)) = SubSeq(f, h.hlen + 1, Len(f))
  BY <1>1, <1>2, <1>3
<1>6. SubSeq(s, Len(f) + 1, Len(s)) \in Seq(Byte)
  BY <1>1
<1>7. CASE h.rlen > MaxIncomingSize
  <2>1. Check(s, MaxIncomingSize) = Fail("PayloadSizeLimitExceeded")
    BY <1>4, <1>7 DEF Check, Got
  <2>2. ReadMut(s) = [got |-> Fail("PayloadSizeLimitExceeded"), stream |-> s]
    BY <2>1 DEF ReadMut, ReadFramed, Fail
  <2> QED BY <2>2 DEF WholeRead, Fail
<1>8. CASE ~(h.rlen > MaxIncomingSize)
  <2>1. ~(Len(s) < Len(f))
    BY <1>1
  <2>2. Check(s, MaxIncomingSize) = Got(h, SubSeq(s, n + 2, Len(s)))
    BY <1>1, <1>4, <1>8, <2>1 DEF Check, Got
  <2>3. ReadMut(s) = ReadFrame(s, h)
    BY <2>2 DEF ReadMut, ReadFramed, Got
  <2>4. PICK r : r = Unpack(protocol, h, p.type, SubSeq(f, h.hlen + 1, Len(f)))
    OBVIOUS
  <2>5. ReadMut(s) = [got |-> r, stream |-> SubSeq(s, Len(f) + 1, Len(s))]
    BY <1>1, <1>5, <2>3, <2>4 DEF ReadFrame
  <2>6. r.err # "InsufficientBytes" /\ (r.err = "ok" => r.val = Seen(p))
    BY <1>1, <2>4, UnpackBody
  <2> QED BY <1>6, <2>5, <2>6 DEF WholeRead
<1> QED BY <1>7, <1>8

LEMMA ReadCut ==
  ASSUME NEW p, NEW f, NEW s \in Seq(Byte), FrameOf(protocol, p, f),
         Len(s) < Len(f), SubSeq(f, 1, Len(s)) = s
  PROVE  CutRead(f, s, ReadMut(s))
<1>1. PICK n, h :
           /\ f \in Seq(Byte) /\ HeaderAt(f, n) /\ h = HeaderOf(f, n)
           /\ h.hlen = n + 1 /\ FrameLength(h) = Len(f) /\ Len(f) >= 2
  BY FrameHeader
<1>2. n \in 1 .. 4 /\ n + 1 <= Len(f)
  BY <1>1 DEF HeaderAt
<1>3. \A i \in 1 .. Len(s) : s[i] = f[i]
  BY <1>1
<1>4. CASE Len(s) <= n
  <2>1. PICK need \in 1 .. (n + 1) - Len(s) : ParseFixedHeader(s) = Short(need)
    BY <1>1, <1>3, <1>4, HeaderCut
  <2>2. Check(s, MaxIncomingSize) = Short(need)
    BY <2>1 DEF Check, Short
  <2>3. ReadMut(s) = [got |-> Short(need), stream |-> s]
    BY <2>2 DEF ReadMut, ReadFramed, Short
  <2>4. need \in 1 .. Len(f) - Len(s)
    BY <1>1, <1>2
  <2> QED BY <2>3, <2>4 DEF CutRead, Short
<1>5. CASE n + 1 <= Len(s)
  <2>1. \A i \in 1 .. n + 1 : s[i] = f[i]
    BY <1>2, <1>3, <1>5
  <2>2. ParseFixedHeader(s) = Got(h, SubSeq(s, n + 2, Len(s)))
    BY <1>1, <1>5, <2>1, HeaderSame
  <2>3. CASE h.rlen > MaxIncomingSize
    <3>1. Check(s, MaxIncomingSize) = Fail("PayloadSizeLimitExceeded")
      BY <2>2, <2>3 DEF Check, Got
    <3>2. ReadMut(s) = [got |-> Fail("PayloadSizeLimitExceeded"), stream |-> s]
      BY <3>1 DEF ReadMut, ReadFramed, Fail
    <3> QED BY <3>2 DEF CutRead, Fail
  <2>4. CASE ~(h.rlen > MaxIncomingSize)
    <3>1. PICK need : need = Len(f) - Len(s)
      OBVIOUS
    <3>2. Check(s, MaxIncomingSize) = Short(need)
      BY <1>1, <2>2, <2>4, <3>1 DEF Check, Got
    <3>3. ReadMut(s) = [got |-> Short(need), stream |-> s]
      BY <3>2 DEF ReadMut, ReadFramed, Short
    <3>4. need \in 1 .. Len(f) - Len(s)
      BY <1>1, <3>1
    <3> QED BY <3>3, <3>4 DEF CutRead, Short
  <2> QED BY <2>3, <2>4
<1> QED BY <1>2, <1>4, <1>5

LEMMA ReadNone == ReadMut(<<>>) = [got |-> Short(2), stream |-> <<>>]
<1>1. ParseFixedHeader(<<>>) = Short(2)
  <2>1. Len(<<>>) = 0
    OBVIOUS
  <2>2. 0 < 2 /\ 2 - 0 = 2
    OBVIOUS
  <2> QED BY <2>1, <2>2 DEF ParseFixedHeader
<1> QED BY <1>1 DEF ReadMut, ReadFramed, Check, Short

------------------------------------------------------------------------------
\* Induction, for the two loops.
Before == {p \in Nat \X Nat : p[1] < p[2]}

LEMMA Induct ==
  ASSUME NEW m \in Nat, NEW P, 0 \in P, \A i \in 0 .. m - 1 : i \in P => i + 1 \in P
  PROVE  \A i \in 0 .. m : i \in P
<1> DEFINE Bad == {i \in 0 .. m : i \notin P}
<1>1. SUFFICES ASSUME Bad # {} PROVE FALSE
  OBVIOUS
<1>2. IsWellFoundedOn(Before, Nat)
  <2>1. OpToRel(<, Nat) = Before
    BY DEF OpToRel, Before
  <2> QED BY <2>1, NatLessThanWellFounded
<1>3. Bad \subseteq Nat
  OBVIOUS
<1>4. PICK x \in Bad : \A y \in Bad : ~ (<<y, x>> \in Before)
  BY <1>1, <1>2, <1>3, WFMin
<1>5. x \in 0 .. m /\ x \notin P /\ x - 1 \in 0 .. m - 1
  OBVIOUS
<1>6. x - 1 \notin Bad
  <2>1. x - 1 \in Nat /\ x \in Nat /\ x - 1 < x
    BY <1>5
  <2>2. <<x - 1, x>> \in Before
    BY <2>1 DEF Before
  <2> QED BY <1>4, <2>2
<1>7. x - 1 \in P
  BY <1>5, <1>6
<1>8. x - 1 + 1 \in P
  BY <1>5, <1>7
<1> QED BY <1>5, <1>8

------------------------------------------------------------------------------
\* The write buffer.
NoBytes == [err |-> "ok", ends |-> <<>>, bytes |-> <<>>]

\* put is what the loop over the packets does, turn by turn.
PutLoop(put, batch, n) ==
  /\ put = [i \in 0 .. n |-> put[i]]
  /\ put[0] = NoBytes
  /\ \A i \in 1 .. n : put[i] = Put(put[i - 1], batch[i])

LEMMA PutLoopThere ==
  ASSUME NEW batch, NEW n \in Nat
  PROVE  \E put : PutLoop(put, batch, n)
<1> DEFINE P == {k \in 0 .. n : \E put : PutLoop(put, batch, k)}
<1>1. 0 \in P
  <2> DEFINE g == [i \in 0 .. 0 |-> NoBytes]
  <2>1. PutLoop(g, batch, 0)
    BY DEF PutLoop
  <2> QED BY <2>1
<1>2. ASSUME NEW k \in 0 .. n - 1, k \in P PROVE k + 1 \in P
  <2>1. PICK f : PutLoop(f, batch, k)
    BY <1>2
  <2>2. PICK x : x = Put(f[k], batch[k + 1])
    OBVIOUS
  <2> DEFINE g == [i \in 0 .. k + 1 |-> IF i <= k THEN f[i] ELSE x]
  <2>3. g = [i \in 0 .. k + 1 |-> g[i]]
    OBVIOUS
  <2>4. g[0] = NoBytes
    BY <2>1 DEF PutLoop
  <2>5. ASSUME NEW i \in 1 .. k + 1 PROVE g[i] = Put(g[i - 1], batch[i])
    <3>1. CASE i <= k
      <4>1. i \in 1 .. k /\ i - 1 \in 0 .. k
        BY <3>1
      <4>2. f[i] = Put(f[i - 1], batch[i])
        BY <2>1, <4>1 DEF PutLoop
      <4>3. g[i] = f[i] /\ g[i - 1] = f[i - 1]
        BY <3>1, <4>1
      <4> QED BY <4>2, <4>3
    <3>2. CASE i = k + 1
      <4>1. /\ k + 1 \in 0 .. k + 1 /\ ~(k + 1 <= k)
            /\ k \in 0 .. k + 1 /\ k <= k /\ (k + 1) - 1 = k
        OBVIOUS
      <4>2. g[k + 1] = x /\ g[k] = f[k]
        BY ONLY <4>1
      <4> HIDE DEF g
      <4> QED BY ONLY <2>2, <3>2, <4>1, <4>2
    <3> QED BY <3>1, <3>2
  <2> HIDE DEF g
  <2>6. PutLoop(g, batch, k + 1)
    BY <2>3, <2>4, <2>5 DEF PutLoop
  <2> QED BY <2>6
<1> HIDE DEF P
<1>3. n \in P
  BY <1>1, <1>2, Induct
<1> QED BY <1>3 DEF P

LEMMA PutAllIs ==
  ASSUME NEW batch, Len(batch) \in Nat
  PROVE  \E put : PutLoop(put, batch, Len(batch)) /\ PutAll(batch) = put[Len(batch)]
<1>1. PICK n \in Nat : n = Len(batch)
  OBVIOUS
<1> DEFINE Is(f) == f = [i \in 0 .. n |-> IF i = 0 THEN NoBytes ELSE Put(f[i - 1], batch[i])]
<1>2. PICK f : PutLoop(f, batch, n)
  BY PutLoopThere
<1>3. Is(f)
  <2> DEFINE g == [i \in 0 .. n |-> IF i = 0 THEN NoBytes ELSE Put(f[i - 1], batch[i])]
  <2>1. f = [i \in 0 .. n |-> f[i]]
    BY <1>2 DEF PutLoop
  <2>2. ASSUME NEW i \in 0 .. n PROVE f[i] = g[i]
    <3>1. CASE i = 0
      BY <1>2, <3>1 DEF PutLoop
    <3>2. CASE i # 0
      <4>1. i \in 1 .. n
        BY <3>2
      <4>2. f[i] = Put(f[i - 1], batch[i])
        BY <1>2, <4>1 DEF PutLoop
      <4> QED BY <3>2, <4>2
    <3> QED BY <3>1, <3>2
  <2>3. g = [i \in 0 .. n |-> g[i]]
    OBVIOUS
  <2> HIDE DEF g
  <2>4. f = g
    BY <2>1, <2>2, <2>3
  <2> QED BY <2>4 DEF g
<1>4. PICK put : put = CHOOSE h : Is(h)
  OBVIOUS
<1>5. Is(put)
  <2> HIDE DEF Is
  <2> QED BY <1>3, <1>4
<1>6. PutAll(batch) = put[n]
  BY <1>1, <1>4 DEF PutAll, NoBytes
<1>7. PutLoop(put, batch, n)
  <2>1. put[0] = NoBytes
    BY <1>5
  <2>2. ASSUME NEW i \in 1 .. n PROVE put[i] = Put(put[i - 1], batch[i])
    <3>1. i \in 0 .. n /\ i # 0
      OBVIOUS
    <3> QED BY <1>5, <3>1
  <2>3. put = [i \in 0 .. n |-> put[i]]
    BY <1>5
  <2> HIDE DEF Is
  <2> QED BY <2>1, <2>2, <2>3 DEF PutLoop
<1> QED BY <1>1, <1>6, <1>7

\* Where the frame of the packet behind the first k begins.
Start(b, k) == IF k = 0 THEN 0 ELSE b.ends[k]

\* The frame of the k-th packet.
FrameIn(b, k) == SubSeq(b.bytes, Start(b, k - 1) + 1, Start(b, k))

\* A buffer with the first j packets of a batch, frame by frame.
Buffered(pr, batch, j, b) ==
  /\ b \in [err : {"ok"}, ends : Seq(Nat), bytes : Seq(Byte)]
  /\ Len(b.ends) = j /\ Start(b, j) = Len(b.bytes)
  /\ \A k \in 1 .. j :
       /\ Start(b, k - 1) \in Nat /\ Start(b, k) \in Nat /\ Start(b, k - 1) < Start(b, k)
       /\ FrameOf(pr, batch[k], FrameIn(b, k))
       /\ Protocol!IsPacket(Seen(batch[k]))

LEMMA TypesOf ==
  ASSUME NEW k \in DOMAIN PacketTypes
  PROVE  PacketTypes[k] \in
           {"connect", "connack", "publish", "puback", "pubrec", "pubrel", "pubcomp",
            "subscribe", "suback", "unsubscribe", "unsuback", "pingreq", "pingresp",
            "disconnect"}
BY DEF PacketTypes

LEMMA FrameNoPatch4 ==
  ASSUME NEW byte1, NEW len, NEW body
  PROVE  "patch" \notin DOMAIN V4!Frame(byte1, len, body)
BY DEF V4!Frame, V4!Fail

LEMMA FrameNoPatch5 ==
  ASSUME NEW byte1, NEW len, NEW body
  PROVE  "patch" \notin DOMAIN V5!Frame(byte1, len, body)
BY DEF V5!Frame, V5!Fail

\* Only the writers of CONNECT patch the buffer.
LEMMA NoPatch ==
  ASSUME NEW pr, NEW p, NEW k \in DOMAIN PacketTypes, PacketTypes[k] = p.type,
         p.type # "connect"
  PROVE  "patch" \notin DOMAIN Write(pr, p)
<1>1. p.type \in {"connack", "publish", "puback", "pubrec", "pubrel", "pubcomp", "subscribe",
                  "suback", "unsubscribe", "unsuback", "pingreq", "pingresp", "disconnect"}
  BY TypesOf
<1>2. "patch" \notin DOMAIN V4!Write(p)
  <2>0. "patch" \notin DOMAIN V4!Unreachable
    BY DEF V4!Unreachable, V4!Fail
  <2>1. CASE p.props # V4!None /\ p.type \notin {"connack", "pingreq", "pingresp"}
    BY <2>0, <2>1 DEF V4!Write
  <2>2. CASE ~(p.props # V4!None /\ p.type \notin {"connack", "pingreq", "pingresp"})
    <3>1. CASE p.type = "connack"
      BY <2>0, <2>2, <3>1, FrameNoPatch4 DEF V4!Write, V4!WriteConnAck
    <3>2. CASE p.type = "publish"
      BY <2>2, <3>2, FrameNoPatch4 DEF V4!Write, V4!WritePublish, V4!Fail
    <3>3. CASE p.type = "puback"
      BY <2>2, <3>3, FrameNoPatch4 DEF V4!Write, V4!WritePubAck, V4!WriteAck
    <3>4. CASE p.type = "pubrec"
      BY <2>2, <3>4, FrameNoPatch4 DEF V4!Write, V4!WritePubRec, V4!WriteAck
    <3>5. CASE p.type = "pubrel"
      BY <2>2, <3>5, FrameNoPatch4 DEF V4!Write, V4!WritePubRel, V4!WriteAck
    <3>6. CASE p.type = "pubcomp"
      BY <2>2, <3>6, FrameNoPatch4 DEF V4!Write, V4!WritePubComp, V4!WriteAck
    <3>7. CASE p.type = "subscribe"
      BY <2>2, <3>7, FrameNoPatch4 DEF V4!Write, V4!WriteSubscribe
    <3>8. CASE p.type = "suback"
      BY <2>2, <3>8, FrameNoPatch4 DEF V4!Write, V4!WriteSubAck
    <3>9. CASE p.type = "unsubscribe"
      BY <2>2, <3>9, FrameNoPatch4 DEF V4!Write, V4!WriteUnsubscribe
    <3>10. CASE p.type = "unsuback"
      BY <2>2, <3>10 DEF V4!Write, V4!WriteUnsubAck
    <3>11. CASE p.type = "disconnect"
      BY <2>2, <3>11 DEF V4!Write, V4!WriteDisconnect
    <3>12. CASE p.type \in {"pingreq", "pingresp"}
      BY <2>2, <3>12 DEF V4!Write, V4!WritePing
    <3> QED BY <1>1, <3>1, <3>2, <3>3, <3>4, <3>5, <3>6, <3>7, <3>8, <3>9, <3>10, <3>11, <3>12
  <2> QED BY <2>1, <2>2
<1>3. "patch" \notin DOMAIN V5!Write(p)
  <2>1. CASE p.type = "connack"
    BY <2>1, FrameNoPatch5 DEF V5!Write, V5!WriteConnAck
  <2>2. CASE p.type = "publish"
    BY <2>2, FrameNoPatch5 DEF V5!Write, V5!WritePublish, V5!Fail
  <2>3. CASE p.type = "puback"
    BY <2>3, FrameNoPatch5 DEF V5!Write, V5!WritePubAck, V5!WriteAck
  <2>4. CASE p.type = "pubrec"
    BY <2>4, FrameNoPatch5 DEF V5!Write, V5!WritePubRec, V5!WriteAck
  <2>5. CASE p.type = "pubrel"
    BY <2>5, FrameNoPatch5 DEF V5!Write, V5!WritePubRel, V5!WriteAck
  <2>6. CASE p.type = "pubcomp"
    BY <2>6, FrameNoPatch5 DEF V5!Write, V5!WritePubComp, V5!WriteAck
  <2>7. CASE p.type = "subscribe"
    BY <2>7, FrameNoPatch5 DEF V5!Write, V5!WriteSubscribe
  <2>8. CASE p.type = "suback"
    BY <2>8, FrameNoPatch5 DEF V5!Write, V5!WriteSubAck
  <2>9. CASE p.type = "unsubscribe"
    BY <2>9, FrameNoPatch5 DEF V5!Write, V5!WriteUnsubscribe
  <2>10. CASE p.type = "unsuback"
    BY <2>10, FrameNoPatch5 DEF V5!Write, V5!WriteUnsubAck
  <2>11. CASE p.type = "disconnect"
    BY <2>11, FrameNoPatch5 DEF V5!Write, V5!WriteDisconnect
  <2>12. CASE p.type \in {"pingreq", "pingresp"}
    BY <2>12 DEF V5!Write, V5!WritePing
  <2> QED BY <1>1, <2>1, <2>2, <2>3, <2>4, <2>5, <2>6, <2>7, <2>8, <2>9, <2>10, <2>11, <2>12
<1> QED BY <1>2, <1>3 DEF Write

\* Frames are not empty: every one begins behind the one before.
LEMMA StartsGrow ==
  ASSUME NEW pr, NEW batch, NEW j \in Nat, NEW b, Buffered(pr, batch, j, b),
         NEW i \in 0 .. j
  PROVE  /\ Start(b, i) \in Nat
         /\ \A k \in i .. j : Start(b, i) + (k - i) <= Start(b, k)
<1>1. \A k \in 1 .. j :
        Start(b, k - 1) \in Nat /\ Start(b, k) \in Nat /\ Start(b, k - 1) < Start(b, k)
  BY DEF Buffered
<1>2. ASSUME NEW k \in 0 .. j PROVE Start(b, k) \in Nat
  <2>1. CASE k = 0
    BY <2>1 DEF Start
  <2>2. CASE k # 0
    <3>1. k \in 1 .. j
      BY <2>2
    <3> QED BY <1>1, <3>1
  <2> QED BY <2>1, <2>2
<1> DEFINE P == {d \in 0 .. j - i : Start(b, i) + d <= Start(b, i + d)}
<1>3. 0 \in P
  <2>1. Start(b, i) \in Nat /\ i + 0 = i
    BY <1>2
  <2> QED BY <2>1
<1>4. ASSUME NEW d \in 0 .. (j - i) - 1, d \in P PROVE d + 1 \in P
  <2>1. i + d + 1 \in 1 .. j /\ (i + d + 1) - 1 = i + d /\ i + d \in 0 .. j
    OBVIOUS
  <2>2. Start(b, i + d) \in Nat /\ Start(b, i + d + 1) \in Nat /\ Start(b, i) \in Nat
    BY <1>2, <2>1
  <2>3. Start(b, i + d) < Start(b, i + d + 1)
    BY <1>1, <2>1
  <2>4. Start(b, i) + d <= Start(b, i + d)
    BY <1>4
  <2>5. i + (d + 1) = i + d + 1
    OBVIOUS
  <2>6. Start(b, i) + (d + 1) <= Start(b, i + (d + 1))
    BY <2>2, <2>3, <2>4, <2>5
  <2> QED BY <2>6
<1> HIDE DEF P
<1>5. \A d \in 0 .. j - i : d \in P
  <2>1. j - i \in Nat
    OBVIOUS
  <2> QED BY <1>3, <1>4, <2>1, Induct
<1>6. ASSUME NEW k \in i .. j PROVE Start(b, i) + (k - i) <= Start(b, k)
  <2>1. k - i \in 0 .. j - i /\ i + (k - i) = k
    OBVIOUS
  <2>2. k - i \in P
    BY <1>5, <2>1
  <2>3. Start(b, i) + (k - i) <= Start(b, i + (k - i))
    BY <2>2 DEF P
  <2> QED BY <2>1, <2>3
<1> QED BY <1>2, <1>6

\* A part of a sequence is the same part of a longer one.
LEMMA SubSeqCat ==
  ASSUME NEW S, NEW s \in Seq(S), NEW t \in Seq(S), NEW x \in Nat, NEW y \in Nat,
         y <= Len(s)
  PROVE  SubSeq(s \o t, x + 1, y) = SubSeq(s, x + 1, y)
OBVIOUS

\* A packet written behind the others leaves their frames alone.
LEMMA PutKeeps ==
  ASSUME CodecsAgree, protocol \in DOMAIN Batches, NEW batch \in Batches[protocol],
         NEW j \in 0 .. Len(batch) - 1, NEW b, Buffered(protocol, batch, j, b),
         Put(b, batch[j + 1]).err = "ok"
  PROVE  Buffered(protocol, batch, j + 1, Put(b, batch[j + 1]))
<1>1. /\ b \in [err : {"ok"}, ends : Seq(Nat), bytes : Seq(Byte)]
      /\ Len(b.ends) = j /\ Start(b, j) = Len(b.bytes)
  BY DEF Buffered
<1>2. batch \in Seq(ToSet(batch)) /\ (j + 1 # 1 => batch[j + 1].type # "connect")
  BY BatchesAssumption
<1>3. PICK p : p = batch[j + 1]
  OBVIOUS
<1>4. PICK w : w = Write(protocol, p)
  OBVIOUS
<1>5. j + 1 \in DOMAIN batch
  BY <1>2
<1>6. Put(b, p) = PutOne(b, w)
  BY <1>1, <1>4 DEF Put
<1>7. w.err = "ok"
  BY <1>1, <1>3, <1>6 DEF PutOne
<1>8. FrameWhole(protocol, p, w)
  BY <1>3, <1>4, <1>5, <1>7 DEF CodecsAgree, FramesOf
<1>9. PICK f : f = Patched(w.bytes, w)
  OBVIOUS
<1>10. w.bytes \in Seq(Byte) /\ FrameOf(protocol, p, f) /\ Protocol!IsPacket(Seen(p))
  BY <1>8, <1>9 DEF FrameWhole, Byte
<1>11. f \in Seq(Byte) /\ Len(f) >= 2 /\ \E k \in DOMAIN PacketTypes : PacketTypes[k] = p.type
  BY <1>10, FrameHeader
<1>12. Len(f) = Len(w.bytes)
  <2>1. DOMAIN f = DOMAIN w.bytes
    BY <1>9 DEF Patched
  <2> QED BY <1>10, <1>11, <2>1
<1>13. Patched(b.bytes \o w.bytes, w) = b.bytes \o f
  <2>1. CASE j = 0
    <3>1. b.bytes = <<>>
      BY <1>1, <2>1 DEF Start
    <3>2. b.bytes \o w.bytes = w.bytes /\ b.bytes \o f = f
      BY <1>10, <1>11, <3>1
    <3> QED BY <1>9, <3>2
  <2>2. CASE j # 0
    <3>1. "patch" \notin DOMAIN w
      BY <1>2, <1>3, <1>4, <1>11, <2>2, NoPatch
    <3> QED BY <1>9, <3>1 DEF Patched
  <2> QED BY <2>1, <2>2
<1>14. PICK c : c = Put(b, p)
  OBVIOUS
<1>15. c = [err |-> "ok", ends |-> Append(b.ends, Len(b.bytes) + Len(f)), bytes |-> b.bytes \o f]
  BY <1>6, <1>7, <1>12, <1>13, <1>14 DEF PutOne
<1>16. PICK E, B, F : E = b.ends /\ B = b.bytes /\ F = f
  OBVIOUS
<1>17. /\ E \in Seq(Nat) /\ B \in Seq(Byte) /\ F \in Seq(Byte) /\ Len(E) = j /\ Len(F) >= 2
       /\ c.err = "ok" /\ c.ends = Append(E, Len(B) + Len(F)) /\ c.bytes = B \o F
  BY <1>1, <1>11, <1>15, <1>16
<1>18. /\ \A k \in 0 .. j : Start(c, k) = Start(b, k)
       /\ Start(c, j + 1) = Len(B) + Len(F) /\ Start(b, j) = Len(B)
  <2>1. ASSUME NEW k \in 0 .. j PROVE Start(c, k) = Start(b, k)
    <3>1. CASE k = 0
      BY <3>1 DEF Start
    <3>2. CASE k # 0
      <4>1. c.ends[k] = E[k]
        BY <1>17, <3>2
      <4> QED BY <1>16, <3>2, <4>1 DEF Start
    <3> QED BY <3>1, <3>2
  <2>2. c.ends[j + 1] = Len(B) + Len(F)
    BY <1>17
  <2>3. j + 1 # 0
    OBVIOUS
  <2> QED BY <1>1, <1>16, <2>1, <2>2, <2>3 DEF Start
<1>19. ASSUME NEW k \in 1 .. j
       PROVE  /\ Start(c, k - 1) \in Nat /\ Start(c, k) \in Nat /\ Start(c, k - 1) < Start(c, k)
              /\ FrameOf(protocol, batch[k], FrameIn(c, k))
              /\ Protocol!IsPacket(Seen(batch[k]))
  <2>1. /\ Start(b, k - 1) \in Nat /\ Start(b, k) \in Nat /\ Start(b, k - 1) < Start(b, k)
        /\ FrameOf(protocol, batch[k], FrameIn(b, k))
        /\ Protocol!IsPacket(Seen(batch[k]))
    BY DEF Buffered
  <2>2. k \in 0 .. j /\ k - 1 \in 0 .. j
    OBVIOUS
  <2>3. Start(c, k - 1) = Start(b, k - 1) /\ Start(c, k) = Start(b, k)
    BY <1>18, <2>2
  <2>4. Start(b, k) <= Len(B)
    <3>1. k \in 0 .. j /\ j \in k .. j /\ j \in Nat
      OBVIOUS
    <3>2. Start(b, k) \in Nat /\ Start(b, k) + (j - k) <= Start(b, j)
      BY <3>1, StartsGrow
    <3>3. Start(b, j) = Len(B) /\ Len(B) \in Nat
      BY <1>17, <1>18
    <3> QED BY <3>1, <3>2, <3>3
  <2>5. PICK x, y : x = Start(b, k - 1) /\ y = Start(b, k)
    OBVIOUS
  <2>6. SubSeq(B \o F, x + 1, y) = SubSeq(B, x + 1, y)
    BY <1>17, <2>1, <2>4, <2>5, SubSeqCat
  <2>7. FrameIn(c, k) = FrameIn(b, k)
    BY <1>16, <1>17, <2>3, <2>5, <2>6 DEF FrameIn
  <2> QED BY <2>1, <2>3, <2>7
<1>20. /\ Start(c, j) \in Nat /\ Start(c, j + 1) \in Nat /\ Start(c, j) < Start(c, j + 1)
       /\ FrameOf(protocol, batch[j + 1], FrameIn(c, j + 1))
       /\ Protocol!IsPacket(Seen(batch[j + 1]))
  <2>1. Start(c, j) = Len(B) /\ Start(c, j + 1) = Len(B) + Len(F)
    BY <1>18
  <2>2. SubSeq(B \o F, Len(B) + 1, Len(B) + Len(F)) = F
    BY <1>17
  <2>3. FrameIn(c, j + 1) = F
    BY <1>17, <2>1, <2>2 DEF FrameIn
  <2> QED BY <1>3, <1>10, <1>16, <1>17, <2>1, <2>3
<1>21. c \in [err : {"ok"}, ends : Seq(Nat), bytes : Seq(Byte)]
  BY <1>15, <1>16, <1>17
<1>22. Len(c.ends) = j + 1 /\ Start(c, j + 1) = Len(c.bytes)
  <2>1. Len(Append(E, Len(B) + Len(F))) = j + 1 /\ Len(B \o F) = Len(B) + Len(F)
    BY <1>17
  <2> QED BY <1>17, <1>18, <2>1
<1>23. ASSUME NEW k \in 1 .. j + 1
       PROVE  /\ Start(c, k - 1) \in Nat /\ Start(c, k) \in Nat /\ Start(c, k - 1) < Start(c, k)
              /\ FrameOf(protocol, batch[k], FrameIn(c, k))
              /\ Protocol!IsPacket(Seen(batch[k]))
  <2>1. CASE k \in 1 .. j
    BY <1>19, <2>1
  <2>2. CASE k = j + 1
    <3>1. k - 1 = j
      BY <2>2
    <3> QED BY ONLY <1>20, <2>2, <3>1
  <2> QED BY <2>1, <2>2
<1> QED BY <1>3, <1>14, <1>21, <1>22, <1>23 DEF Buffered

LEMMA PutAllBuffers ==
  ASSUME CodecsAgree, protocol \in DOMAIN Batches, NEW batch \in Batches[protocol],
         PutAll(batch).err = "ok"
  PROVE  Buffered(protocol, batch, Len(batch), PutAll(batch))
<1>1. batch \in Seq(ToSet(batch))
  BY BatchesAssumption
<1>2. PICK n \in Nat : n = Len(batch)
  BY <1>1
<1>3. PICK put : PutLoop(put, batch, n) /\ PutAll(batch) = put[n]
  BY <1>2, PutAllIs
<1> DEFINE P == {i \in 0 .. n : put[i].err # "ok" \/ Buffered(protocol, batch, i, put[i])}
<1>4. 0 \in P
  <2>1. put[0] = NoBytes
    BY <1>3 DEF PutLoop
  <2>2. Buffered(protocol, batch, 0, NoBytes)
    BY DEF Buffered, NoBytes, Start
  <2> QED BY <2>1, <2>2
<1>5. ASSUME NEW i \in 0 .. n - 1, i \in P PROVE i + 1 \in P
  <2>1. put[i + 1] = Put(put[i], batch[i + 1])
    <3>1. i + 1 \in 1 .. n /\ (i + 1) - 1 = i
      OBVIOUS
    <3> QED BY <1>3, <3>1 DEF PutLoop
  <2>2. CASE put[i].err # "ok"
    <3>1. put[i + 1] = put[i]
      BY <2>1, <2>2 DEF Put
    <3> QED BY <2>2, <3>1
  <2>3. CASE Buffered(protocol, batch, i, put[i]) /\ put[i + 1].err = "ok"
    <3>1. Buffered(protocol, batch, i + 1, put[i + 1])
      BY <1>2, <2>1, <2>3, PutKeeps
    <3> QED BY <3>1
  <2>4. CASE put[i + 1].err # "ok"
    BY <2>4
  <2> QED BY <1>5, <2>2, <2>3, <2>4
<1> HIDE DEF P
<1>6. n \in P
  BY <1>2, <1>4, <1>5, Induct
<1> QED BY <1>2, <1>3, <1>6 DEF P

------------------------------------------------------------------------------
\* Reading from the middle of a buffer.  The stream from where the frame of the
\* packet behind the first k begins, up to the byte m.
Rest(b, k, m) == SubSeq(b.bytes, Start(b, k) + 1, m)

\* All of a batch, buffered.
Whole(batch, b) == batch \in Seq(ToSet(batch)) /\ Buffered(protocol, batch, Len(batch), b)

\* The m bytes of the buffer that have been taken hold its first k packets.
Position(batch, b, k, m) ==
  /\ k \in 0 .. Len(batch) /\ m \in 0 .. Len(b.bytes) /\ Start(b, k) <= m

\* What read_mut makes of it: the next packet when all of its frame is there, a
\* refusal that ends the link, or a number of bytes it needs that does not go
\* beyond the end of this frame.
StepRead(batch, b, k, m, r) ==
  /\ r.got.err = "ok" =>
       /\ k < Len(batch) /\ Position(batch, b, k + 1, m)
       /\ r.got.val = Seen(batch[k + 1]) /\ r.stream = Rest(b, k + 1, m)
  /\ r.got.err = "InsufficientBytes" =>
       /\ r.stream = Rest(b, k, m) /\ r.got.need \in Nat
       /\ k < Len(batch) => r.got.need > 0 /\ m + r.got.need <= Start(b, k + 1)
       /\ k = 0 /\ m = 0 => r.got.need = 2
  /\ r.stream \in Seq(Byte)

LEMMA WholeShape ==
  ASSUME NEW batch, NEW b, Whole(batch, b)
  PROVE  /\ Len(batch) \in Nat /\ b.bytes \in Seq(Byte) /\ Len(b.bytes) \in Nat
         /\ Start(b, 0) = 0 /\ Start(b, Len(batch)) = Len(b.bytes)
         /\ \A k \in 0 .. Len(batch) : Start(b, k) \in 0 .. Len(b.bytes)
         /\ \A k \in 0 .. Len(batch) : \A i \in 0 .. Len(batch) : i < k => Start(b, i) < Start(b, k)
<1>1. PICK n \in Nat : n = Len(batch)
  BY DEF Whole
<1>2. Buffered(protocol, batch, n, b)
  BY <1>1 DEF Whole
<1>3. b.bytes \in Seq(Byte) /\ Start(b, n) = Len(b.bytes)
  BY <1>2 DEF Buffered
<1>4. Len(b.bytes) \in Nat
  BY <1>3
<1>5. ASSUME NEW i \in 0 .. n
      PROVE  Start(b, i) \in Nat /\ \A k \in i .. n : Start(b, i) + (k - i) <= Start(b, k)
  BY <1>2, StartsGrow
<1>6. ASSUME NEW k \in 0 .. n PROVE Start(b, k) \in 0 .. Len(b.bytes)
  <2>1. Start(b, k) \in Nat /\ Start(b, k) + (n - k) <= Start(b, n)
    <3>1. n \in k .. n
      OBVIOUS
    <3> QED BY <1>5, <3>1
  <2> QED BY <1>3, <1>4, <2>1
<1>7. ASSUME NEW k \in 0 .. n, NEW i \in 0 .. n, i < k PROVE Start(b, i) < Start(b, k)
  <2>1. k \in i .. n
    BY <1>7
  <2>2. Start(b, i) \in Nat /\ Start(b, k) \in Nat /\ Start(b, i) + (k - i) <= Start(b, k)
    BY <1>5, <2>1
  <2> QED BY <1>7, <2>2
<1> QED BY <1>1, <1>3, <1>4, <1>6, <1>7 DEF Start

LEMMA PartOfPart ==
  ASSUME NEW S, NEW s \in Seq(S), NEW x \in Nat, NEW y \in Nat, NEW z \in Nat,
         x <= y, y <= z, z <= Len(s)
  PROVE  /\ SubSeq(s, x + 1, y) \in Seq(S) /\ Len(SubSeq(s, x + 1, y)) = y - x
         /\ SubSeq(SubSeq(s, x + 1, z), 1, y - x) = SubSeq(s, x + 1, y)
         /\ SubSeq(SubSeq(s, x + 1, z), (y - x) + 1, z - x) = SubSeq(s, y + 1, z)
         /\ SubSeq(s, x + 1, y) \o SubSeq(s, y + 1, z) = SubSeq(s, x + 1, z)
<1>1. SubSeq(s, x + 1, y) \in Seq(S) /\ Len(SubSeq(s, x + 1, y)) = y - x
  OBVIOUS
<1>2. SubSeq(SubSeq(s, x + 1, z), 1, y - x) = SubSeq(s, x + 1, y)
  OBVIOUS
<1>3. SubSeq(SubSeq(s, x + 1, z), (y - x) + 1, z - x) = SubSeq(s, y + 1, z)
  OBVIOUS
<1>4. SubSeq(s, x + 1, y) \o SubSeq(s, y + 1, z) = SubSeq(s, x + 1, z)
  OBVIOUS
<1> QED BY <1>1, <1>2, <1>3, <1>4

LEMMA RestBytes ==
  ASSUME NEW batch, NEW b, Whole(batch, b), NEW k, NEW m, Position(batch, b, k, m)
  PROVE  /\ Rest(b, k, m) \in Seq(Byte) /\ Len(Rest(b, k, m)) = m - Start(b, k)
         /\ Start(b, k) \in Nat
<1>1. /\ b.bytes \in Seq(Byte) /\ Start(b, k) \in Nat /\ m \in Nat
      /\ Start(b, k) <= m /\ m <= Len(b.bytes)
  BY WholeShape DEF Position
<1> QED BY <1>1, PartOfPart DEF Rest

LEMMA ReadAt ==
  ASSUME NEW batch, NEW b, Whole(batch, b), NEW k, NEW m, Position(batch, b, k, m)
  PROVE  StepRead(batch, b, k, m, ReadMut(Rest(b, k, m)))
<1>1. PICK B : B = b.bytes
  OBVIOUS
<1>2. PICK x : x = Start(b, k)
  OBVIOUS
<1>3. PICK s : s = Rest(b, k, m)
  OBVIOUS
<1>4. /\ k \in 0 .. Len(batch) /\ m \in Nat /\ m <= Len(B) /\ x <= m /\ x \in Nat
      /\ B \in Seq(Byte) /\ Len(B) \in Nat /\ Len(batch) \in Nat
  BY <1>1, <1>2, WholeShape DEF Position
<1>5. s = SubSeq(B, x + 1, m) /\ s \in Seq(Byte) /\ Len(s) = m - x
  BY <1>1, <1>2, <1>3, <1>4, PartOfPart DEF Rest
<1>6. CASE k = Len(batch)
  <2>1. x = Len(B)
    BY <1>1, <1>2, <1>6, WholeShape
  <2>2. s = <<>>
    BY <1>4, <1>5, <2>1
  <2>3. PICK r : r = ReadMut(s)
    OBVIOUS
  <2>4. r = [got |-> Short(2), stream |-> s]
    BY <2>2, <2>3, ReadNone
  <2>5. r.got.err = "InsufficientBytes" /\ r.got.need = 2 /\ r.stream = s
    BY <2>4 DEF Short
  <2>6. ~(k < Len(batch))
    BY <1>4, <1>6
  <2>7. r.got.err # "ok" /\ r.got.need \in Nat
    BY <2>5
  <2>8. StepRead(batch, b, k, m, r)
    BY ONLY <1>3, <1>5, <2>5, <2>6, <2>7 DEF StepRead
  <2> QED BY <1>3, <2>3, <2>8
<1>7. CASE k < Len(batch)
  <2>1. PICK e : e = Start(b, k + 1)
    OBVIOUS
  <2>2. k + 1 \in 1 .. Len(batch) /\ k + 1 \in 0 .. Len(batch) /\ (k + 1) - 1 = k
    BY <1>4, <1>7
  <2>3. e \in Nat /\ e <= Len(B) /\ x < e
    <3>1. k \in 0 .. Len(batch) /\ k + 1 \in 0 .. Len(batch) /\ k < k + 1
      BY <1>4, <2>2
    <3>2. Start(b, k + 1) \in 0 .. Len(b.bytes) /\ Start(b, k) < Start(b, k + 1)
      BY <3>1, WholeShape
    <3> QED BY <1>1, <1>2, <1>4, <2>1, <3>2
  <2>4. PICK f : f = SubSeq(B, x + 1, e)
    OBVIOUS
  <2>5. FrameOf(protocol, batch[k + 1], f)
    BY <1>1, <1>2, <2>1, <2>2, <2>4 DEF Whole, Buffered, FrameIn
  <2>6. f \in Seq(Byte) /\ Len(f) = e - x
    BY <1>4, <2>3, <2>4, PartOfPart
  <2>7. CASE e <= m
    <3>1. SubSeq(s, 1, Len(f)) = f /\ SubSeq(s, Len(f) + 1, Len(s)) = SubSeq(B, e + 1, m)
      BY <1>4, <1>5, <2>3, <2>4, <2>6, <2>7, PartOfPart
    <3>2. Len(f) <= Len(s)
      BY <1>4, <1>5, <2>3, <2>6, <2>7
    <3>3. WholeRead(batch[k + 1], f, s, ReadMut(s))
      BY <1>5, <2>5, <3>1, <3>2, ReadWhole
    <3>4. SubSeq(B, e + 1, m) = Rest(b, k + 1, m)
      BY <1>1, <2>1 DEF Rest
    <3>5. Position(batch, b, k + 1, m)
      BY <2>1, <2>2, <2>7 DEF Position
    <3> QED BY <1>3, <1>7, <3>1, <3>3, <3>4, <3>5 DEF WholeRead, StepRead
  <2>8. CASE m < e
    <3>1. SubSeq(f, 1, Len(s)) = s
      BY <1>4, <1>5, <2>3, <2>4, <2>8, PartOfPart
    <3>2. Len(s) < Len(f)
      BY <1>4, <1>5, <2>3, <2>6, <2>8
    <3>3. CutRead(f, s, ReadMut(s))
      BY <1>5, <2>5, <3>1, <3>2, ReadCut
    <3>4. ASSUME NEW need \in 1 .. Len(f) - Len(s)
          PROVE  need \in Nat /\ need > 0 /\ m + need <= e
      BY <1>4, <1>5, <2>3, <2>6
    <3>5. ASSUME k = 0, m = 0, ReadMut(s).got.err = "InsufficientBytes"
          PROVE  ReadMut(s).got.need = 2
      <4>1. x = 0
        BY <1>2, <3>5 DEF Start
      <4>2. s = <<>>
        BY <1>4, <1>5, <3>5, <4>1
      <4> QED BY <4>2, ReadNone DEF Short
    <3> QED BY <1>3, <1>5, <2>1, <3>3, <3>4, <3>5 DEF CutRead, StepRead
  <2> QED BY <1>4, <2>3, <2>7, <2>8
<1> QED BY <1>4, <1>6, <1>7

------------------------------------------------------------------------------
\* readv.
FirstTurn(stream, queue) == [status |-> "more", stream |-> stream, queue |-> queue]

ReadLoop(turn, stream, queue, n) ==
  /\ turn = [i \in 0 .. n |-> turn[i]]
  /\ turn[0] = FirstTurn(stream, queue)
  /\ \A i \in 1 .. n : turn[i] = ReadOn(turn[i - 1])

LEMMA ReadLoopThere ==
  ASSUME NEW stream, NEW queue, NEW n \in Nat
  PROVE  \E turn : ReadLoop(turn, stream, queue, n)
<1> DEFINE P == {k \in 0 .. n : \E turn : ReadLoop(turn, stream, queue, k)}
<1>1. 0 \in P
  <2> DEFINE g == [i \in 0 .. 0 |-> FirstTurn(stream, queue)]
  <2>1. ReadLoop(g, stream, queue, 0)
    BY DEF ReadLoop
  <2> QED BY <2>1
<1>2. ASSUME NEW k \in 0 .. n - 1, k \in P PROVE k + 1 \in P
  <2>1. PICK f : ReadLoop(f, stream, queue, k)
    BY <1>2
  <2>2. PICK x : x = ReadOn(f[k])
    OBVIOUS
  <2> DEFINE g == [i \in 0 .. k + 1 |-> IF i <= k THEN f[i] ELSE x]
  <2>3. g = [i \in 0 .. k + 1 |-> g[i]]
    OBVIOUS
  <2>4. g[0] = FirstTurn(stream, queue)
    BY <2>1 DEF ReadLoop
  <2>5. ASSUME NEW i \in 1 .. k + 1 PROVE g[i] = ReadOn(g[i - 1])
    <3>1. CASE i <= k
      <4>1. i \in 1 .. k /\ i - 1 \in 0 .. k
        BY <3>1
      <4>2. f[i] = ReadOn(f[i - 1])
        BY <2>1, <4>1 DEF ReadLoop
      <4>3. g[i] = f[i] /\ g[i - 1] = f[i - 1]
        BY <3>1, <4>1
      <4> QED BY <4>2, <4>3
    <3>2. CASE i = k + 1
      <4>1. /\ k + 1 \in 0 .. k + 1 /\ ~(k + 1 <= k)
            /\ k \in 0 .. k + 1 /\ k <= k /\ (k + 1) - 1 = k
        OBVIOUS
      <4>2. g[k + 1] = x /\ g[k] = f[k]
        BY ONLY <4>1
      <4> HIDE DEF g
      <4> QED BY ONLY <2>2, <3>2, <4>1, <4>2
    <3> QED BY <3>1, <3>2
  <2> HIDE DEF g
  <2>6. ReadLoop(g, stream, queue, k + 1)
    BY <2>3, <2>4, <2>5 DEF ReadLoop
  <2> QED BY <2>6
<1> HIDE DEF P
<1>3. n \in P
  BY <1>1, <1>2, Induct
<1> QED BY <1>3 DEF P

LEMMA ReadvIs ==
  ASSUME NEW stream, NEW queue
  PROVE  \E turn : /\ ReadLoop(turn, stream, queue, MaxBufferLen)
                   /\ Readv(stream, queue) = turn[MaxBufferLen]
<1>1. PICK n \in Nat : n = MaxBufferLen
  BY NetworkAssumption
<1> DEFINE Is(f) == f = [i \in 0 .. n |-> IF i = 0 THEN FirstTurn(stream, queue) ELSE ReadOn(f[i - 1])]
<1>2. PICK f : ReadLoop(f, stream, queue, n)
  BY ReadLoopThere
<1>3. Is(f)
  <2> DEFINE g == [i \in 0 .. n |-> IF i = 0 THEN FirstTurn(stream, queue) ELSE ReadOn(f[i - 1])]
  <2>1. f = [i \in 0 .. n |-> f[i]]
    BY <1>2 DEF ReadLoop
  <2>2. ASSUME NEW i \in 0 .. n PROVE f[i] = g[i]
    <3>1. CASE i = 0
      BY <1>2, <3>1 DEF ReadLoop
    <3>2. CASE i # 0
      <4>1. i \in 1 .. n
        BY <3>2
      <4>2. f[i] = ReadOn(f[i - 1])
        BY <1>2, <4>1 DEF ReadLoop
      <4> QED BY <3>2, <4>2
    <3> QED BY <3>1, <3>2
  <2>3. g = [i \in 0 .. n |-> g[i]]
    OBVIOUS
  <2> HIDE DEF g
  <2>4. f = g
    BY <2>1, <2>2, <2>3
  <2> QED BY <2>4 DEF g
<1>4. PICK turn : turn = CHOOSE h : Is(h)
  OBVIOUS
<1>5. Is(turn)
  <2> HIDE DEF Is
  <2> QED BY <1>3, <1>4
<1>6. Readv(stream, queue) = turn[n]
  BY <1>1, <1>4 DEF Readv, FirstTurn
<1>7. ReadLoop(turn, stream, queue, n)
  <2>1. turn[0] = FirstTurn(stream, queue)
    BY <1>5
  <2>2. ASSUME NEW i \in 1 .. n PROVE turn[i] = ReadOn(turn[i - 1])
    <3>1. i \in 0 .. n /\ i # 0
      OBVIOUS
    <3> QED BY <1>5, <3>1
  <2>3. turn = [i \in 0 .. n |-> turn[i]]
    BY <1>5
  <2> HIDE DEF Is
  <2> QED BY <2>1, <2>2, <2>3 DEF ReadLoop
<1> QED BY <1>1, <1>6, <1>7

\* A sequence, of whatever there is in it.
IsList(q) == \E S : q \in Seq(S)

LEMMA ListAppend ==
  ASSUME NEW q, IsList(q), NEW v
  PROVE  IsList(Append(q, v)) /\ Len(q) \in Nat /\ Len(Append(q, v)) = Len(q) + 1
<1>1. PICK S : q \in Seq(S)
  BY DEF IsList
<1>2. PICK T : T = S \cup {v}
  OBVIOUS
<1>3. q \in Seq(T) /\ v \in T
  BY <1>1, <1>2
<1>4. Append(q, v) \in Seq(T) /\ Len(q) \in Nat /\ Len(Append(q, v)) = Len(q) + 1
  BY <1>3
<1> QED BY <1>4 DEF IsList

\* Whatever it reads, readv ends: with packets to announce, or with the link.
LEMMA ReadvEnds ==
  ASSUME NEW stream, NEW queue, IsList(queue), Len(queue) >= 1
  PROVE  LET v == Readv(stream, queue)
         IN /\ IsList(v.queue) /\ v.status \in {"notify", "error", "panicked"}
            /\ v.queue # <<>>
<1>1. PICK n \in Nat \ {0} : n = MaxBufferLen
  BY NetworkAssumption
<1>2. PICK turn : ReadLoop(turn, stream, queue, n) /\ Readv(stream, queue) = turn[n]
  BY <1>1, ReadvIs
<1> DEFINE Ends(i, v) == /\ IsList(v.queue) /\ Len(v.queue) >= 1
                         /\ v.status \in {"more", "notify", "error", "panicked"}
                         /\ v.status = "more" => Len(v.queue) >= i + 1 /\ (i > 0 => Len(v.queue) < n)
           P == {i \in 0 .. n : Ends(i, turn[i])}
<1>3. 0 \in P
  <2>1. turn[0] = FirstTurn(stream, queue)
    BY <1>2 DEF ReadLoop
  <2> QED BY <2>1 DEF FirstTurn
<1>4. ASSUME NEW i \in 0 .. n - 1, i \in P PROVE i + 1 \in P
  <2>1. PICK v : v = turn[i]
    OBVIOUS
  <2>2. turn[i + 1] = ReadOn(v)
    <3>1. i + 1 \in 1 .. n /\ (i + 1) - 1 = i
      BY <1>4
    <3> QED BY <1>2, <2>1, <3>1 DEF ReadLoop
  <2>3. Ends(i, v)
    BY <1>4, <2>1
  <2>4. PICK r : r = ReadMut(v.stream)
    OBVIOUS
  <2>5. CASE v.status # "more"
    <3>1. turn[i + 1] = v
      BY <2>2, <2>5 DEF ReadOn, PushOn
    <3> QED BY <2>3, <2>5, <3>1
  <2>6. CASE v.status = "more" /\ r.got.err = "ok"
    <3>1. PICK q : q = Append(v.queue, r.got.val)
      OBVIOUS
    <3>2. PICK len : len = Len(v.queue)
      OBVIOUS
    <3>3. IsList(q) /\ len \in Nat /\ Len(q) = len + 1
      BY <2>3, <3>1, <3>2, ListAppend
    <3>4. turn[i + 1] = [status |-> IF len + 1 < n THEN "more" ELSE "notify",
                         stream |-> r.stream, queue |-> q]
      BY <1>1, <2>2, <2>4, <2>6, <3>1, <3>2 DEF ReadOn, PushOn
    <3>5. len >= i + 1
      BY <2>3, <2>6, <3>2
    <3>6. Ends(i + 1, turn[i + 1])
      BY <3>3, <3>4, <3>5
    <3> QED BY <3>6
  <2>7. CASE v.status = "more" /\ r.got.err # "ok"
    <3>1. turn[i + 1] = [status |-> IF r.got.err = "InsufficientBytes" THEN "notify"
                                    ELSE Failure(r.got.err),
                         stream |-> r.stream, queue |-> v.queue]
      BY <2>2, <2>4, <2>7 DEF ReadOn, PushOn
    <3>2. turn[i + 1].status \in {"notify", "error", "panicked"}
      BY <3>1 DEF Failure
    <3> QED BY <2>3, <3>1, <3>2
  <2> QED BY <2>5, <2>6, <2>7
<1> HIDE DEF P
<1>5. n \in P
  <2>1. n \in Nat /\ n \in 0 .. n
    BY <1>1
  <2>2. \A i \in 0 .. n : i \in P
    BY <1>3, <1>4, <2>1, Induct
  <2> QED BY <2>1, <2>2
<1>6. Ends(n, turn[n])
  BY <1>5 DEF P
<1>7. turn[n].status # "more"
  <2>1. Len(turn[n].queue) \in Nat
    BY <1>6, ListAppend
  <2> QED BY <1>1, <1>6, <2>1
<1>8. turn[n].queue # <<>>
  BY <1>6
<1> QED BY <1>2, <1>6, <1>7, <1>8
\* What the reader is to see of a batch.
SeenSet(batch) == {Seen(batch[i]) : i \in DOMAIN batch}
SeenPart(batch, k) == SeenAll(SubSeq(batch, 1, k))

LEMMA SeenPartIs ==
  ASSUME NEW batch, batch \in Seq(ToSet(batch)), NEW k \in 0 .. Len(batch)
  PROVE  /\ SeenPart(batch, k) = [i \in 1 .. k |-> Seen(batch[i])]
         /\ SeenPart(batch, k) \in Seq(SeenSet(batch)) /\ Len(SeenPart(batch, k)) = k
<1>1. PICK s : s = SubSeq(batch, 1, k)
  OBVIOUS
<1>2. DOMAIN s = 1 .. k /\ \A i \in 1 .. k : s[i] = batch[i]
  BY <1>1
<1>3. SeenPart(batch, k) = [i \in 1 .. k |-> Seen(batch[i])]
  BY <1>1, <1>2 DEF SeenPart, SeenAll
<1>4. k \in Nat /\ \A i \in 1 .. k : Seen(batch[i]) \in SeenSet(batch)
  BY DEF SeenSet
<1>5. SeenPart(batch, k) \in [1 .. k -> SeenSet(batch)]
  BY <1>3, <1>4
<1>6. SeenPart(batch, k) \in Seq(SeenSet(batch)) /\ Len(SeenPart(batch, k)) = k
  BY <1>4, <1>5
<1> QED BY <1>3, <1>6

LEMMA SeenNext ==
  ASSUME NEW batch, batch \in Seq(ToSet(batch)), NEW k \in 0 .. Len(batch) - 1
  PROVE  SeenPart(batch, k + 1) = Append(SeenPart(batch, k), Seen(batch[k + 1]))
<1>1. k \in 0 .. Len(batch) /\ k + 1 \in 0 .. Len(batch)
  OBVIOUS
<1>2. PICK s, t, v : s = SeenPart(batch, k) /\ t = SeenPart(batch, k + 1) /\ v = Seen(batch[k + 1])
  OBVIOUS
<1>3. /\ s = [i \in 1 .. k |-> Seen(batch[i])] /\ s \in Seq(SeenSet(batch)) /\ Len(s) = k
      /\ t = [i \in 1 .. k + 1 |-> Seen(batch[i])] /\ t \in Seq(SeenSet(batch)) /\ Len(t) = k + 1
  BY <1>1, <1>2, SeenPartIs
<1>4. v \in SeenSet(batch)
  BY <1>2 DEF SeenSet
<1>5. \A i \in 1 .. k : t[i] = s[i]
  BY <1>3
<1>6. t[k + 1] = v
  BY <1>2, <1>3
<1>7. t = Append(s, v)
  BY ONLY <1>3, <1>4, <1>5, <1>6
<1> QED BY <1>2, <1>7

LEMMA AppendBehind ==
  ASSUME NEW S, NEW d \in Seq(S), NEW q \in Seq(S), NEW v \in S
  PROVE  Append(q, v) \in Seq(S) /\ d \o Append(q, v) = Append(d \o q, v)
OBVIOUS

\* The packets d, and q behind them, are the first k of the batch.
Holds(batch, d, q, k) ==
  /\ d \in Seq(SeenSet(batch)) /\ q \in Seq(SeenSet(batch))
  /\ k \in 0 .. Len(batch) /\ d \o q = SeenPart(batch, k)

LEMMA GotNext ==
  ASSUME NEW batch, batch \in Seq(ToSet(batch)), NEW d, NEW q, NEW k, Holds(batch, d, q, k),
         k < Len(batch)
  PROVE  Holds(batch, d, Append(q, Seen(batch[k + 1])), k + 1)
<1>1. k \in 0 .. Len(batch) - 1
  BY DEF Holds
<1>2. PICK v : v = Seen(batch[k + 1])
  OBVIOUS
<1>3. v \in SeenSet(batch)
  BY <1>1, <1>2 DEF SeenSet
<1>4. Append(q, v) \in Seq(SeenSet(batch)) /\ d \o Append(q, v) = Append(d \o q, v)
  BY <1>3, AppendBehind DEF Holds
<1>5. SeenPart(batch, k + 1) = Append(SeenPart(batch, k), v)
  BY <1>1, <1>2, SeenNext
<1>6. k + 1 \in 0 .. Len(batch)
  BY <1>1
<1> QED BY <1>2, <1>4, <1>5, <1>6 DEF Holds

\* readv reads the packets in order, and leaves the stream at one of them.
LEMMA ReadvReads ==
  ASSUME NEW batch, NEW b, Whole(batch, b), NEW k, NEW m, Position(batch, b, k, m),
         NEW d, NEW q, Holds(batch, d, q, k)
  PROVE  LET v == Readv(Rest(b, k, m), q)
         IN \E i : /\ Position(batch, b, i, m) /\ Holds(batch, d, v.queue, i)
                   /\ v.stream \in Seq(Byte)
                   /\ v.stream = Rest(b, i, m) \/ v.status \in {"error", "panicked"}
<1>0. batch \in Seq(ToSet(batch))
  BY DEF Whole
<1>1. PICK n \in Nat : n = MaxBufferLen
  BY NetworkAssumption
<1>2. PICK turn : ReadLoop(turn, Rest(b, k, m), q, n) /\ Readv(Rest(b, k, m), q) = turn[n]
  BY <1>1, ReadvIs
<1> DEFINE At(v) == \E i : /\ Position(batch, b, i, m) /\ Holds(batch, d, v.queue, i)
                           /\ v.stream \in Seq(Byte)
                           /\ v.stream = Rest(b, i, m) \/ v.status \in {"error", "panicked"}
           P == {j \in 0 .. n : At(turn[j])}
<1>3. 0 \in P
  <2>1. turn[0] = FirstTurn(Rest(b, k, m), q)
    BY <1>2 DEF ReadLoop
  <2>2. turn[0].stream = Rest(b, k, m) /\ turn[0].queue = q
    BY <2>1 DEF FirstTurn
  <2>3. Rest(b, k, m) \in Seq(Byte)
    BY RestBytes
  <2>4. At(turn[0])
    BY <2>2, <2>3
  <2> QED BY <2>4
<1>4. ASSUME NEW j \in 0 .. n - 1, j \in P PROVE j + 1 \in P
  <2>1. PICK v : v = turn[j]
    OBVIOUS
  <2>2. turn[j + 1] = ReadOn(v)
    <3>1. j + 1 \in 1 .. n /\ (j + 1) - 1 = j
      BY <1>4
    <3> QED BY <1>2, <2>1, <3>1 DEF ReadLoop
  <2>3. PICK i : /\ Position(batch, b, i, m) /\ Holds(batch, d, v.queue, i)
                 /\ v.stream \in Seq(Byte)
                 /\ v.stream = Rest(b, i, m) \/ v.status \in {"error", "panicked"}
    BY <1>4, <2>1
  <2>4. CASE v.status # "more"
    <3>1. turn[j + 1] = v
      BY <2>2, <2>4 DEF ReadOn, PushOn
    <3>2. At(turn[j + 1])
      BY <2>3, <3>1
    <3> QED BY <3>2
  <2>5. CASE v.status = "more"
    <3>1. PICK r : r = ReadMut(v.stream)
      OBVIOUS
    <3>2. v.stream = Rest(b, i, m)
      BY <2>3, <2>5
    <3>3. StepRead(batch, b, i, m, r)
      BY <2>3, <3>1, <3>2, ReadAt
    <3>4. CASE r.got.err = "ok"
      <4>1. turn[j + 1].stream = r.stream /\ turn[j + 1].queue = Append(v.queue, r.got.val)
        BY <2>2, <2>5, <3>1, <3>4 DEF ReadOn, PushOn
      <4>2. /\ i < Len(batch) /\ Position(batch, b, i + 1, m)
            /\ r.got.val = Seen(batch[i + 1]) /\ r.stream = Rest(b, i + 1, m)
            /\ r.stream \in Seq(Byte)
        BY <3>3, <3>4 DEF StepRead
      <4>3. Holds(batch, d, Append(v.queue, Seen(batch[i + 1])), i + 1)
        BY <1>0, <2>3, <4>2, GotNext
      <4>4. At(turn[j + 1])
        BY <4>1, <4>2, <4>3
      <4> QED BY <4>4
    <3>5. CASE r.got.err = "InsufficientBytes"
      <4>1. turn[j + 1].stream = r.stream /\ turn[j + 1].queue = v.queue
        BY <2>2, <2>5, <3>1, <3>5 DEF ReadOn, PushOn
      <4>2. r.stream = Rest(b, i, m) /\ r.stream \in Seq(Byte)
        BY <3>3, <3>5 DEF StepRead
      <4>3. At(turn[j + 1])
        BY <2>3, <4>1, <4>2
      <4> QED BY <4>3
    <3>6. CASE r.got.err \notin {"ok", "InsufficientBytes"}
      <4>1. /\ turn[j + 1].stream = r.stream /\ turn[j + 1].queue = v.queue
            /\ turn[j + 1].status = Failure(r.got.err)
        BY <2>2, <2>5, <3>1, <3>6 DEF ReadOn, PushOn
      <4>2. r.stream \in Seq(Byte) /\ turn[j + 1].status \in {"error", "panicked"}
        BY <3>3, <4>1 DEF StepRead, Failure
      <4>3. At(turn[j + 1])
        BY <2>3, <4>1, <4>2
      <4> QED BY <4>3
    <3> QED BY <3>4, <3>5, <3>6
  <2> QED BY <2>4, <2>5
<1> HIDE DEF P
<1>5. n \in P
  <2>1. n \in Nat /\ n \in 0 .. n
    BY <1>1
  <2>2. \A j \in 0 .. n : j \in P
    BY <1>3, <1>4, <2>1, Induct
  <2> QED BY <2>1, <2>2
<1>6. At(turn[n])
  BY <1>5 DEF P
<1> QED BY <1>2, <1>6

------------------------------------------------------------------------------
\* What holds of the reader whatever the bytes are.
Ending == {"notify", "error", "panicked"}

Counters ==
  /\ pending \in 0 .. MaxPending /\ timer \in 0 .. KeepAlive /\ quiet \in 0 .. MaxQuiet
  /\ sender \in {"up", "closed", "failed", "panicked"}
  /\ status \in {"ready", "waiting", "aborted", "reset", "keepalive"} \cup Ending
  /\ IsList(packets)

\* A packet in the buffer has its event, or its announcement or the end of the
\* link, still to come.
Announced == packets # <<>> => pending > 0 \/ status \in Ending

\* The timer of a read is not older than the last packet.
Timed == (status = "waiting" => timer <= quiet) /\ KeepAliveNotEarly

Awake == Counters /\ Announced /\ Timed

LEMMA AwakeInit == Init => Awake
<1> SUFFICES ASSUME Init PROVE Awake
  OBVIOUS
<1>1. IsList(packets)
  <2>1. packets \in Seq({})
    BY DEF Init
  <2> QED BY <2>1 DEF IsList
<1> QED BY <1>1, NetworkAssumption DEF Init, Awake, Counters, Announced, Timed, KeepAliveNotEarly

LEMMA AwakeWrite ==
  ASSUME Awake, NEW batch, Writev(batch) \/ Close
  PROVE  Awake'
<1>1. UNCHANGED <<status, packets, pending, timer, quiet>>
  BY DEF Writev, Close, reading
<1>2. sender' \in {"up", "closed", "failed", "panicked"}
  BY DEF Writev, Close, Flushed, Flush, Awake, Counters
<1> QED BY <1>1, <1>2 DEF Awake, Counters, Announced, Timed, KeepAliveNotEarly

LEMMA AwakeRead ==
  ASSUME Awake, Read
  PROVE  Awake'
<1>1. PICK r : r = ReadMut(read)
  OBVIOUS
<1>2. /\ status = "ready" /\ Outcome(r) /\ UNCHANGED <<sender, pending>>
  BY <1>1 DEF Read, sending
<1>3. CASE r.got.err = "ok"
  <2>1. PICK q : q = Append(packets, r.got.val)
    OBVIOUS
  <2>2. PICK v : v = Readv(r.stream, q)
    OBVIOUS
  <2>3. /\ packets' = v.queue /\ status' = v.status /\ quiet' = 0 /\ timer' = timer
    BY <1>2, <1>3, <2>1, <2>2 DEF Outcome, PushAll
  <2>4. IsList(q) /\ Len(q) >= 1
    BY <2>1, ListAppend DEF Awake, Counters
  <2>5. IsList(v.queue) /\ v.status \in Ending
    BY <2>2, <2>4, ReadvEnds DEF Ending
  <2> QED BY <1>2, <2>3, <2>5, NetworkAssumption
       DEF Awake, Counters, Announced, Timed, KeepAliveNotEarly, Ending
<1>4. CASE r.got.err = "InsufficientBytes"
  <2>1. /\ packets' = packets /\ status' = "waiting" /\ quiet' = quiet /\ timer' = 0
    BY <1>2, <1>4 DEF Outcome
  <2> QED BY <1>2, <2>1, NetworkAssumption
       DEF Awake, Counters, Announced, Timed, KeepAliveNotEarly, Ending
<1>5. CASE r.got.err \notin {"ok", "InsufficientBytes"}
  <2>1. /\ packets' = packets /\ status' = Failure(r.got.err) /\ quiet' = quiet /\ timer' = timer
    BY <1>2, <1>5 DEF Outcome
  <2>2. status' \in {"error", "panicked"}
    BY <2>1 DEF Failure
  <2> QED BY <1>2, <2>1, <2>2
       DEF Awake, Counters, Announced, Timed, KeepAliveNotEarly, Ending
<1> QED BY <1>3, <1>4, <1>5

LEMMA AwakeWait ==
  ASSUME Awake, (\E n : Arrive(n)) \/ Eof \/ Cancel \/ TimeOut
  PROVE  Awake'
<1>1. /\ status = "waiting" /\ UNCHANGED <<sender, packets, pending, timer, quiet>>
      /\ status' \in {"ready", "waiting", "aborted", "reset"} \/ TimeOut
  BY DEF Arrive, Eof, Cancel, TimeOut, sending, reading
<1>2. TimeOut => status' = "keepalive" /\ quiet >= KeepAlive
  BY NetworkAssumption DEF TimeOut, Awake, Counters, Timed
<1> QED BY <1>1, <1>2 DEF Awake, Counters, Announced, Timed, KeepAliveNotEarly, Ending

LEMMA AwakeTick ==
  ASSUME Awake, Tick
  PROVE  Awake'
<1>1. UNCHANGED <<sender, status, packets, pending>>
  BY DEF Tick, sending
<1>2. quiet' \in 0 .. MaxQuiet /\ quiet' >= quiet /\ timer' \in 0 .. KeepAlive
  BY NetworkAssumption DEF Tick, Awake, Counters
<1>3. status = "waiting" => timer' <= quiet'
  BY NetworkAssumption DEF Tick, Awake, Counters, Timed
<1>4. status # "keepalive"
  BY DEF Tick
<1> QED BY <1>1, <1>2, <1>3, <1>4 DEF Awake, Counters, Announced, Timed, KeepAliveNotEarly

LEMMA AwakeHand ==
  ASSUME Awake, Notify \/ Take
  PROVE  Awake'
<1>1. UNCHANGED <<sender, timer, quiet>>
  BY DEF Notify, Take, sending, reading
<1>2. CASE Notify
  BY <1>1, <1>2, NetworkAssumption
     DEF Notify, Awake, Counters, Announced, Timed, KeepAliveNotEarly, Ending
<1>3. CASE Take
  <2>1. IsList(packets') /\ packets' = <<>>
    <3>1. packets' = <<>> /\ <<>> \in Seq({})
      BY <1>3 DEF Take
    <3> QED BY <3>1 DEF IsList
  <2> QED BY <1>1, <1>3, <2>1, NetworkAssumption
       DEF Take, Awake, Counters, Announced, Timed, KeepAliveNotEarly, Ending
<1> QED BY <1>2, <1>3

\* Whatever the bytes are, what the link's buffer holds has an event of the
\* router to come, and no timer is ahead of the silence it measures, although
\* chunks and notifications restart it.
THEOREM AwakeAlways == Spec => []Awake
<1>1. Init => Awake
  BY AwakeInit
<1>2. Awake /\ [Next]_vars => Awake'
  <2> SUFFICES ASSUME Awake, [Next]_vars PROVE Awake'
    OBVIOUS
  <2>1. CASE \E batch \in Batches[protocol] : Writev(batch)
    BY <2>1, AwakeWrite
  <2>2. CASE Close
    BY <2>2, AwakeWrite
  <2>3. CASE Read
    BY <2>3, AwakeRead
  <2>4. CASE (\E n \in ChunkSizes : Arrive(n)) \/ Eof \/ Cancel \/ TimeOut
    BY <2>4, AwakeWait
  <2>5. CASE Tick
    BY <2>5, AwakeTick
  <2>6. CASE Notify \/ Take
    BY <2>6, AwakeHand
  <2>7. CASE UNCHANGED vars
    BY <2>7 DEF vars, sending, reading, Awake, Counters, Announced, Timed, KeepAliveNotEarly
  <2> QED BY <2>1, <2>2, <2>3, <2>4, <2>5, <2>6, <2>7 DEF Next
<1> QED BY <1>1, <1>2, PTL DEF Spec

------------------------------------------------------------------------------
\* The stream.  A batch is in the buffer b, the first n bytes of b went out, and
\* in them the first w packets whole.
Cut(batch, b, n, w) ==
  /\ n \in 0 .. Len(b.bytes) /\ w \in 0 .. Len(batch)
  /\ Start(b, w) <= n /\ (w < Len(batch) => n < Start(b, w + 1))

Sending(batch, b, n, w) ==
  /\ Whole(batch, b) /\ Cut(batch, b, n, w)
  /\ sent = SubSeq(batch, 1, w)
  /\ torn <=> n # Start(b, w)
  /\ sender = "up" => w > 0

\* The m bytes that arrived hold k whole packets, which are read.  A read that
\* waits is not asked for more than the packet it is at.
Reading(batch, b, n, k, m) ==
  /\ Position(batch, b, k, m) /\ m <= n /\ wire = SubSeq(b.bytes, m + 1, n)
  /\ Holds(batch, delivered, packets, k)
  /\ read \in Seq(Byte) /\ (read = Rest(b, k, m) \/ status \in {"error", "panicked"})
  /\ required \in Nat /\ total_read \in Nat
  /\ status = "waiting" /\ k < Len(batch) =>
       total_read < required /\ m + (required - total_read) <= Start(b, k + 1)

\* The end of a stream is told when all of it is read.
Told(w, k) ==
  status \in {"aborted", "reset"} =>
    sender # "up" /\ k = w /\ (torn <=> status = "reset")

Streaming ==
  \E batch, b, n, w, k, m :
    Sending(batch, b, n, w) /\ Reading(batch, b, n, k, m) /\ Told(w, k)

\* Nothing is written yet.
Idle ==
  /\ sent = <<>> /\ torn = FALSE /\ wire = <<>> /\ read = <<>>
  /\ packets = <<>> /\ delivered = <<>>
  /\ status \in {"ready", "waiting", "aborted", "keepalive"}
  /\ status = "waiting" => required = 2 /\ total_read = 0
  /\ required \in Nat /\ total_read \in Nat
  /\ status = "aborted" => sender # "up"

Framed == protocol \in DOMAIN Batches /\ (Idle \/ Streaming)

LEMMA CutThere ==
  ASSUME NEW batch, NEW b, Whole(batch, b), NEW n \in 0 .. Len(b.bytes)
  PROVE  \E w : Cut(batch, b, n, w)
<1>1. PICK e \in Nat : e = Len(batch)
  BY WholeShape
<1> DEFINE P == {j \in 0 .. e : Start(b, j) <= n}
<1>2. SUFFICES ASSUME ~ \E w : Cut(batch, b, n, w) PROVE FALSE
  OBVIOUS
<1>3. \A j \in 0 .. e : Start(b, j) \in 0 .. Len(b.bytes)
  BY <1>1, WholeShape
<1>4. 0 \in P
  BY <1>3, WholeShape
<1>5. ASSUME NEW j \in 0 .. e - 1, j \in P PROVE j + 1 \in P
  <2>1. Start(b, j) <= n /\ ~ Cut(batch, b, n, j)
    BY <1>2, <1>5
  <2>2. ~(n < Start(b, j + 1))
    BY <1>1, <2>1 DEF Cut
  <2>3. j + 1 \in 0 .. e /\ Start(b, j + 1) \in 0 .. Len(b.bytes) /\ Len(b.bytes) \in Nat
    BY <1>1, <1>3, WholeShape
  <2>4. Start(b, j + 1) <= n
    BY <2>2, <2>3
  <2> QED BY <2>3, <2>4
<1> HIDE DEF P
<1>6. e \in P
  <2>1. e \in Nat /\ e \in 0 .. e
    BY <1>1
  <2>2. \A j \in 0 .. e : j \in P
    BY <1>4, <1>5, <2>1, Induct
  <2> QED BY <2>1, <2>2
<1>7. Start(b, e) <= n
  BY <1>2, <1>6 DEF P
<1>8. Cut(batch, b, n, e)
  BY <1>1, <1>7 DEF Cut
<1> QED BY <1>2, <1>8

\* The reader is not ahead of what went out.
LEMMA NotAhead ==
  ASSUME NEW batch, NEW b, Whole(batch, b), NEW n, NEW w, Cut(batch, b, n, w),
         NEW k \in 0 .. Len(batch), Start(b, k) <= n
  PROVE  k <= w
<1>1. PICK e \in Nat : e = Len(batch)
  BY WholeShape
<1>2. /\ w \in 0 .. e /\ k \in 0 .. e /\ n \in Int
      /\ \A j \in 0 .. e : Start(b, j) \in Int
  BY <1>1, WholeShape DEF Cut
<1>3. SUFFICES ASSUME w < k PROVE FALSE
  BY <1>2
<1>4. w + 1 \in 0 .. e /\ w < e
  BY <1>2, <1>3
<1>5. n < Start(b, w + 1)
  BY <1>1, <1>4 DEF Cut
<1>6. Start(b, w + 1) <= Start(b, k)
  <2>1. CASE w + 1 = k
    BY <1>2, <2>1
  <2>2. CASE w + 1 < k
    <3>1. Start(b, w + 1) < Start(b, k)
      BY <1>1, <1>2, <1>4, <2>2, WholeShape
    <3> QED BY <1>2, <1>4, <3>1
  <2> QED BY <1>2, <1>3, <2>1, <2>2
<1> QED BY <1>2, <1>4, <1>5, <1>6

\* A reader that waits with nothing in flight has read every whole packet.
LEMMA AllRead ==
  ASSUME NEW batch, NEW b, NEW n, NEW w, NEW k, NEW m,
         Sending(batch, b, n, w), Reading(batch, b, n, k, m),
         status = "waiting", wire = <<>>
  PROVE  m = n /\ k = w /\ (read = <<>> <=> ~torn)
<1>1. Whole(batch, b) /\ Cut(batch, b, n, w) /\ Position(batch, b, k, m)
  BY DEF Sending, Reading
<1>2. PICK e \in Nat : e = Len(batch)
  BY <1>1, WholeShape
<1>3. PICK B : B = b.bytes
  OBVIOUS
<1>4. /\ B \in Seq(Byte) /\ m \in Nat /\ n \in Nat /\ m <= n /\ n <= Len(B)
      /\ wire = SubSeq(B, m + 1, n) /\ k \in 0 .. e /\ w \in 0 .. e /\ Start(b, k) <= m
  BY <1>1, <1>2, <1>3, WholeShape DEF Reading, Position, Cut
<1>5. \A j \in 0 .. e : Start(b, j) \in Nat
  BY <1>1, <1>2, WholeShape
<1>6. m = n
  <2>1. Len(wire) = n - m
    BY <1>4, PartOfPart
  <2> QED BY <1>4, <2>1
<1>7. k <= w
  <2>1. Start(b, k) <= n
    BY <1>4, <1>6
  <2> QED BY <1>1, <1>2, <1>4, <2>1, NotAhead
<1>8. ~(k < w)
  <2>1. SUFFICES ASSUME k < w PROVE FALSE
    OBVIOUS
  <2>2. k < e /\ k + 1 \in 0 .. e
    BY <1>4, <2>1
  <2>3. /\ total_read < required /\ m + (required - total_read) <= Start(b, k + 1)
        /\ required \in Nat /\ total_read \in Nat
    BY <1>2, <2>2 DEF Reading
  <2>4. n < Start(b, k + 1)
    BY <1>4, <1>5, <1>6, <2>2, <2>3
  <2>5. Start(b, k + 1) <= Start(b, w)
    <3>1. CASE k + 1 = w
      BY <1>5, <2>2, <3>1
    <3>2. CASE k + 1 < w
      <4>1. Start(b, k + 1) < Start(b, w)
        BY <1>1, <1>2, <1>4, <2>2, <3>2, WholeShape
      <4> QED BY <1>4, <1>5, <2>2, <4>1
    <3> QED BY <1>4, <2>1, <3>1, <3>2
  <2>6. Start(b, w) <= n
    BY <1>1 DEF Cut
  <2> QED BY <1>4, <1>5, <2>2, <2>4, <2>5, <2>6
<1>9. k = w
  BY <1>4, <1>7, <1>8
<1>10. read = <<>> <=> m = Start(b, k)
  <2>1. read = Rest(b, k, m)
    BY DEF Reading
  <2>2. read \in Seq(Byte) /\ Len(read) = m - Start(b, k)
    BY <1>1, <2>1, RestBytes
  <2> QED BY <1>4, <1>5, <2>2
<1>11. torn <=> n # Start(b, w)
  BY DEF Sending
<1> QED BY <1>6, <1>9, <1>10, <1>11

\* One step of the stream: its parts go on, where the reader is then.
LEMMA StreamClose ==
  ASSUME Streaming, Close
  PROVE  Streaming'
<1>1. PICK batch, b, n, w, k, m :
        Sending(batch, b, n, w) /\ Reading(batch, b, n, k, m) /\ Told(w, k)
  BY DEF Streaming
<1>2. /\ sender = "up" /\ sender' = "closed"
      /\ UNCHANGED <<protocol, sent, torn, wire, read, required, total_read, status, packets,
                     delivered>>
  BY DEF Close, reading
<1>3. Sending(batch, b, n, w)'
  BY <1>1, <1>2 DEF Sending, Whole
<1>4. Reading(batch, b, n, k, m)'
  BY <1>1, <1>2 DEF Reading
<1>5. Told(w, k)'
  BY <1>1, <1>2 DEF Told
<1> QED BY <1>3, <1>4, <1>5 DEF Streaming

LEMMA StreamRead ==
  ASSUME Awake, Streaming, Read
  PROVE  Streaming'
<1>1. PICK batch, b, n, w, k, m :
        Sending(batch, b, n, w) /\ Reading(batch, b, n, k, m) /\ Told(w, k)
  BY DEF Streaming
<1>2. PICK r : r = ReadMut(read)
  OBVIOUS
<1>3. /\ status = "ready" /\ Outcome(r)
      /\ UNCHANGED <<protocol, sender, sent, torn, wire, delivered>>
  BY <1>2 DEF Read, sending
<1>4. Whole(batch, b) /\ Position(batch, b, k, m) /\ Holds(batch, delivered, packets, k)
  BY <1>1 DEF Sending, Reading
<1>5. read = Rest(b, k, m)
  BY <1>1, <1>3 DEF Reading
<1>6. StepRead(batch, b, k, m, r)
  BY <1>2, <1>4, <1>5, ReadAt
<1>7. Sending(batch, b, n, w)'
  BY <1>1, <1>3 DEF Sending, Whole
<1>8. m <= n /\ wire' = SubSeq(b.bytes, m + 1, n) /\ required \in Nat /\ total_read \in Nat
  BY <1>1, <1>3 DEF Reading
<1>9. CASE r.got.err = "ok"
  <2>1. PICK q : q = Append(packets, r.got.val)
    OBVIOUS
  <2>2. PICK v : v = Readv(r.stream, q)
    OBVIOUS
  <2>3. /\ packets' = v.queue /\ status' = v.status /\ read' = v.stream
        /\ UNCHANGED <<required, total_read>>
    BY <1>3, <1>9, <2>1, <2>2 DEF Outcome, PushAll
  <2>4. /\ k < Len(batch) /\ Position(batch, b, k + 1, m)
        /\ r.got.val = Seen(batch[k + 1]) /\ r.stream = Rest(b, k + 1, m)
    BY <1>6, <1>9 DEF StepRead
  <2>5. Holds(batch, delivered, q, k + 1)
    BY <1>4, <2>1, <2>4, GotNext DEF Whole
  <2>6. PICK i : /\ Position(batch, b, i, m) /\ Holds(batch, delivered, v.queue, i)
                 /\ v.stream \in Seq(Byte)
                 /\ v.stream = Rest(b, i, m) \/ v.status \in {"error", "panicked"}
    BY <1>4, <2>2, <2>4, <2>5, ReadvReads
  <2>7. v.status \in {"notify", "error", "panicked"}
    <3>1. IsList(q) /\ Len(q) >= 1
      BY <2>1, ListAppend DEF Awake, Counters
    <3> QED BY <2>2, <3>1, ReadvEnds
  <2>8. Reading(batch, b, n, i, m)'
    BY <1>3, <1>8, <2>3, <2>6, <2>7 DEF Reading
  <2>9. Told(w, i)'
    BY <2>3, <2>7 DEF Told
  <2> QED BY <1>7, <2>8, <2>9 DEF Streaming
<1>10. CASE r.got.err = "InsufficientBytes"
  <2>1. /\ read' = r.stream /\ required' = r.got.need /\ total_read' = 0
        /\ status' = "waiting" /\ packets' = packets
    BY <1>3, <1>10 DEF Outcome
  <2>2. /\ r.stream = Rest(b, k, m) /\ r.stream \in Seq(Byte) /\ r.got.need \in Nat
        /\ k < Len(batch) => r.got.need > 0 /\ m + r.got.need <= Start(b, k + 1)
    BY <1>6, <1>10 DEF StepRead
  <2>3. k < Len(batch) => total_read' < required' /\ m + (required' - total_read') <= Start(b, k + 1)
    BY <2>1, <2>2
  <2>4. Reading(batch, b, n, k, m)'
    BY <1>3, <1>4, <1>8, <2>1, <2>2, <2>3 DEF Reading
  <2>5. Told(w, k)'
    BY <2>1 DEF Told
  <2> QED BY <1>7, <2>4, <2>5 DEF Streaming
<1>11. CASE r.got.err \notin {"ok", "InsufficientBytes"}
  <2>1. /\ read' = r.stream /\ status' = Failure(r.got.err)
        /\ UNCHANGED <<packets, required, total_read>>
    BY <1>3, <1>11 DEF Outcome
  <2>2. status' \in {"error", "panicked"} /\ read' \in Seq(Byte)
    BY <1>6, <2>1 DEF Failure, StepRead
  <2>3. Reading(batch, b, n, k, m)'
    BY <1>3, <1>4, <1>8, <2>1, <2>2 DEF Reading
  <2>4. Told(w, k)'
    BY <2>2 DEF Told
  <2> QED BY <1>7, <2>3, <2>4 DEF Streaming
<1> QED BY <1>9, <1>10, <1>11

LEMMA StreamArrive ==
  ASSUME Streaming, NEW j, Arrive(j)
  PROVE  Streaming'
<1>1. PICK batch, b, n, w, k, m :
        Sending(batch, b, n, w) /\ Reading(batch, b, n, k, m) /\ Told(w, k)
  BY DEF Streaming
<1>2. /\ status = "waiting" /\ j \in 1 .. Len(wire)
      /\ read' = read \o SubSeq(wire, 1, j) /\ wire' = SubSeq(wire, j + 1, Len(wire))
      /\ total_read' = total_read + j
      /\ status' = IF total_read + j >= required THEN "ready" ELSE "waiting"
      /\ UNCHANGED <<protocol, sender, sent, torn, required, packets, delivered>>
  BY DEF Arrive, sending
<1>3. Whole(batch, b) /\ Position(batch, b, k, m) /\ Cut(batch, b, n, w)
  BY <1>1 DEF Sending, Reading
<1>4. PICK B, x : B = b.bytes /\ x = Start(b, k)
  OBVIOUS
<1>5. /\ B \in Seq(Byte) /\ m \in Nat /\ n \in Nat /\ m <= n /\ n <= Len(B)
      /\ wire = SubSeq(B, m + 1, n) /\ x \in Nat /\ x <= m /\ Len(B) \in Nat
      /\ k \in 0 .. Len(batch)
  BY <1>1, <1>3, <1>4, WholeShape DEF Reading, Position, Cut
<1>6. Len(wire) = n - m
  BY <1>5, PartOfPart
<1>7. PICK y \in Nat : y = m + j
  BY <1>2, <1>5, <1>6
<1>8. m <= y /\ y <= n /\ j = y - m /\ x <= y
  BY <1>2, <1>5, <1>6, <1>7
<1>9. SubSeq(wire, 1, y - m) = SubSeq(B, m + 1, y) /\ wire' = SubSeq(B, y + 1, n)
  BY <1>2, <1>5, <1>6, <1>8, PartOfPart
<1>10. read = SubSeq(B, x + 1, m)
  BY <1>1, <1>2, <1>4 DEF Reading, Rest
<1>11. read' = SubSeq(B, x + 1, y) /\ read' \in Seq(Byte)
  <2>1. y <= Len(B)
    BY <1>5, <1>8
  <2>2. SubSeq(B, x + 1, m) \o SubSeq(B, m + 1, y) = SubSeq(B, x + 1, y)
    BY <1>5, <1>8, <2>1, PartOfPart
  <2>3. SubSeq(B, x + 1, y) \in Seq(Byte)
    BY <1>5, <1>8, <2>1, PartOfPart
  <2> QED BY <1>2, <1>8, <1>9, <1>10, <2>2, <2>3
<1>12. Position(batch, b, k, y)
  BY <1>4, <1>5, <1>8 DEF Position
<1>13. /\ required \in Nat /\ total_read \in Nat /\ Holds(batch, delivered, packets, k)
       /\ k < Len(batch) => m + (required - total_read) <= Start(b, k + 1)
  BY <1>1, <1>2 DEF Reading
<1>14. total_read' \in Nat
  BY <1>2, <1>13
<1>15. ASSUME status' = "waiting", k < Len(batch)
       PROVE  total_read' < required' /\ y + (required' - total_read') <= Start(b, k + 1)
  <2>1. ~(total_read + j >= required) /\ j \in Nat
    BY <1>2, <1>15
  <2>2. y + (required - (total_read + j)) = m + (required - total_read)
    BY <1>5, <1>7, <1>13, <2>1
  <2> QED BY <1>2, <1>13, <1>15, <2>1, <2>2
<1>16. Sending(batch, b, n, w)'
  BY <1>1, <1>2 DEF Sending, Whole
<1>17. read' = Rest(b, k, y)
  BY <1>4, <1>11 DEF Rest
<1>18. Reading(batch, b, n, k, y)'
  BY <1>2, <1>4, <1>8, <1>9, <1>11, <1>12, <1>13, <1>14, <1>15, <1>17 DEF Reading
<1>19. Told(w, k)'
  BY <1>2 DEF Told
<1> QED BY <1>16, <1>18, <1>19 DEF Streaming

LEMMA StreamEof ==
  ASSUME Streaming, Eof
  PROVE  Streaming'
<1>1. PICK batch, b, n, w, k, m :
        Sending(batch, b, n, w) /\ Reading(batch, b, n, k, m) /\ Told(w, k)
  BY DEF Streaming
<1>2. /\ status = "waiting" /\ wire = <<>> /\ sender # "up"
      /\ status' = IF read = <<>> THEN "aborted" ELSE "reset"
      /\ UNCHANGED <<protocol, sender, sent, torn, wire, read, required, total_read, packets,
                     delivered>>
  BY DEF Eof, sending, reading
<1>3. k = w /\ (read = <<>> <=> ~torn)
  BY <1>1, <1>2, AllRead
<1>4. Sending(batch, b, n, w)'
  BY <1>1, <1>2 DEF Sending, Whole
<1>5. Reading(batch, b, n, k, m)'
  BY <1>1, <1>2 DEF Reading
<1>6. Told(w, k)'
  BY <1>2, <1>3 DEF Told
<1> QED BY <1>4, <1>5, <1>6 DEF Streaming

\* Steps that leave the stream alone.
LEMMA StreamSame ==
  ASSUME Streaming,
         UNCHANGED <<protocol, sender, sent, torn, wire, read, required, total_read, packets,
                     delivered>>,
         status' = status \/ (status # "error" /\ status # "panicked"
                              /\ status' \in {"ready", "keepalive"})
  PROVE  Streaming'
<1>1. PICK batch, b, n, w, k, m :
        Sending(batch, b, n, w) /\ Reading(batch, b, n, k, m) /\ Told(w, k)
  BY DEF Streaming
<1>2. Sending(batch, b, n, w)'
  BY <1>1 DEF Sending, Whole
<1>3. Reading(batch, b, n, k, m)'
  BY <1>1 DEF Reading
<1>4. Told(w, k)'
  BY <1>1 DEF Told
<1> QED BY <1>2, <1>3, <1>4 DEF Streaming

LEMMA StreamTake ==
  ASSUME Streaming, Take
  PROVE  Streaming'
<1>1. PICK batch, b, n, w, k, m :
        Sending(batch, b, n, w) /\ Reading(batch, b, n, k, m) /\ Told(w, k)
  BY DEF Streaming
<1>2. /\ delivered' = delivered \o packets /\ packets' = <<>>
      /\ UNCHANGED <<protocol, sender, sent, torn, wire, read, required, total_read, status>>
  BY DEF Take, sending, reading
<1>3. Holds(batch, delivered', packets', k)
  <2>1. PICK S : S = SeenSet(batch)
    OBVIOUS
  <2>2. delivered \in Seq(S) /\ packets \in Seq(S)
    BY <1>1, <2>1 DEF Reading, Holds
  <2>3. delivered \o packets \in Seq(S) /\ (delivered \o packets) \o <<>> = delivered \o packets
    BY <2>2
  <2> QED BY <1>1, <1>2, <2>1, <2>3 DEF Reading, Holds
<1>4. Sending(batch, b, n, w)'
  BY <1>1, <1>2 DEF Sending, Whole
<1>5. Reading(batch, b, n, k, m)'
  BY <1>1, <1>2, <1>3 DEF Reading
<1>6. Told(w, k)'
  BY <1>1, <1>2 DEF Told
<1> QED BY <1>4, <1>5, <1>6 DEF Streaming

\* What write_all puts out of a buffer holds the packets whose frames end in it.
LEMMA FlushCuts ==
  ASSUME NEW batch, NEW b, Whole(batch, b), NEW n, NEW w, Cut(batch, b, n, w)
  PROVE  /\ Cardinality({i \in DOMAIN batch : b.ends[i] <= n}) = w
         /\ (n # 0 /\ n \notin ToSet(b.ends)) <=> n # Start(b, w)
         /\ n = Len(b.bytes) => w = Len(batch)
<1>1. PICK e \in Nat : e = Len(batch)
  BY WholeShape
<1>2. DOMAIN batch = 1 .. e
  BY <1>1 DEF Whole
<1>3. /\ w \in 0 .. e /\ n \in Nat /\ n <= Len(b.bytes) /\ Len(b.bytes) \in Nat /\ Start(b, w) <= n
      /\ w < e => n < Start(b, w + 1)
      /\ \A j \in 0 .. e : Start(b, j) \in Nat
      /\ Start(b, e) = Len(b.bytes) /\ Start(b, 0) = 0
  BY <1>1, WholeShape DEF Cut
<1>4. \A i \in 1 .. e : Start(b, i) = b.ends[i]
  BY DEF Start
<1>5. ASSUME NEW i \in 0 .. e PROVE Start(b, i) <= n <=> i <= w
  <2>1. CASE i = w
    BY <1>3, <2>1
  <2>2. CASE i < w
    <3>1. Start(b, i) < Start(b, w)
      BY <1>1, <1>3, <2>2, WholeShape
    <3> QED BY <1>3, <2>2, <3>1
  <2>3. CASE w < i
    <3>1. ~(i <= w) /\ i \in 0 .. Len(batch)
      BY <1>1, <1>3, <2>3
    <3>2. ~(Start(b, i) <= n)
      BY <3>1, NotAhead
    <3> QED BY <3>1, <3>2
  <2> QED BY <1>3, <2>1, <2>2, <2>3
<1>6. {i \in DOMAIN batch : b.ends[i] <= n} = 1 .. w
  <2>1. ASSUME NEW i \in 1 .. e PROVE b.ends[i] <= n <=> i <= w
    <3>1. i \in 0 .. e
      OBVIOUS
    <3> QED BY <1>4, <1>5, <3>1
  <2> QED BY <1>2, <1>3, <2>1
<1>7. Cardinality(1 .. w) = w
  <2>1. w \in Int /\ 1 \in Int /\ (1 > w <=> w = 0) /\ w - 1 + 1 = w
    BY <1>3
  <2> QED BY <2>1, FS_Interval
<1>8. ToSet(b.ends) = {b.ends[i] : i \in 1 .. e}
  <2>1. b.ends \in Seq(Nat) /\ Len(b.ends) = e
    BY <1>1 DEF Whole, Buffered
  <2> QED BY <2>1 DEF ToSet
<1>9. n # 0 /\ n \notin ToSet(b.ends) <=> n # Start(b, w)
  <2>1. ASSUME n = Start(b, w) PROVE n = 0 \/ n \in ToSet(b.ends)
    <3>1. CASE w = 0
      BY <1>3, <2>1, <3>1
    <3>2. CASE w # 0
      <4>1. w \in 1 .. e
        BY <1>3, <3>2
      <4> QED BY <1>4, <1>8, <2>1, <4>1
    <3> QED BY <3>1, <3>2
  <2>2. ASSUME n = 0 PROVE n = Start(b, w)
    <3>1. Start(b, w) \in Nat /\ Start(b, w) <= 0
      BY <1>3, <2>2
    <3> QED BY <2>2, <3>1
  <2>3. ASSUME n \in ToSet(b.ends) PROVE n = Start(b, w)
    <3>1. PICK i \in 1 .. e : n = Start(b, i)
      BY <1>4, <1>8, <2>3
    <3>2. i \in 0 .. e /\ i <= w
      <4>1. i \in 0 .. e /\ Start(b, i) <= n
        BY <1>3, <3>1
      <4> QED BY <1>5, <4>1
    <3>3. ~(i < w)
      <4>1. SUFFICES ASSUME i < w PROVE FALSE
        OBVIOUS
      <4>2. Start(b, i) < Start(b, w)
        BY <1>1, <1>3, <3>2, <4>1, WholeShape
      <4> QED BY <1>3, <3>1, <3>2, <4>2
    <3>4. i = w
      BY <1>3, <3>2, <3>3
    <3> QED BY <3>1, <3>4
  <2> QED BY <2>1, <2>2, <2>3
<1>10. n = Len(b.bytes) => w = e
  <2>1. SUFFICES ASSUME n = Len(b.bytes) PROVE w = e
    OBVIOUS
  <2>2. e \in 0 .. e /\ Start(b, e) <= n
    BY <1>1, <1>3, <2>1
  <2>3. e <= w
    BY <1>5, <2>2
  <2> QED BY <1>3, <2>3
<1> QED BY <1>1, <1>6, <1>7, <1>9, <1>10

\* The first frame holds at least the two bytes the reader asks for.
LEMMA FirstFrame ==
  ASSUME NEW batch, NEW b, Whole(batch, b), 0 < Len(batch)
  PROVE  2 <= Start(b, 1)
<1>1. 1 \in 1 .. Len(batch) /\ 1 - 1 = 0 /\ 1 \in 0 .. Len(batch)
  BY WholeShape
<1>2. PICK f : f = FrameIn(b, 1)
  OBVIOUS
<1>3. FrameOf(protocol, batch[1], f)
  BY <1>1, <1>2 DEF Whole, Buffered
<1>4. Len(f) >= 2
  BY <1>3, FrameHeader
<1>5. PICK B, x : B = b.bytes /\ x = Start(b, 1)
  OBVIOUS
<1>6. B \in Seq(Byte) /\ x \in Nat /\ x <= Len(B)
  BY <1>1, <1>5, WholeShape
<1>7. f = SubSeq(B, 1, x)
  BY <1>1, <1>2, <1>5, WholeShape DEF FrameIn
<1>8. Len(f) = x
  BY <1>6, <1>7
<1> QED BY <1>4, <1>5, <1>8

LEMMA IdleWrite ==
  ASSUME CodecsAgree, protocol \in DOMAIN Batches, Idle,
         NEW batch \in Batches[protocol], Writev(batch)
  PROVE  protocol' = protocol /\ (Idle' \/ Streaming')
<1>1. PICK b : b = PutAll(batch)
  OBVIOUS
<1>2. /\ sender = "up" /\ Flushed(batch, b)
      /\ UNCHANGED <<protocol, read, required, total_read, status, packets, delivered>>
  BY <1>1 DEF Writev, reading
<1>3. CASE b.err # "ok"
  <2>1. sender' \in {"panicked", "failed"} /\ UNCHANGED <<sent, torn, wire>>
    BY <1>2, <1>3 DEF Flushed
  <2> QED BY <1>2, <2>1 DEF Idle
<1>4. CASE b.err = "ok"
  <2>1. batch \in Seq(ToSet(batch)) /\ batch # <<>>
    BY BatchesAssumption
  <2>2. PICK e \in Nat : e = Len(batch) /\ e > 0
    BY <2>1
  <2>3. Whole(batch, b)
    BY <1>1, <1>4, <2>1, PutAllBuffers DEF Whole
  <2>4. PICK n : /\ n \in {Len(b.bytes), b.ends[1], Len(b.bytes) \div 2}
                 /\ Flush(batch, b, n)
    BY <1>2, <1>4 DEF Flushed
  <2>5. PICK B : B = b.bytes
    OBVIOUS
  <2>6. B \in Seq(Byte) /\ Len(B) \in Nat /\ Start(b, 0) = 0
    BY <2>3, <2>5, WholeShape
  <2>7. n \in 0 .. Len(B)
    <3>1. Start(b, 1) \in 0 .. Len(B) /\ b.ends[1] = Start(b, 1)
      <4>1. 1 \in 0 .. Len(batch)
        BY <2>2
      <4> QED BY <2>3, <2>5, <4>1, WholeShape DEF Start
    <3>2. PICK len \in Nat : len = Len(B)
      BY <2>6
    <3>3. len \in 0 .. len /\ len \div 2 \in 0 .. len
      OBVIOUS
    <3>4. n = len \/ n = Start(b, 1) \/ n = len \div 2
      BY <2>4, <2>5, <3>1, <3>2
    <3> QED BY ONLY <3>1, <3>2, <3>3, <3>4
  <2>8. PICK w : Cut(batch, b, n, w)
    BY <2>3, <2>5, <2>7, CutThere
  <2>9. /\ wire' = wire \o SubSeq(B, 1, n) /\ sent' = SubSeq(batch, 1, w)
        /\ torn' <=> n # Start(b, w)
        /\ sender' = "up" => w > 0
    <3>1. /\ Cardinality({i \in DOMAIN batch : b.ends[i] <= n}) = w
          /\ (n # 0 /\ n \notin ToSet(b.ends)) <=> n # Start(b, w)
          /\ n = Len(B) => w = e
      BY <2>2, <2>3, <2>5, <2>8, FlushCuts
    <3>2. /\ wire' = wire \o SubSeq(B, 1, n)
          /\ sent' = SubSeq(batch, 1, Cardinality({i \in DOMAIN batch : b.ends[i] <= n}))
          /\ torn' = (n # 0 /\ n \notin ToSet(b.ends))
          /\ sender' = IF n = Len(B) THEN sender ELSE "failed"
      BY <2>4, <2>5 DEF Flush
    <3> QED BY <1>2, <2>2, <3>1, <3>2
  <2>10. wire' = SubSeq(B, 0 + 1, n)
    <3>1. wire = <<>>
      BY DEF Idle
    <3>2. SubSeq(B, 1, n) \in Seq(Byte)
      BY <2>6, <2>7
    <3> QED BY <2>9, <3>1, <3>2
  <2>11. Sending(batch, b, n, w)'
    BY <1>2, <2>3, <2>8, <2>9 DEF Sending, Whole
  <2>12. Position(batch, b, 0, 0)
    BY <2>2, <2>5, <2>6 DEF Position
  <2>13. Rest(b, 0, 0) = <<>>
    BY <2>5, <2>6 DEF Rest
  <2>14. Holds(batch, <<>>, <<>>, 0)
    <3>1. 0 \in 0 .. Len(batch)
      BY <2>2
    <3>2. SeenPart(batch, 0) \in Seq(SeenSet(batch)) /\ Len(SeenPart(batch, 0)) = 0
      BY <2>1, <3>1, SeenPartIs
    <3>3. SeenPart(batch, 0) = <<>>
      BY <3>2
    <3> QED BY <3>1, <3>3 DEF Holds
  <2>15. /\ read' = <<>> /\ packets' = <<>> /\ delivered' = <<>>
         /\ required' \in Nat /\ total_read' \in Nat /\ status' \notin {"aborted", "reset"}
         /\ status' = "waiting" => required' = 2 /\ total_read' = 0
    BY <1>2 DEF Idle
  <2>16. status' = "waiting" /\ 0 < Len(batch) =>
           total_read' < required' /\ 0 + (required' - total_read') <= Start(b, 0 + 1)
    <3>1. 2 <= Start(b, 0 + 1)
      BY <2>2, <2>3, FirstFrame
    <3> QED BY <2>15, <3>1
  <2>17. Reading(batch, b, n, 0, 0)'
    <3>1. 0 <= n /\ <<>> \in Seq(Byte)
      BY <2>7
    <3> QED BY <2>5, <2>10, <2>12, <2>13, <2>14, <2>15, <2>16, <3>1 DEF Reading
  <2>18. Told(w, 0)'
    BY <2>15 DEF Told
  <2> QED BY <1>2, <2>11, <2>17, <2>18 DEF Streaming
<1> QED BY <1>3, <1>4

LEMMA IdleRead ==
  ASSUME Idle, Read
  PROVE  Idle'
<1>1. PICK r : r = ReadMut(read)
  OBVIOUS
<1>2. r = [got |-> Short(2), stream |-> <<>>]
  BY <1>1, ReadNone DEF Idle
<1>3. Outcome(r) /\ UNCHANGED <<sender, sent, torn, wire, delivered>>
  BY <1>1 DEF Read, sending
<1>4. r.got.err = "InsufficientBytes" /\ r.got.need = 2 /\ r.stream = <<>>
  BY <1>2 DEF Short
<1>5. /\ read' = <<>> /\ required' = 2 /\ total_read' = 0 /\ status' = "waiting"
      /\ packets' = packets
  BY <1>3, <1>4 DEF Outcome
<1> QED BY <1>3, <1>5 DEF Idle

LEMMA IdleStep ==
  ASSUME Idle, Close \/ (\E n : Arrive(n)) \/ Eof \/ Cancel \/ TimeOut \/ Tick \/ Notify \/ Take
  PROVE  Idle'
<1>1. CASE Close
  BY <1>1 DEF Close, Idle, reading
<1>2. ASSUME NEW n, Arrive(n) PROVE FALSE
  <2>1. n \in 1 .. Len(wire) /\ Len(wire) = 0
    BY <1>2 DEF Arrive, Idle
  <2> QED BY <2>1
<1>3. CASE Eof
  BY <1>3 DEF Eof, Idle, sending, reading
<1>4. CASE Cancel
  BY <1>4 DEF Cancel, Idle, sending, reading
<1>5. CASE TimeOut
  BY <1>5 DEF TimeOut, Idle, sending, reading
<1>6. CASE Tick
  BY <1>6 DEF Tick, Idle, sending
<1>7. CASE Notify
  BY <1>7 DEF Notify, Idle
<1>8. CASE Take
  <2>1. /\ UNCHANGED <<sender, sent, torn, wire, read, required, total_read, status>>
        /\ packets' = <<>> /\ delivered' = delivered \o packets
    BY <1>8 DEF Take, sending, reading
  <2>2. delivered' = <<>>
    BY <2>1 DEF Idle
  <2> QED BY <2>1, <2>2 DEF Idle
<1> QED BY <1>1, <1>2, <1>3, <1>4, <1>5, <1>6, <1>7, <1>8

LEMMA FramedInit == Init => Framed
BY DEF Init, Framed, Idle

\* A batch is written once.
LEMMA StreamWrite ==
  ASSUME Streaming, NEW batch, Writev(batch)
  PROVE  FALSE
<1>1. sender = "up" /\ sent = <<>>
  BY DEF Writev
<1>2. PICK d, b, n, w : Sending(d, b, n, w)
  BY DEF Streaming
<1>3. sent = SubSeq(d, 1, w) /\ w > 0 /\ w \in 0 .. Len(d) /\ d \in Seq(ToSet(d))
  BY <1>1, <1>2 DEF Sending, Whole, Cut
<1>4. Len(sent) = w
  BY <1>3
<1> QED BY <1>1, <1>3, <1>4

LEMMA FramedNext ==
  ASSUME CodecsAgree, Awake, Framed, [Next]_vars
  PROVE  Framed'
<1>0. protocol' = protocol
  BY DEF Next, vars, sending, Writev, Close, Read, Arrive, Eof, Cancel, TimeOut, Tick, Notify, Take
<1>1. CASE Idle
  <2>1. ASSUME NEW batch \in Batches[protocol], Writev(batch) PROVE Idle' \/ Streaming'
    BY <1>1, <2>1, IdleWrite DEF Framed
  <2>2. ASSUME Read PROVE Idle'
    BY <1>1, <2>2, IdleRead
  <2>3. ASSUME Close \/ (\E n : Arrive(n)) \/ Eof \/ Cancel \/ TimeOut \/ Tick \/ Notify \/ Take PROVE Idle'
    BY <1>1, <2>3, IdleStep
  <2>4. ASSUME UNCHANGED vars PROVE Idle'
    BY <1>1, <2>4 DEF vars, sending, reading, Idle
  <2> QED BY <1>0, <2>1, <2>2, <2>3, <2>4 DEF Next, Framed
<1>2. CASE Streaming
  <2>1. ASSUME NEW batch \in Batches[protocol], Writev(batch) PROVE Streaming'
    BY <1>2, <2>1, StreamWrite
  <2>2. ASSUME Close PROVE Streaming'
    BY <1>2, <2>2, StreamClose
  <2>3. ASSUME Read PROVE Streaming'
    BY <1>2, <2>3, StreamRead
  <2>4. ASSUME NEW n, Arrive(n) PROVE Streaming'
    BY <1>2, <2>4, StreamArrive
  <2>5. ASSUME Eof PROVE Streaming'
    BY <1>2, <2>5, StreamEof
  <2>6. ASSUME Cancel \/ TimeOut \/ Tick \/ Notify \/ UNCHANGED vars PROVE Streaming'
    <3>1. UNCHANGED <<protocol, sender, sent, torn, wire, read, required, total_read, packets,
                      delivered>>
      BY <2>6 DEF Cancel, TimeOut, Tick, Notify, vars, sending, reading
    <3>2. status' = status \/ (status # "error" /\ status # "panicked"
                               /\ status' \in {"ready", "keepalive"})
      BY <2>6 DEF Cancel, TimeOut, Tick, Notify, vars
    <3> QED BY <1>2, <3>1, <3>2, StreamSame
  <2>7. ASSUME Take PROVE Streaming'
    BY <1>2, <2>7, StreamTake
  <2> QED BY <1>0, <2>1, <2>2, <2>3, <2>4, <2>5, <2>6, <2>7 DEF Next, Framed
<1> QED BY <1>1, <1>2 DEF Framed

\* Every state is one of a stream of frames, or of one that has not begun.  The
\* hypothesis is about the codecs alone: what they write they can read.
THEOREM FramedAlways ==
  ASSUME CodecsAgree
  PROVE  Spec => []Framed
<1>1. Init => Framed
  BY FramedInit
<1>2. Awake /\ Framed /\ [Next]_vars => Framed'
  BY FramedNext
<1>3. Spec => []Awake
  BY AwakeAlways
<1> QED BY <1>1, <1>2, <1>3, PTL DEF Spec

\* What the states of a stream have in common.
LEMMA StreamPlace ==
  ASSUME NEW batch, NEW b, NEW n, NEW w, NEW k, NEW m,
         Sending(batch, b, n, w), Reading(batch, b, n, k, m)
  PROVE  /\ batch \in Seq(ToSet(batch)) /\ k \in 0 .. Len(batch) /\ w \in 0 .. Len(batch) /\ k <= w
         /\ Incoming = SeenPart(batch, k) /\ SeenAll(sent) = SeenPart(batch, w)
<1>1. Whole(batch, b) /\ Cut(batch, b, n, w) /\ Position(batch, b, k, m) /\ m <= n
  BY DEF Sending, Reading
<1>2. k \in 0 .. Len(batch) /\ Start(b, k) <= n
  <2>1. Start(b, k) \in Nat /\ m \in Nat /\ n \in Nat /\ Start(b, k) <= m /\ k \in 0 .. Len(batch)
    BY <1>1, WholeShape DEF Position, Cut
  <2> QED BY <1>1, <2>1
<1>3. k <= w
  BY <1>1, <1>2, NotAhead
<1>4. Incoming = SeenPart(batch, k)
  BY DEF Incoming, Reading, Holds
<1>5. SeenAll(sent) = SeenPart(batch, w)
  BY DEF Sending, SeenPart
<1> QED BY <1>1, <1>2, <1>3, <1>4, <1>5 DEF Whole, Cut

LEMMA SeenPrefix ==
  ASSUME NEW batch, batch \in Seq(ToSet(batch)),
         NEW w \in 0 .. Len(batch), NEW k \in 0 .. Len(batch), k <= w
  PROVE  IsPrefix(SeenPart(batch, k), SeenPart(batch, w))
<1>1. PICK s, t, S : s = SeenPart(batch, k) /\ t = SeenPart(batch, w) /\ S = SeenSet(batch)
  OBVIOUS
<1>2. /\ s = [i \in 1 .. k |-> Seen(batch[i])] /\ s \in Seq(S) /\ Len(s) = k
      /\ t = [i \in 1 .. w |-> Seen(batch[i])] /\ t \in Seq(S) /\ Len(t) = w
  BY <1>1, SeenPartIs
<1>3. \A i \in 1 .. k : s[i] = t[i]
  BY <1>2
<1>4. SubSeq(s, 1, k) = SubSeq(t, 1, k)
  BY ONLY <1>2, <1>3, k \in Nat, w \in Nat, k <= w
<1> QED BY <1>1, <1>2, <1>4 DEF IsPrefix

LEMMA FramedInOrder == Framed => InOrder
<1>1. CASE Idle
  <2>1. Incoming = <<>> /\ sent = <<>>
    BY <1>1 DEF Idle, Incoming
  <2>2. SeenAll(sent) = <<>>
    BY <2>1 DEF SeenAll
  <2>3. IsPrefix(<<>>, <<>>)
    BY DEF IsPrefix
  <2> QED BY <2>1, <2>2, <2>3 DEF InOrder
<1>2. CASE Streaming
  <2>1. PICK batch, b, n, w, k, m : Sending(batch, b, n, w) /\ Reading(batch, b, n, k, m)
    BY <1>2 DEF Streaming
  <2> QED BY <2>1, StreamPlace, SeenPrefix DEF InOrder
<1> QED BY <1>1, <1>2 DEF Framed

\* Packets reach the router whole, in the order written, none lost in between
\* and none twice, whatever chunks the socket yields and however often the
\* pending read is dropped.
THEOREM InOrderAlways ==
  ASSUME CodecsAgree
  PROVE  Spec => []InOrder
BY FramedAlways, FramedInOrder, PTL

LEMMA NothingLeft == Awake /\ Framed => NothingLeftBehind
<1> SUFFICES ASSUME Awake, Framed PROVE NothingLeftBehind
  OBVIOUS
<1>1. packets # <<>> => pending > 0 \/ status \in {"notify", "error", "panicked"}
  BY DEF Awake, Announced, Ending
<1>2. ASSUME status = "waiting", wire = <<>>
      PROVE  Incoming = SeenAll(sent) /\ (read = <<>> \/ torn)
  <2>1. CASE Idle
    <3>1. Incoming = <<>> /\ sent = <<>> /\ read = <<>>
      BY <2>1 DEF Idle, Incoming
    <3>2. SeenAll(sent) = <<>>
      BY <3>1 DEF SeenAll
    <3> QED BY <3>1, <3>2
  <2>2. CASE Streaming
    <3>1. PICK batch, b, n, w, k, m : Sending(batch, b, n, w) /\ Reading(batch, b, n, k, m)
      BY <2>2 DEF Streaming
    <3>2. k = w /\ (read = <<>> <=> ~torn)
      BY <1>2, <3>1, AllRead
    <3> QED BY <3>1, <3>2, StreamPlace
  <2> QED BY <2>1, <2>2 DEF Framed
<1> QED BY <1>1, <1>2 DEF NothingLeftBehind

\* A reader that waits with nothing in flight has left no packet behind, in its
\* stream or in the link's buffer.
THEOREM NothingLeftBehindAlways ==
  ASSUME CodecsAgree
  PROVE  Spec => []NothingLeftBehind
BY AwakeAlways, FramedAlways, NothingLeft, PTL

LEMMA FramedEnd == Framed => EndToldRight
<1> SUFFICES ASSUME Framed, status \in {"aborted", "reset"}
             PROVE  Incoming = SeenAll(sent) /\ (torn <=> status = "reset")
  BY DEF EndToldRight
<1>1. CASE Idle
  <2>1. Incoming = <<>> /\ sent = <<>> /\ torn = FALSE /\ status = "aborted"
    BY <1>1 DEF Idle, Incoming
  <2>2. SeenAll(sent) = <<>>
    BY <2>1 DEF SeenAll
  <2> QED BY <2>1, <2>2
<1>2. CASE Streaming
  <2>1. PICK batch, b, n, w, k, m :
          Sending(batch, b, n, w) /\ Reading(batch, b, n, k, m) /\ Told(w, k)
    BY <1>2 DEF Streaming
  <2>2. k = w /\ (torn <=> status = "reset")
    BY <2>1 DEF Told
  <2> QED BY <2>1, <2>2, StreamPlace
<1> QED BY <1>1, <1>2 DEF Framed

\* The end of a connection is told right: all that arrived whole was read, and
\* "reset by peer" means that a packet was cut.
THEOREM EndToldRightAlways ==
  ASSUME CodecsAgree
  PROVE  Spec => []EndToldRight
BY FramedAlways, FramedEnd, PTL

LEMMA BytesAreBytes ==
  ASSUME NEW s \in Seq(Byte)
  PROVE  Protocol!IsBytes(s)
<1>1. \A x \in Protocol!ToSet(s) : x \in Byte
  BY DEF Protocol!ToSet
<1> QED BY <1>1 DEF Protocol!IsBytes, Protocol!U8Range, Byte

LEMMA FramedTypes == Awake /\ Framed => TypeOK
<1> SUFFICES ASSUME Awake, Framed PROVE TypeOK
  OBVIOUS
<1>1. /\ wire \in Seq(Byte) /\ read \in Seq(Byte)
      /\ \A i \in DOMAIN packets : Protocol!IsPacket(packets[i])
  <2>1. CASE Idle
    <3>1. wire = <<>> /\ read = <<>> /\ packets = <<>>
      BY <2>1 DEF Idle
    <3>2. <<>> \in Seq(Byte) /\ DOMAIN packets = {}
      BY <3>1
    <3> QED BY <3>1, <3>2
  <2>2. CASE Streaming
    <3>1. PICK batch, b, n, w, k, m : Sending(batch, b, n, w) /\ Reading(batch, b, n, k, m)
      BY <2>2 DEF Streaming
    <3>2. Whole(batch, b) /\ Cut(batch, b, n, w) /\ Position(batch, b, k, m)
      BY <3>1 DEF Sending, Reading
    <3>3. /\ b.bytes \in Seq(Byte) /\ m \in Nat /\ n \in Nat /\ m <= n /\ n <= Len(b.bytes)
          /\ wire = SubSeq(b.bytes, m + 1, n) /\ read \in Seq(Byte)
      BY <3>1, <3>2, WholeShape DEF Reading, Position, Cut
    <3>4. wire \in Seq(Byte)
      BY <3>3, PartOfPart
    <3>5. ASSUME NEW i \in DOMAIN packets PROVE Protocol!IsPacket(packets[i])
      <4>1. packets[i] \in SeenSet(batch)
        BY <3>1 DEF Reading, Holds
      <4>2. PICK j \in 1 .. Len(batch) : packets[i] = Seen(batch[j])
        BY <3>2, <4>1 DEF SeenSet, Whole
      <4> QED BY <3>2, <4>2 DEF Whole, Buffered
    <3> QED BY <3>3, <3>4, <3>5
  <2> QED BY <2>1, <2>2 DEF Framed
<1>2. Protocol!IsBytes(wire) /\ Protocol!IsBytes(read)
  BY <1>1, BytesAreBytes
<1> QED BY <1>1, <1>2 DEF TypeOK, Awake, Counters, Ending

\* Type correctness: bytes are in flight, and whole packets in the buffer.
THEOREM TypeCorrect ==
  ASSUME CodecsAgree
  PROVE  Spec => []TypeOK
BY AwakeAlways, FramedAlways, FramedTypes, PTL

\* A keep alive timeout only ends a connection that has been silent for as long.
\* Nothing is asked of the codecs here.
THEOREM KeepAliveNotEarlyAlways == Spec => []KeepAliveNotEarly
<1>1. Awake => KeepAliveNotEarly
  BY DEF Awake, Timed
<1> QED BY <1>1, AwakeAlways, PTL

------------------------------------------------------------------------------
\* What the codecs read back.  First a variable-length integer, up to the
\* longest body a frame can announce.
Longest == 268435455

LEMMA LenLenIs ==
  ASSUME NEW n \in Nat
  PROVE  /\ LenLen(n) \in 1 .. 4
         /\ LenLen(n) = 1 <=> n < 128
         /\ LenLen(n) = 2 <=> 128 <= n /\ n < 16384
         /\ LenLen(n) = 3 <=> 16384 <= n /\ n < 2097152
         /\ LenLen(n) = 4 <=> 2097152 <= n
BY SMT DEF LenLen

LEMMA Digits ==
  ASSUME NEW n \in Nat, n <= Longest
  PROVE  /\ n = (n % 128) + 128 * (n \div 128)
         /\ n \div 128 = ((n \div 128) % 128) + 128 * (n \div 16384)
         /\ n \div 16384 = ((n \div 16384) % 128) + 128 * (n \div 2097152)
         /\ (n \div 2097152) % 128 = n \div 2097152
         /\ n \div 128 \in Nat /\ n \div 16384 \in Nat /\ n \div 2097152 \in Nat
BY SMT DEF Longest

LEMMA HighBit ==
  ASSUME NEW x \in 0 .. 127
  PROVE  /\ x % 128 = x /\ (x + 128) % 128 = x /\ x + 0 = x
         /\ x \in 0 .. 255 /\ x + 128 \in 0 .. 255 /\ x < 128 /\ x + 128 >= 128
OBVIOUS

\* A number written with k digits: bytes, all but the last with the high bit.
Written(k, d) == [i \in 1 .. k |-> d[i] + (IF i < k THEN 128 ELSE 0)]

LEMMA DigitBytes ==
  ASSUME NEW k \in 1 .. 4, NEW d \in [1 .. 4 -> 0 .. 127]
  PROVE  /\ Written(k, d) \in Seq(Byte) /\ Len(Written(k, d)) = k
         /\ Written(k, d)[k] < 128 /\ \A i \in 1 .. k - 1 : Written(k, d)[i] >= 128
         /\ \A i \in 1 .. k : Written(k, d)[i] % 128 = d[i]
<1> DEFINE v == Written(k, d)
<1>0. v = [i \in 1 .. k |-> d[i] + (IF i < k THEN 128 ELSE 0)]
  BY DEF Written
<1> HIDE DEF v
<1>1. ASSUME NEW i \in 1 .. k
      PROVE  /\ v[i] \in 0 .. 255 /\ v[i] % 128 = d[i]
             /\ i < k => v[i] >= 128
             /\ i = k => v[i] < 128
  <2>1. i \in 1 .. 4 /\ v[i] = d[i] + (IF i < k THEN 128 ELSE 0)
    BY <1>0
  <2>2. PICK x \in 0 .. 127 : x = d[i]
    BY <2>1
  <2>3. v[i] = IF i < k THEN x + 128 ELSE x + 0
    BY <2>1, <2>2
  <2>4. \/ i < k /\ v[i] = x + 128
        \/ i = k /\ v[i] = x
    BY <2>1, <2>3, HighBit
  <2>5. /\ x % 128 = x /\ (x + 128) % 128 = x /\ x \in 0 .. 255 /\ x + 128 \in 0 .. 255
        /\ x < 128 /\ x + 128 >= 128
    BY HighBit
  <2>6. CASE i < k /\ v[i] = x + 128
    <3>1. i # k
      BY <2>6
    <3> QED BY <2>2, <2>5, <2>6, <3>1
  <2>7. CASE i = k /\ v[i] = x
    <3>1. ~(i < k)
      BY <2>7
    <3> QED BY <2>2, <2>5, <2>7, <3>1
  <2> QED BY <2>4, <2>6, <2>7
<1>2. v \in [1 .. k -> Byte]
  <2>1. \A i \in 1 .. k : v[i] \in Byte
    BY <1>1 DEF Byte
  <2>2. DOMAIN v = 1 .. k /\ v = [i \in 1 .. k |-> v[i]]
    BY <1>0
  <2> QED BY <2>1, <2>2
<1>3. v \in Seq(Byte) /\ Len(v) = k
  <2>1. k \in Nat
    OBVIOUS
  <2>2. v \in Seq(Byte)
    BY <1>2, <2>1, SeqDef
  <2>3. DOMAIN v = 1 .. k
    BY <1>2
  <2> QED BY <2>1, <2>2, <2>3
<1>4. v[k] < 128 /\ \A i \in 1 .. k - 1 : v[i] >= 128
  <2>1. k \in 1 .. k /\ ~(k < k)
    OBVIOUS
  <2>2. v[k] < 128
    BY <1>1, <2>1
  <2>3. ASSUME NEW i \in 1 .. k - 1 PROVE v[i] >= 128
    <3>1. i \in 1 .. k /\ i < k
      OBVIOUS
    <3> QED BY <1>1, <3>1
  <2> QED BY <2>2, <2>3
<1>5. \A i \in 1 .. k : v[i] % 128 = d[i]
  BY <1>1
<1> QED BY <1>3, <1>4, <1>5 DEF v

\* The digits of a number.
Digit == [n \in Nat |-> [i \in 1 .. 4 |-> (n \div Weight[i]) % 128]]

LEMMA DigitsAre ==
  ASSUME NEW n \in Nat
  PROVE  /\ Digit[n][1] = n % 128 /\ Digit[n][2] = (n \div 128) % 128
         /\ Digit[n][3] = (n \div 16384) % 128 /\ Digit[n][4] = (n \div 2097152) % 128
         /\ Digit[n] \in [1 .. 4 -> 0 .. 127]
<1>1. /\ Digit[n][1] = n % 128 /\ Digit[n][2] = (n \div 128) % 128
      /\ Digit[n][3] = (n \div 16384) % 128 /\ Digit[n][4] = (n \div 2097152) % 128
  <2>1. Weight[1] = 1 /\ Weight[2] = 128 /\ Weight[3] = 16384 /\ Weight[4] = 2097152
    BY SMT DEF Weight
  <2>2. n \div 1 = n
    BY SMT
  <2> QED BY SMT, <2>1, <2>2 DEF Digit
<1>2. \A m \in Nat : m % 128 \in 0 .. 127
  BY SMT
<1>3. n \div 128 \in Nat /\ n \div 16384 \in Nat /\ n \div 2097152 \in Nat
  BY SMT
<1>4. \A i \in 1 .. 4 : i = 1 \/ i = 2 \/ i = 3 \/ i = 4
  BY SMT
<1>5. /\ Digit[n][1] \in 0 .. 127 /\ Digit[n][2] \in 0 .. 127
      /\ Digit[n][3] \in 0 .. 127 /\ Digit[n][4] \in 0 .. 127
  BY SMT, <1>1, <1>2, <1>3
<1>6. \A i \in 1 .. 4 : Digit[n][i] \in 0 .. 127
  BY SMT, <1>4, <1>5
<1>7. Digit[n] = [i \in 1 .. 4 |-> Digit[n][i]]
  BY SMT DEF Digit
<1> QED BY SMT, <1>1, <1>6, <1>7

\* The number n is that of its digits.
LEMMA DigitsAdd ==
  ASSUME NEW n \in Nat, n <= Longest
  PROVE  LET d == Digit[n] IN
         /\ LenLen(n) = 1 => n = d[1]
         /\ LenLen(n) = 2 => n = d[1] + d[2] * 128
         /\ LenLen(n) = 3 => n = d[1] + d[2] * 128 + d[3] * 16384
         /\ LenLen(n) = 4 => n = d[1] + d[2] * 128 + d[3] * 16384 + d[4] * 2097152
<1>1. PICK a \in Nat, b \in Nat, c \in Nat :
         a = n \div 128 /\ b = n \div 16384 /\ c = n \div 2097152
  BY SMT
<1>2. /\ Digit[n][1] = n % 128 /\ Digit[n][2] = a % 128
      /\ Digit[n][3] = b % 128 /\ Digit[n][4] = c % 128
  <2>1. /\ Digit[n][1] = n % 128 /\ Digit[n][2] = (n \div 128) % 128
        /\ Digit[n][3] = (n \div 16384) % 128 /\ Digit[n][4] = (n \div 2097152) % 128
    BY SMT, DigitsAre
  <2> QED BY SMT, <1>1, <2>1
<1>3. /\ n = (n % 128) + 128 * a /\ a = (a % 128) + 128 * b
      /\ b = (b % 128) + 128 * c /\ c % 128 = c
  BY SMT, <1>1, Digits
<1>4. /\ n % 128 \in Int /\ a % 128 \in Int /\ b % 128 \in Int
  BY SMT
<1>5. /\ LenLen(n) = 1 => a = 0
      /\ LenLen(n) = 2 => b = 0
      /\ LenLen(n) = 3 => c = 0
  <2>1. (n < 128 => n \div 128 = 0) /\ (n < 16384 => n \div 16384 = 0)
        /\ (n < 2097152 => n \div 2097152 = 0)
    BY SMT
  <2> QED BY SMT, <1>1, <2>1, LenLenIs
<1>6. LenLen(n) = 1 => n = n % 128
  BY SMT, <1>3, <1>4, <1>5
<1>7. LenLen(n) = 2 => n = (n % 128) + (a % 128) * 128
  BY SMT, <1>3, <1>4, <1>5
<1>8. LenLen(n) = 3 => n = (n % 128) + (a % 128) * 128 + (b % 128) * 16384
  BY SMT, <1>3, <1>4, <1>5
<1>9. n = (n % 128) + (a % 128) * 128 + (b % 128) * 16384 + (c % 128) * 2097152
  BY SMT, <1>3, <1>4, <1>5
<1> QED BY SMT, <1>2, <1>6, <1>7, <1>8, <1>9

\* What the bytes of the digits d stand for.
LEMMA LengthOfDigits ==
  ASSUME NEW k \in 1 .. 4, NEW d \in [1 .. 4 -> 0 .. 127]
  PROVE  LET n == LengthOf(Written(k, d)) IN
         /\ k = 1 => n = d[1]
         /\ k = 2 => n = d[1] + d[2] * 128
         /\ k = 3 => n = d[1] + d[2] * 128 + d[3] * 16384
         /\ k = 4 => n = d[1] + d[2] * 128 + d[3] * 16384 + d[4] * 2097152
<1> DEFINE v == Written(k, d)
<1>0. v \in Seq(Byte) /\ Len(v) = k /\ \A i \in 1 .. k : v[i] % 128 = d[i]
  BY ZenonT(20), DigitBytes
<1> HIDE DEF v
<1> DEFINE part(i) == IF i <= Len(v) THEN (v[i] % 128) * Weight[i] ELSE 0
<1>1. LengthOf(v) = part(1) + part(2) + part(3) + part(4)
  BY SMT DEF LengthOf
<1>2. Weight[1] = 1 /\ Weight[2] = 128 /\ Weight[3] = 16384 /\ Weight[4] = 2097152
  BY SMT DEF Weight
<1>3. d[1] \in Int /\ d[2] \in Int /\ d[3] \in Int /\ d[4] \in Int
  <2>1. \A i \in 1 .. 4 : d[i] \in Int
    BY SMT
  <2>2. 1 \in 1 .. 4 /\ 2 \in 1 .. 4 /\ 3 \in 1 .. 4 /\ 4 \in 1 .. 4
    BY SMT
  <2> QED BY <2>1, <2>2
<1>4. part(1) = d[1]
  BY SMT, <1>0, <1>2, <1>3
<1>5. part(2) = IF k >= 2 THEN d[2] * 128 ELSE 0
  BY SMT, <1>0, <1>2
<1>6. part(3) = IF k >= 3 THEN d[3] * 16384 ELSE 0
  BY SMT, <1>0, <1>2
<1>7. part(4) = IF k >= 4 THEN d[4] * 2097152 ELSE 0
  BY SMT, <1>0, <1>2
<1> HIDE DEF part
<1> QED BY SMT, <1>0, <1>1, <1>3, <1>4, <1>5, <1>6, <1>7 DEF v

\* What is written for a number is read as that number.
LEMMA VarIntIs ==
  ASSUME NEW n \in Nat, n <= Longest
  PROVE  /\ VarInt(n) \in Seq(Byte) /\ Len(VarInt(n)) = LenLen(n) /\ LenLen(n) \in 1 .. 4
         /\ VarInt(n)[LenLen(n)] < 128
         /\ \A i \in 1 .. LenLen(n) - 1 : VarInt(n)[i] >= 128
         /\ LengthOf(VarInt(n)) = n
<1> DEFINE k == LenLen(n)
           d == Digit[n]
           v == VarInt(n)
<1>1. k \in 1 .. 4
  BY SMT, LenLenIs
<1>2. d \in [1 .. 4 -> 0 .. 127]
  BY SMT, DigitsAre
<1>3. v = Written(k, d)
  <2>1. \A i \in 1 .. k : i \in 1 .. 4
    BY SMT, <1>1
  <2>2. \A i \in 1 .. 4 : d[i] = (n \div Weight[i]) % 128
    BY SMT DEF Digit
  <2> QED BY SMT, <2>1, <2>2 DEF VarInt, Written
<1> HIDE DEF k, d, v
<1>4. /\ v \in Seq(Byte) /\ Len(v) = k
      /\ v[k] < 128 /\ \A i \in 1 .. k - 1 : v[i] >= 128
  <2>1. /\ Written(k, d) \in Seq(Byte) /\ Len(Written(k, d)) = k
        /\ Written(k, d)[k] < 128 /\ \A i \in 1 .. k - 1 : Written(k, d)[i] >= 128
    BY ZenonT(20), <1>1, <1>2, DigitBytes
  <2> QED BY SMT, <1>3, <2>1
<1>5. /\ k = 1 => LengthOf(v) = d[1]
      /\ k = 2 => LengthOf(v) = d[1] + d[2] * 128
      /\ k = 3 => LengthOf(v) = d[1] + d[2] * 128 + d[3] * 16384
      /\ k = 4 => LengthOf(v) = d[1] + d[2] * 128 + d[3] * 16384 + d[4] * 2097152
  BY SMT, <1>1, <1>2, <1>3, LengthOfDigits
<1>6. /\ k = 1 => n = d[1]
      /\ k = 2 => n = d[1] + d[2] * 128
      /\ k = 3 => n = d[1] + d[2] * 128 + d[3] * 16384
      /\ k = 4 => n = d[1] + d[2] * 128 + d[3] * 16384 + d[4] * 2097152
  BY SMT, DigitsAdd DEF k, d
<1>7. k = 1 \/ k = 2 \/ k = 3 \/ k = 4
  BY SMT, <1>1
<1>8. LengthOf(v) = n
  BY SMT, <1>5, <1>6, <1>7
<1> QED BY SMT, <1>1, <1>4, <1>8 DEF k, v

\* A number written is read, and what follows it is left.
LEMMA VarIntReadsBack ==
  ASSUME NEW n \in Nat, n <= Longest, NEW t \in Seq(Byte)
  PROVE  ReadLength(VarInt(n) \o t) = Got(n, t)
<1> DEFINE v == VarInt(n)
           k == LenLen(n)
           s == v \o t
<1>1. /\ v \in Seq(Byte) /\ Len(v) = k /\ k \in 1 .. 4
      /\ v[k] < 128 /\ \A i \in 1 .. k - 1 : v[i] >= 128
      /\ LengthOf(v) = n
  BY SMT, VarIntIs
<1> HIDE DEF v, k
<1>2. /\ s \in Seq(Byte) /\ k <= Len(s) /\ \A i \in 1 .. k : s[i] = v[i]
      /\ SubSeq(s, 1, k) = v /\ SubSeq(s, k + 1, Len(s)) = t
  BY SMT, <1>1
<1> HIDE DEF s
<1>3. s[k] < 128 /\ \A i \in 1 .. k - 1 : s[i] >= 128
  BY SMT, <1>1, <1>2
<1>4. ReadLength(s) = Got(LengthOf(SubSeq(s, 1, k)), SubSeq(s, k + 1, Len(s)))
  BY SMT, <1>1, <1>2, <1>3, LengthRead
<1>5. ReadLength(s) = Got(n, t)
  BY Zenon, <1>1, <1>2, <1>4
<1> QED BY SMT, <1>5 DEF s, v

\* The header of a frame is read, and its body is what is left.
FrameBytes(byte1, body) == <<byte1>> \o VarInt(Len(body)) \o body

FrameHead(byte1, body) ==
  [byte1 |-> byte1, hlen |-> 1 + LenLen(Len(body)), rlen |-> Len(body)]

LEMMA FrameReads ==
  ASSUME NEW byte1 \in Byte, NEW body \in Seq(Byte), Len(body) <= Longest
  PROVE  LET f == FrameBytes(byte1, body)
             h == FrameHead(byte1, body)
         IN /\ f \in Seq(Byte) /\ Len(f) = 1 + LenLen(Len(body)) + Len(body)
            /\ ParseFixedHeader(f) = Got(h, body)
            /\ SubSeq(f, h.hlen + 1, Len(f)) = body
            /\ FrameLength(h) = Len(f)
<1> DEFINE n == Len(body)
           k == LenLen(n)
           v == VarInt(n)
           f == FrameBytes(byte1, body)
           h == FrameHead(byte1, body)
<1>1. /\ n \in Nat /\ n <= Longest
      /\ v \in Seq(Byte) /\ Len(v) = k /\ k \in 1 .. 4
  BY SMT, VarIntIs
<1>2. ReadLength(v \o body) = Got(n, body)
  BY SMT, <1>1, VarIntReadsBack
<1>3. f = <<byte1>> \o v \o body
  BY SMT DEF FrameBytes
<1>4. h = [byte1 |-> byte1, hlen |-> 1 + k, rlen |-> n]
  BY SMT DEF FrameHead
<1> HIDE DEF n, k, v, f, h
<1>5. n = Len(body)
  BY SMT DEF n
<1>6. /\ f \in Seq(Byte) /\ Len(f) = 1 + k + n /\ f[1] = byte1
      /\ Tail(f) = v \o body /\ SubSeq(f, k + 2, Len(f)) = body
  BY SMT, <1>1, <1>3, <1>5
<1>7. ParseFixedHeader(f) = Got(h, body)
  <2>1. ReadLength(Tail(f)) = Got(n, body) /\ Len(f) >= 2 /\ Len(f) - Len(body) = 1 + k
    <3>1. ReadLength(Tail(f)) = Got(n, body)
      BY Zenon, <1>2, <1>6
    <3>2. Len(f) >= 2 /\ Len(f) - Len(body) = 1 + k
      BY SMT, <1>1, <1>5, <1>6
    <3> QED BY SMT, <3>1, <3>2
  <2> QED BY SMT, <1>4, <1>6, <2>1 DEF ParseFixedHeader, Got
<1>8. h.hlen + 1 = k + 2 /\ FrameLength(h) = Len(f)
  BY SMT, <1>1, <1>4, <1>6 DEF FrameLength
<1> QED BY SMT, <1>5, <1>6, <1>7, <1>8 DEF f, h, k, n

\* The longest string, and the largest packet id.
Widest == 65535

\* The fields of the packets without properties.
LEMMA U16Reads ==
  ASSUME NEW n \in Nat, n <= Widest, NEW t \in Seq(Byte)
  PROVE  /\ U16(n) \in Seq(Byte) /\ Len(U16(n)) = 2
         /\ ReadUint(2, U16(n) \o t) = Got(n, t)
<1> DEFINE a == (n \div 256) % 256
           b == n % 256
           s == U16(n) \o t
<1>1. a \in 0 .. 255 /\ b \in 0 .. 255 /\ n = 256 * a + b
  <2>1. PICK q \in Nat : q = n \div 256 /\ n = 256 * q + b /\ q < 256
    BY SMT DEF Widest
  <2>2. q % 256 = q
    BY SMT, <2>1
  <2>3. b \in 0 .. 255
    BY SMT
  <2> QED BY SMT, <2>1, <2>2, <2>3
<1>2. U16(n) = <<a, b>>
  BY SMT DEF U16
<1> HIDE DEF a, b, s
<1>3. U16(n) \in Seq(Byte) /\ Len(U16(n)) = 2
  <2>1. a \in Byte /\ b \in Byte
    BY SMT, <1>1 DEF Byte
  <2>2. <<a, b>> \in Seq(Byte) /\ Len(<<a, b>>) = 2
    BY SMT, <2>1
  <2> QED BY Zenon, <1>2, <2>2
<1>4. Len(s) >= 2 /\ s[1] = a /\ s[2] = b /\ SubSeq(s, 3, Len(s)) = t
  BY SMT, <1>2, <1>3 DEF s
<1>5. ReadUint(2, s) = Got(UintAt(2, s), SubSeq(s, 3, Len(s)))
  BY SMT, <1>4 DEF ReadUint
<1>6. UintAt(2, s) = n
  BY SMT, <1>1, <1>4 DEF UintAt
<1>7. ReadUint(2, s) = Got(n, t)
  BY Zenon, <1>4, <1>5, <1>6
<1> QED BY Zenon, <1>3, <1>7 DEF s

LEMMA MqttBytesRead ==
  ASSUME NEW b \in Seq(Byte), Len(b) <= Widest, NEW t \in Seq(Byte)
  PROVE  /\ MqttBytes(b) \in Seq(Byte) /\ Len(MqttBytes(b)) = 2 + Len(b)
         /\ ReadMqttBytes(MqttBytes(b) \o t) = Got(b, t)
<1> DEFINE n == Len(b)
           u == U16(n)
           rest == b \o t
           s == MqttBytes(b) \o t
<1>1. n \in Nat /\ rest \in Seq(Byte)
  BY SMT
<1> HIDE DEF n, rest
<1>2. n <= Widest
  BY Zenon DEF n
<1>3. u \in Seq(Byte) /\ Len(u) = 2 /\ ReadUint(2, u \o rest) = Got(n, rest)
  BY ZenonT(20), <1>1, <1>2, U16Reads
<1> HIDE DEF u, s
<1>4. MqttBytes(b) = u \o b
  BY Zenon DEF MqttBytes, u, n
<1>5. MqttBytes(b) \in Seq(Byte) /\ Len(MqttBytes(b)) = 2 + Len(b)
  <2>1. u \o b \in Seq(Byte) /\ Len(u \o b) = 2 + Len(b)
    <3>1. u \in Seq(Byte) /\ Len(u) = 2
      BY Zenon, <1>3
    <3>2. u \o b \in Seq(Byte) /\ Len(u \o b) = Len(u) + Len(b)
      BY <3>1, ConcatProperties
    <3> QED BY Zenon, <3>1, <3>2
  <2> QED BY Zenon, <1>4, <2>1
<1>6. s = u \o rest
  <2>1. (u \o b) \o t = u \o (b \o t)
    BY SMT, <1>3
  <2> QED BY Zenon, <1>4, <2>1 DEF s, rest
<1>7. SubSeq(rest, 1, n) = b /\ SubSeq(rest, n + 1, Len(rest)) = t /\ ~(n > Len(rest))
  BY SMT DEF rest, n
<1>8. ReadUint(2, s) = Got(n, rest)
  BY Zenon, <1>3, <1>6
<1>9. ReadMqttBytes(s) = Got(SubSeq(rest, 1, n), SubSeq(rest, n + 1, Len(rest)))
  <2>1. /\ ReadUint(2, s).err = "ok" /\ ReadUint(2, s).val = n /\ ReadUint(2, s).rest = rest
    BY <1>8 DEF Got
  <2> QED BY SMT, <1>7, <2>1 DEF ReadMqttBytes
<1>10. ReadMqttBytes(s) = Got(b, t)
  BY Zenon, <1>7, <1>9
<1> QED BY Zenon, <1>5, <1>10 DEF s

\* Byte 1 of a PUBLISH tells its flags apart.
LEMMA PublishFlags ==
  ASSUME NEW retain \in BOOLEAN, NEW dup \in BOOLEAN, NEW qos \in 0 .. 2
  PROVE  LET b == 48 + BitIf(retain, 1) + 2 * qos + BitIf(dup, 8) IN
         /\ b \in Byte /\ b \div 16 = 3 /\ (b \div 2) % 4 = qos
         /\ Bit(b, 8) = dup /\ Bit(b, 1) = retain
<1>1. PICK r \in {0, 1}, d \in {0, 8} :
        /\ r = BitIf(retain, 1) /\ d = BitIf(dup, 8)
        /\ (r = 1) = retain /\ (d = 8) = dup
  BY DEF BitIf
<1> DEFINE b == 48 + r + 2 * qos + d
<1>2. b \in 0 .. 255 /\ b \div 16 = 3 /\ (b \div 2) % 4 = qos
  BY SMT
<1>3. (((b \div 8) % 2) = 1) = (d = 8) /\ (((b \div 1) % 2) = 1) = (r = 1)
  BY SMT
<1> QED BY <1>1, <1>2, <1>3 DEF Bit, Byte

\* Both codecs are built from the same bytes.
LEMMA SameWire ==
  /\ \A b, n, s : V4!Frame(b, n, s) = Frame(b, n, s) /\ V5!Frame(b, n, s) = Frame(b, n, s)
  /\ \A w, s : V4!ReadUint(w, s) = ReadUint(w, s) /\ V5!ReadUint(w, s) = ReadUint(w, s)
  /\ \A s : V4!ReadMqttBytes(s) = ReadMqttBytes(s) /\ V5!ReadMqttBytes(s) = ReadMqttBytes(s)
  /\ \A s : V5!ReadLength(s) = ReadLength(s)
  /\ \A n : V4!U16(n) = U16(n) /\ V5!U16(n) = U16(n)
  /\ \A s : V4!MqttBytes(s) = MqttBytes(s) /\ V5!MqttBytes(s) = MqttBytes(s)
  /\ \A n, m : V4!Bit(n, m) = Bit(n, m) /\ V5!Bit(n, m) = Bit(n, m)
  /\ \A x, m : V4!BitIf(x, m) = BitIf(x, m) /\ V5!BitIf(x, m) = BitIf(x, m)
  /\ \A v, s : V4!Got(v, s) = Got(v, s) /\ V5!Got(v, s) = Got(v, s)
  /\ V4!None = {} /\ V5!None = {} /\ V4!AtMostOnce = 0 /\ V5!AtMostOnce = 0
  /\ V4!ExactlyOnce = 2 /\ V5!ExactlyOnce = 2
<1>1. \A b, n, s : V4!Frame(b, n, s) = Frame(b, n, s) /\ V5!Frame(b, n, s) = Frame(b, n, s)
  BY SMT DEF V4!Frame, V5!Frame, Frame, V4!Fail, V5!Fail, Fail, V4!VarInt, V5!VarInt, VarInt,
         V4!LenLen, V5!LenLen, LenLen, V4!Weight, V5!Weight, Weight
<1>2. \A w, s : V4!ReadUint(w, s) = ReadUint(w, s) /\ V5!ReadUint(w, s) = ReadUint(w, s)
  BY SMT DEF V4!ReadUint, V5!ReadUint, ReadUint, V4!UintAt, V5!UintAt, UintAt, V4!Fail, V5!Fail,
         Fail, V4!Got, V5!Got, Got
<1>3. \A s : V4!ReadMqttBytes(s) = ReadMqttBytes(s) /\ V5!ReadMqttBytes(s) = ReadMqttBytes(s)
  <2>1. ASSUME NEW s PROVE V4!ReadMqttBytes(s) = ReadMqttBytes(s)
    <3>1. V4!ReadUint(2, s) = ReadUint(2, s)
      BY <1>2
    <3> QED BY Zenon, <3>1 DEF V4!ReadMqttBytes, ReadMqttBytes, V4!Fail, Fail, V4!Got, Got
  <2>2. ASSUME NEW s PROVE V5!ReadMqttBytes(s) = ReadMqttBytes(s)
    <3>1. V5!ReadUint(2, s) = ReadUint(2, s)
      BY <1>2
    <3> QED BY Zenon, <3>1 DEF V5!ReadMqttBytes, ReadMqttBytes, V5!Fail, Fail, V5!Got, Got
  <2> QED BY <2>1, <2>2
<1>4. \A s : V5!ReadLength(s) = ReadLength(s)
  BY SMT DEF V5!ReadLength, ReadLength, V5!LengthOf, LengthOf, V5!Weight, Weight, V5!Min, Min,
         V5!Got, Got, V5!Fail, Fail, V5!Short, Short
<1>5. \A n : V4!U16(n) = U16(n) /\ V5!U16(n) = U16(n)
  BY SMT DEF V4!U16, V5!U16, U16
<1>6. \A s : V4!MqttBytes(s) = MqttBytes(s) /\ V5!MqttBytes(s) = MqttBytes(s)
  BY SMT, <1>5 DEF V4!MqttBytes, V5!MqttBytes, MqttBytes
<1>7. \A n, m : V4!Bit(n, m) = Bit(n, m) /\ V5!Bit(n, m) = Bit(n, m)
  BY SMT DEF V4!Bit, V5!Bit, Bit
<1>8. \A x, m : V4!BitIf(x, m) = BitIf(x, m) /\ V5!BitIf(x, m) = BitIf(x, m)
  BY SMT DEF V4!BitIf, V5!BitIf, BitIf
<1>9. \A v, s : V4!Got(v, s) = Got(v, s) /\ V5!Got(v, s) = Got(v, s)
  BY SMT DEF V4!Got, V5!Got, Got
<1> QED BY SMT, <1>1, <1>2, <1>3, <1>4, <1>5, <1>6, <1>7, <1>8, <1>9
        DEF V4!None, V5!None, V4!AtMostOnce, V5!AtMostOnce, V4!ExactlyOnce, V5!ExactlyOnce

\* A frame of the packet p: its type in byte 1, its body read back.
LEMMA FrameIsWhole ==
  ASSUME NEW pr, NEW p, NEW byte1 \in Byte, NEW body \in Seq(Byte),
         byte1 \div 16 \in DOMAIN PacketTypes, PacketTypes[byte1 \div 16] = p.type,
         ReadsBack(p, BodyRead(pr, FrameHead(byte1, body), p.type, body)),
         Protocol!IsPacket(Seen(p)),
         Write(pr, p) = Frame(byte1, Len(body), body), Write(pr, p).err = "ok"
  PROVE  FrameWhole(pr, p, Write(pr, p))
<1> DEFINE w == Write(pr, p)
           f == FrameBytes(byte1, body)
           h == FrameHead(byte1, body)
<1>1. Len(body) <= Longest /\ w = [err |-> "ok", bytes |-> f, size |-> 1 + LenLen(Len(body)) + Len(body)]
  <2>1. ~(Len(body) > 268435455)
    BY SMT DEF Frame, Fail
  <2>2. Len(body) <= Longest
    BY SMT, <2>1 DEF Longest
  <2> QED BY SMT, <2>1, <2>2 DEF Frame, FrameBytes
<1>2. /\ f \in Seq(Byte) /\ Len(f) = 1 + LenLen(Len(body)) + Len(body)
      /\ ParseFixedHeader(f) = Got(h, body)
      /\ SubSeq(f, h.hlen + 1, Len(f)) = body /\ FrameLength(h) = Len(f)
  BY ZenonT(20), <1>1, FrameReads
<1>3. h.byte1 = byte1
  BY DEF FrameHead
<1> HIDE DEF w, f, h
<1>4. w.size = Len(w.bytes) /\ w.bytes = f /\ Patched(w.bytes, w) = f
  BY <1>1, <1>2 DEF Patched
<1>5. ParseFixedHeader(f).err = "ok" /\ ParseFixedHeader(f).val = h
  BY <1>2 DEF Got
<1>6. FrameAgrees(pr, p, f, ParseFixedHeader(f))
  BY Zenon, <1>2, <1>3, <1>5 DEF FrameAgrees, h
<1>7. FrameOf(pr, p, f)
  BY Zenon, <1>2, <1>6 DEF FrameOf, Byte
<1> QED BY Zenon, <1>2, <1>4, <1>7 DEF FrameWhole, w, Byte

\* The acknowledgements that say Success and no more.
PacketId == {n \in Nat : n <= Widest}

PlainAck ==
  [type : {"puback", "pubrec", "pubrel", "pubcomp"}, pkid : PacketId, reason : {"Success"},
   props : {{}}]

AckByte(type) ==
  CASE type = "puback" -> 64 [] type = "pubrec" -> 80 [] type = "pubrel" -> 98
    [] type = "pubcomp" -> 112

LEMMA SeenPlain ==
  ASSUME NEW p, NEW D, p = [x \in D |-> p[x]], "props" \in D, p.props = {}
  PROVE  Seen(p) = p
BY DEF Seen

LEMMA U16RangeIs == \A n \in Nat : n <= Widest => n \in Protocol!U16Range
<1>1. \A n : n \in 0 .. Widest => n \in Protocol!U16Range
  <2>1. SUFFICES ASSUME NEW n PROVE n \in 0 .. Widest => n \in Protocol!U16Range
    OBVIOUS
  <2> QED BY PTL DEF Widest, Protocol!U16Range
<1>2. Widest \in Nat
  BY SMT DEF Widest
<1> QED BY SMT, <1>1, <1>2

LEMMA PlainAckIs ==
  ASSUME NEW p \in PlainAck
  PROVE  /\ Seen(p) = p /\ p.type \in {"puback", "pubrec", "pubrel", "pubcomp"}
         /\ p.pkid \in Nat /\ p.pkid <= Widest
         /\ p = [type |-> p.type, pkid |-> p.pkid, reason |-> "Success", props |-> {}]
         /\ Protocol!IsPacket(p)
<1>1. p = [type |-> p.type, pkid |-> p.pkid, reason |-> "Success", props |-> {}]
  BY DEF PlainAck
<1>2. p.type \in {"puback", "pubrec", "pubrel", "pubcomp"}
  BY DEF PlainAck
<1>3. p.pkid \in PacketId
  BY DEF PlainAck
<1>4. p.pkid \in Nat /\ p.pkid <= Widest /\ p.pkid \in Protocol!U16Range
  <2>1. p.pkid \in Nat /\ p.pkid <= Widest
    BY Zenon, <1>3 DEF PacketId
  <2>2. \A n \in Nat : n <= Widest => n \in Protocol!U16Range
    BY U16RangeIs
  <2> QED BY Zenon, <2>1, <2>2
<1>5. Seen(p) = p
  BY <1>1 DEF Seen
<1>6. \A names : Protocol!IsProps(names, p.props)
  BY <1>1 DEF Protocol!IsProps
<1>7. ASSUME NEW reasons, "Success" \in DOMAIN reasons, NEW order
      PROVE  Protocol!IsAck(p, reasons, order)
  <2>1. DOMAIN p = {"type", "props"} \cup {"pkid", "reason"}
    BY <1>1
  <2>2. p.reason = "Success"
    BY <1>1
  <2> QED BY <1>4, <1>6, <1>7, <2>1, <2>2 DEF Protocol!IsAck, Protocol!Has
<1>8. /\ "Success" \in DOMAIN Protocol!PubAckReason /\ "Success" \in DOMAIN Protocol!PubRecReason
      /\ "Success" \in DOMAIN Protocol!PubRelReason /\ "Success" \in DOMAIN Protocol!PubCompReason
  BY DEF Protocol!PubAckReason, Protocol!PubRecReason, Protocol!PubRelReason, Protocol!PubCompReason
<1>9. /\ Protocol!IsPubAck(p) /\ Protocol!IsPubRec(p) /\ Protocol!IsPubRel(p) /\ Protocol!IsPubComp(p)
  BY <1>7, <1>8
     DEF Protocol!IsPubAck, Protocol!IsPubRec, Protocol!IsPubRel, Protocol!IsPubComp
<1>10. Protocol!IsPacket(p)
  BY <1>2, <1>9 DEF Protocol!IsPacket
<1> QED BY <1>1, <1>2, <1>4, <1>5, <1>10

LEMMA AckBytes ==
  ASSUME NEW type \in {"puback", "pubrec", "pubrel", "pubcomp"}
  PROVE  /\ AckByte(type) \in Byte /\ AckByte(type) \div 16 \in DOMAIN PacketTypes
         /\ PacketTypes[AckByte(type) \div 16] = type
<1>1. 64 \div 16 = 4 /\ 80 \div 16 = 5 /\ 98 \div 16 = 6 /\ 112 \div 16 = 7
  BY SMT
<1>2. /\ PacketTypes[4] = "puback" /\ PacketTypes[5] = "pubrec" /\ PacketTypes[6] = "pubrel"
      /\ PacketTypes[7] = "pubcomp" /\ {4, 5, 6, 7} \subseteq DOMAIN PacketTypes
  BY SMT DEF PacketTypes
<1> QED BY <1>1, <1>2 DEF AckByte, Byte

LEMMA AckRead4 ==
  ASSUME NEW p \in PlainAck
  PROVE  /\ Write("v4", p) = Frame(AckByte(p.type), 2, U16(p.pkid))
         /\ ReadsBack(p, BodyRead("v4", FrameHead(AckByte(p.type), U16(p.pkid)), p.type, U16(p.pkid)))
<1> DEFINE body == U16(p.pkid)
           h == FrameHead(AckByte(p.type), body)
<1>1. /\ Seen(p) = p /\ p.type \in {"puback", "pubrec", "pubrel", "pubcomp"}
      /\ p.pkid \in Nat /\ p.pkid <= Widest /\ p.props = {}
      /\ p = [type |-> p.type, pkid |-> p.pkid, reason |-> "Success", props |-> {}]
  BY PlainAckIs
<1>2. body \in Seq(Byte) /\ Len(body) = 2 /\ ReadUint(2, body) = Got(p.pkid, <<>>)
  <2>1. <<>> \in Seq(Byte)
    BY SMT
  <2>2. /\ U16(p.pkid) \in Seq(Byte) /\ Len(U16(p.pkid)) = 2
        /\ ReadUint(2, U16(p.pkid) \o <<>>) = Got(p.pkid, <<>>)
    BY ZenonT(20), <1>1, <2>1, U16Reads
  <2>3. U16(p.pkid) \o <<>> = U16(p.pkid)
    BY ConcatEmptySeq, <2>2
  <2> QED BY Zenon, <2>2, <2>3
<1>3. h.rlen = 2
  BY Zenon, <1>2 DEF FrameHead
<1>4. \A type : V4!ReadAck(type, body)
                  = Got([type |-> type, pkid |-> p.pkid, reason |-> "Success", props |-> {}], <<>>)
  <2>1. V4!ReadUint(2, body) = Got(p.pkid, <<>>)
    BY Zenon, <1>2, SameWire
  <2>2. /\ V4!ReadUint(2, body).err = "ok" /\ V4!ReadUint(2, body).val = p.pkid
        /\ V4!ReadUint(2, body).rest = <<>>
    BY <2>1 DEF Got
  <2> HIDE DEF h, body
  <2> QED BY <2>2 DEF V4!ReadAck, Got, V4!Got, V4!None
<1>5. /\ V4!U16(p.pkid) = body
      /\ \A b : V4!Frame(b, 2, body) = Frame(b, 2, body)
  BY Zenon, SameWire
<1> HIDE DEF body, h
<1>6. Write("v4", p) = V4!Write(p)
  BY DEF Write
<1>7. \A x : BodyRead("v4", h, x, body) = V4!ReadBody(x, h, body)
  BY <1>3 DEF BodyRead, Unpack, V4!Unpack
<1>8. V4!ReadBody(p.type, h, body) = Got(p, <<>>)
  <2>1. V4!ReadBody(p.type, h, body) = V4!ReadAck(p.type, body)
    BY <1>1, <1>3 DEF V4!ReadBody, V4!ReadPubAck, V4!ReadPubRec, V4!ReadPubRel, V4!ReadPubComp
  <2> QED BY Zenon, <1>1, <1>4, <2>1
<1>9. V4!Write(p) = Frame(AckByte(p.type), 2, body)
  BY <1>1, <1>5 DEF V4!Write, V4!None, V4!WritePubAck, V4!WritePubRec, V4!WritePubRel,
     V4!WritePubComp, V4!WriteAck, AckByte
<1>10. ReadsBack(p, BodyRead("v4", h, p.type, body))
  BY <1>1, <1>7, <1>8 DEF ReadsBack, Got
<1> QED BY Zenon, <1>6, <1>9, <1>10 DEF h, body

LEMMA AckRead5 ==
  ASSUME NEW p \in PlainAck
  PROVE  /\ Write("v5", p) = Frame(AckByte(p.type), 2, U16(p.pkid))
         /\ ReadsBack(p, BodyRead("v5", FrameHead(AckByte(p.type), U16(p.pkid)), p.type, U16(p.pkid)))
<1> DEFINE body == U16(p.pkid)
           h == FrameHead(AckByte(p.type), body)
<1>1. /\ Seen(p) = p /\ p.type \in {"puback", "pubrec", "pubrel", "pubcomp"}
      /\ p.pkid \in Nat /\ p.pkid <= Widest /\ p.props = {} /\ p.reason = "Success"
      /\ p = [type |-> p.type, pkid |-> p.pkid, reason |-> "Success", props |-> {}]
  BY PlainAckIs
<1>2. body \in Seq(Byte) /\ Len(body) = 2 /\ ReadUint(2, body) = Got(p.pkid, <<>>)
      /\ body \o <<>> = body
  <2>1. <<>> \in Seq(Byte)
    BY SMT
  <2>2. /\ U16(p.pkid) \in Seq(Byte) /\ Len(U16(p.pkid)) = 2
        /\ ReadUint(2, U16(p.pkid) \o <<>>) = Got(p.pkid, <<>>)
    BY ZenonT(20), <1>1, <2>1, U16Reads
  <2>3. U16(p.pkid) \o <<>> = U16(p.pkid)
    BY ConcatEmptySeq, <2>2
  <2> QED BY Zenon, <2>2, <2>3
<1>3. h.rlen = 2
  BY Zenon, <1>2 DEF FrameHead
<1>4. \A type, codes, order : V5!ReadAck(type, codes, order, h, body)
         = Got([type |-> type, pkid |-> p.pkid, reason |-> "Success", props |-> {}], <<>>)
  <2>1. V5!ReadUint(2, body) = Got(p.pkid, <<>>)
    BY Zenon, <1>2, SameWire
  <2>2. /\ V5!ReadUint(2, body).err = "ok" /\ V5!ReadUint(2, body).val = p.pkid
        /\ V5!ReadUint(2, body).rest = <<>>
    BY <2>1 DEF Got
  <2> HIDE DEF h, body
  <2> QED BY Zenon, <1>3, <2>2 DEF V5!ReadAck, Got, V5!Got, V5!None
<1>5. \A byte1, codes, order : V5!WriteAck(byte1, codes, order, p) = Frame(byte1, 2, body)
  <2>1. V5!U16(p.pkid) = body /\ \A b : V5!Frame(b, 2, body) = Frame(b, 2, body)
    BY Zenon, SameWire
  <2> HIDE DEF h, body
  <2> QED BY <1>1, <1>2, <2>1 DEF V5!WriteAck, V5!AckLen, V5!None
<1> HIDE DEF body, h
<1>6. Write("v5", p) = V5!Write(p)
  BY DEF Write
<1>7. BodyRead("v5", h, p.type, body) = V5!ReadBody(p.type, h, body)
  BY <1>1, <1>3 DEF BodyRead, Unpack, V5!Unpack
<1>8. V5!ReadBody(p.type, h, body) = Got(p, <<>>)
  <2>1. V5!ReadBody(p.type, h, body)
          = Got([type |-> p.type, pkid |-> p.pkid, reason |-> "Success", props |-> {}], <<>>)
    BY <1>1, <1>4 DEF V5!ReadBody, V5!ReadPubAck, V5!ReadPubRec, V5!ReadPubRel, V5!ReadPubComp
  <2> QED BY Zenon, <1>1, <2>1
<1>9. V5!Write(p) = Frame(AckByte(p.type), 2, body)
  BY <1>1, <1>5 DEF V5!Write, V5!WritePubAck, V5!WritePubRec, V5!WritePubRel,
     V5!WritePubComp, AckByte
<1>10. ReadsBack(p, BodyRead("v5", h, p.type, body))
  BY <1>1, <1>7, <1>8 DEF ReadsBack, Got
<1> QED BY Zenon, <1>6, <1>9, <1>10 DEF h, body

\* Every such acknowledgement reads back, in both codecs.
LEMMA PlainAckWhole ==
  ASSUME NEW pr \in {"v4", "v5"}, NEW p \in PlainAck, Write(pr, p).err = "ok"
  PROVE  FrameWhole(pr, p, Write(pr, p))
<1>1. /\ Seen(p) = p /\ p.pkid \in Nat /\ p.pkid <= Widest /\ Protocol!IsPacket(p)
      /\ p.type \in {"puback", "pubrec", "pubrel", "pubcomp"}
  BY Zenon, PlainAckIs
<1>2. U16(p.pkid) \in Seq(Byte) /\ Len(U16(p.pkid)) = 2
  <2>1. <<>> \in Seq(Byte)
    BY SMT
  <2> QED BY ZenonT(20), <1>1, <2>1, U16Reads
<1>3. /\ AckByte(p.type) \in Byte /\ AckByte(p.type) \div 16 \in DOMAIN PacketTypes
      /\ PacketTypes[AckByte(p.type) \div 16] = p.type
  BY Zenon, <1>1, AckBytes
<1>4. /\ Write(pr, p) = Frame(AckByte(p.type), Len(U16(p.pkid)), U16(p.pkid))
      /\ ReadsBack(p, BodyRead(pr, FrameHead(AckByte(p.type), U16(p.pkid)), p.type, U16(p.pkid)))
  BY Zenon, <1>2, AckRead4, AckRead5
<1> QED BY ZenonT(20), <1>1, <1>2, <1>3, <1>4, FrameIsWhole

\* The packets of two bytes.
PlainEmpty ==
  [type : {"pingreq", "pingresp"}, props : {{}}]
  \cup [type : {"disconnect"}, reason : {"NormalDisconnection"}, props : {{}}]

EmptyByte(type) ==
  CASE type = "pingreq" -> 192 [] type = "pingresp" -> 208 [] type = "disconnect" -> 224

LEMMA ZeroIs == VarInt(0) = <<0>> /\ LenLen(0) = 1
<1>1. LenLen(0) = 1 /\ 0 <= Longest
  BY SMT DEF LenLen, Longest
<1>2. VarInt(0) = <<0>>
  <2>1. Weight[1] = 1
    BY SMT DEF Weight
  <2>2. (0 \div 1) % 128 = 0
    BY SMT
  <2>3. VarInt(0) = [i \in 1 .. 1 |-> ((0 \div Weight[i]) % 128) + (IF i < 1 THEN 128 ELSE 0)]
    BY SMT, <1>1 DEF VarInt
  <2>4. VarInt(0) = [i \in 1 .. 1 |-> 0]
    BY SMT, <2>1, <2>2, <2>3
  <2> QED BY SMT, <2>4
<1> QED BY Zenon, <1>1, <1>2

LEMMA EmptyFrame ==
  ASSUME NEW b \in Byte
  PROVE  Frame(b, Len(<<>>), <<>>) = [err |-> "ok", bytes |-> <<b, 0>>, size |-> 2]
<1>1. LenLen(0) = 1 /\ VarInt(0) = <<0>>
  BY ZeroIs
<1>3. ~(0 > 268435455)
  BY SMT
<1>4. Len(<<>>) = 0
  BY SMT
<1>5. <<b>> \o VarInt(0) \o <<>> = <<b, 0>>
  <2>0. 0 \in Byte
    BY SMT DEF Byte
  <2>1. <<b>> \o <<0>> = <<b, 0>> /\ <<b, 0>> \in Seq(Byte)
    <3>1. <<b>> \in Seq(Byte) /\ <<0>> \in Seq(Byte) /\ <<b, 0>> \in Seq(Byte)
      BY SMT, <2>0
    <3>2. Append(<<b>>, 0) = <<b>> \o <<0>>
      BY Zenon, <2>0, <3>1, AppendIsConcat
    <3>3. Append(<<b>>, 0) = <<b, 0>>
      <4> DEFINE s == Append(<<b>>, 0)
                 t == <<b, 0>>
      <4>1. s \in Seq(Byte) /\ Len(s) = 2 /\ s[1] = b /\ s[2] = 0
        BY SMT, <2>0, <3>1
      <4>2. t \in Seq(Byte) /\ Len(t) = 2 /\ t[1] = b /\ t[2] = 0
        BY SMT, <3>1
      <4> HIDE DEF s, t
      <4>3. \A i \in 1 .. Len(s) : s[i] = t[i]
        BY SMT, <4>1, <4>2
      <4>4. s = t
        BY <4>1, <4>2, <4>3, SeqEqual
      <4> QED BY Zenon, <4>4 DEF s, t
    <3> QED BY Zenon, <3>1, <3>2, <3>3
  <2>2. <<b, 0>> \o <<>> = <<b, 0>>
    BY <2>1, ConcatEmptySeq
  <2> QED BY Zenon, <1>1, <2>1, <2>2
<1>6. Frame(b, 0, <<>>)
        = [err |-> "ok", bytes |-> <<b>> \o VarInt(0) \o <<>>, size |-> 2]
  BY SMT, <1>1, <1>3 DEF Frame
<1> QED BY Zenon, <1>4, <1>5, <1>6

LEMMA PlainEmptyIs ==
  ASSUME NEW p \in PlainEmpty
  PROVE  /\ Seen(p) = p /\ p.type \in {"pingreq", "pingresp", "disconnect"} /\ p.props = {}
         /\ \/ p.type # "disconnect" /\ p = [type |-> p.type, props |-> {}]
            \/ /\ p.type = "disconnect" /\ p.reason = "NormalDisconnection"
               /\ p = [type |-> p.type, reason |-> "NormalDisconnection", props |-> {}]
         /\ Protocol!IsPacket(p)
<1>1. CASE p \in [type : {"pingreq", "pingresp"}, props : {{}}]
  <2>1. p = [type |-> p.type, props |-> {}] /\ p.type \in {"pingreq", "pingresp"}
    BY <1>1
  <2>2. Seen(p) = p
    BY <2>1 DEF Seen
  <2>3. DOMAIN p = {"type", "props"} \cup {}
    BY <2>1
  <2>4. Protocol!Has(p, {})
    BY Zenon, <2>3 DEF Protocol!Has
  <2>5. p.type = "pingreq" \/ p.type = "pingresp"
    BY <2>1
  <2>6. Protocol!IsPacket(p)
    <3>1. CASE p.type = "pingreq"
      BY <2>4, <3>1 DEF Protocol!IsPacket
    <3>2. CASE p.type = "pingresp"
      BY <2>4, <3>2 DEF Protocol!IsPacket
    <3> QED BY <2>5, <3>1, <3>2
  <2>7. p.type # "disconnect" /\ p.props = {}
    BY <2>1
  <2> QED BY <2>1, <2>2, <2>6, <2>7
<1>2. CASE p \in [type : {"disconnect"}, reason : {"NormalDisconnection"}, props : {{}}]
  <2>1. p = [type |-> p.type, reason |-> "NormalDisconnection", props |-> {}] /\ p.type = "disconnect"
    BY <1>2
  <2>2. Seen(p) = p
    BY <2>1 DEF Seen
  <2>3. DOMAIN p = {"type", "props"} \cup {"reason"} /\ p.reason = "NormalDisconnection"
    BY <2>1
  <2>4. "NormalDisconnection" \in DOMAIN Protocol!DisconnectReasonCode
    BY DEF Protocol!DisconnectReasonCode
  <2>5. \A names : Protocol!IsProps(names, p.props)
    BY <2>1 DEF Protocol!IsProps
  <2>6. Protocol!IsDisconnect(p)
    BY <2>3, <2>4, <2>5 DEF Protocol!IsDisconnect, Protocol!Has
  <2> QED BY <2>1, <2>2, <2>6 DEF Protocol!IsPacket
<1> QED BY <1>1, <1>2 DEF PlainEmpty

\* Pings and a plain DISCONNECT read back, in both codecs.
LEMMA PlainEmptyWhole ==
  ASSUME NEW pr \in {"v4", "v5"}, NEW p \in PlainEmpty
  PROVE  FrameWhole(pr, p, Write(pr, p))
<1> DEFINE b == EmptyByte(p.type)
           h == FrameHead(b, <<>>)
<1>1. /\ Seen(p) = p /\ p.type \in {"pingreq", "pingresp", "disconnect"} /\ p.props = {}
      /\ \/ p.type # "disconnect" /\ p = [type |-> p.type, props |-> {}]
         \/ /\ p.type = "disconnect" /\ p.reason = "NormalDisconnection"
            /\ p = [type |-> p.type, reason |-> "NormalDisconnection", props |-> {}]
      /\ Protocol!IsPacket(p)
  BY PlainEmptyIs
<1>2. b \in Byte /\ b \div 16 \in DOMAIN PacketTypes /\ PacketTypes[b \div 16] = p.type
  <2>1. 192 \div 16 = 12 /\ 208 \div 16 = 13 /\ 224 \div 16 = 14
    BY SMT
  <2>2. /\ PacketTypes[12] = "pingreq" /\ PacketTypes[13] = "pingresp"
        /\ PacketTypes[14] = "disconnect" /\ {12, 13, 14} \subseteq DOMAIN PacketTypes
    BY SMT DEF PacketTypes
  <2> QED BY <1>1, <2>1, <2>2 DEF EmptyByte, Byte
<1>3. h.rlen = 0
  BY SMT DEF FrameHead
<1> HIDE DEF b, h
<1>4. BodyRead(pr, h, p.type, <<>>)
        = IF pr = "v4" THEN V4!ReadEmpty(p.type) ELSE V5!ReadEmpty(p.type)
  BY <1>1, <1>3 DEF BodyRead, Unpack, V4!Unpack, V5!Unpack
<1>5. BodyRead(pr, h, p.type, <<>>) = Got(p, <<>>)
  <2>1. CASE p.type = "pingreq"
    BY <1>1, <1>4, <2>1 DEF V4!ReadEmpty, V5!ReadEmpty, V4!Got, V5!Got, Got, V4!None, V5!None
  <2>2. CASE p.type = "pingresp"
    BY <1>1, <1>4, <2>2 DEF V4!ReadEmpty, V5!ReadEmpty, V4!Got, V5!Got, Got, V4!None, V5!None
  <2>3. CASE p.type = "disconnect"
    BY <1>1, <1>4, <2>3 DEF V4!ReadEmpty, V5!ReadEmpty, V4!Got, V5!Got, Got, V4!None, V5!None
  <2> QED BY <1>1, <2>1, <2>2, <2>3
<1>6. ReadsBack(p, BodyRead(pr, h, p.type, <<>>))
  BY <1>1, <1>5 DEF ReadsBack, Got
<1>7. Write(pr, p) = [err |-> "ok", bytes |-> <<b, 0>>, size |-> 2]
  <2>1. V4!Write(p) = [err |-> "ok", bytes |-> <<b, 0>>, size |-> 2]
    BY <1>1 DEF V4!Write, V4!None, V4!WritePing, V4!WriteDisconnect, b, EmptyByte
  <2>2. V5!Write(p) = [err |-> "ok", bytes |-> <<b, 0>>, size |-> 2]
    BY <1>1 DEF V5!Write, V5!None, V5!WritePing, V5!WriteDisconnect, V5!DisconnectLen, b, EmptyByte
  <2> QED BY <2>1, <2>2 DEF Write
<1>8. Write(pr, p) = Frame(b, Len(<<>>), <<>>) /\ Write(pr, p).err = "ok"
  BY <1>2, <1>7, EmptyFrame
<1>9. <<>> \in Seq(Byte)
  BY SMT
<1> QED BY ZenonT(20), <1>1, <1>2, <1>6, <1>8, <1>9, FrameIsWhole DEF h

\* A PUBLISH without properties.
PlainPublish ==
  {p \in [type : {"publish"}, dup : BOOLEAN, qos : 0 .. 2, pkid : PacketId, retain : BOOLEAN,
          topic : Seq(Byte), payload : Seq(Byte), props : {{}}] :
     (p.pkid = 0 <=> p.qos = 0) /\ Len(p.topic) <= Widest}

PublishByte(p) == 48 + BitIf(p.retain, 1) + 2 * p.qos + BitIf(p.dup, 8)
PublishId(p) == IF p.qos # 0 THEN U16(p.pkid) ELSE <<>>

\* What is behind the topic: the packet id and the payload, in MQTT 5 a byte 0
\* between them.
PublishRest(pr, p) == IF pr = "v4" THEN p.payload ELSE <<0>> \o p.payload
PublishBody(pr, p) == MqttBytes(p.topic) \o (PublishId(p) \o PublishRest(pr, p))

LEMMA PlainPublishIs ==
  ASSUME NEW p \in PlainPublish
  PROVE  /\ Seen(p) = p /\ p.type = "publish" /\ p.props = {}
         /\ p.dup \in BOOLEAN /\ p.retain \in BOOLEAN /\ p.qos \in 0 .. 2
         /\ p.pkid \in Nat /\ p.pkid <= Widest /\ (p.pkid = 0 <=> p.qos = 0)
         /\ p.topic \in Seq(Byte) /\ Len(p.topic) <= Widest /\ p.payload \in Seq(Byte)
         /\ p = [type |-> "publish", dup |-> p.dup, retain |-> p.retain, qos |-> p.qos,
                 pkid |-> p.pkid, topic |-> p.topic, payload |-> p.payload, props |-> {}]
         /\ Protocol!IsPacket(p)
<1>1. /\ p \in [type : {"publish"}, dup : BOOLEAN, qos : 0 .. 2, pkid : PacketId, retain : BOOLEAN,
                topic : Seq(Byte), payload : Seq(Byte), props : {{}}]
      /\ (p.pkid = 0 <=> p.qos = 0) /\ Len(p.topic) <= Widest
  BY DEF PlainPublish
<1>2. /\ p.type = "publish" /\ p.props = {}
      /\ p.dup \in BOOLEAN /\ p.retain \in BOOLEAN /\ p.qos \in 0 .. 2 /\ p.pkid \in PacketId
      /\ p.topic \in Seq(Byte) /\ p.payload \in Seq(Byte)
  BY <1>1
<1>3. p = [type |-> "publish", dup |-> p.dup, retain |-> p.retain, qos |-> p.qos,
           pkid |-> p.pkid, topic |-> p.topic, payload |-> p.payload, props |-> {}]
  BY <1>1
<1>4. Seen(p) = p
  BY <1>3 DEF Seen
<1>5. p.pkid \in Nat /\ p.pkid <= Widest
  BY Zenon, <1>2 DEF PacketId
<1>6. DOMAIN p = {"type", "props"} \cup {"dup", "qos", "pkid", "retain", "topic", "payload"}
  BY <1>3
<1>7. p.pkid \in Protocol!U16Range
  BY <1>5, U16RangeIs
<1>8. Protocol!IsBytes(p.topic) /\ Protocol!IsBytes(p.payload)
  BY <1>2, BytesAreBytes
<1>9. Protocol!IsProps(Protocol!PublishProps, p.props)
  BY <1>2 DEF Protocol!IsProps
<1>10. Protocol!IsPublish(p)
  BY <1>1, <1>2, <1>6, <1>7, <1>8, <1>9
     DEF Protocol!IsPublish, Protocol!Has, Protocol!QoS, Protocol!AtMostOnce
<1>11. Protocol!IsPacket(p)
  BY <1>2, <1>10 DEF Protocol!IsPacket
<1> QED BY <1>1, <1>2, <1>3, <1>4, <1>5, <1>11

LEMMA PublishParts ==
  ASSUME NEW p \in PlainPublish, NEW t \in Seq(Byte)
  PROVE  LET id == PublishId(p) topic == MqttBytes(p.topic) IN
         /\ id \in Seq(Byte) /\ Len(id) = (IF p.qos = 0 THEN 0 ELSE 2)
         /\ topic \in Seq(Byte) /\ Len(topic) = 2 + Len(p.topic)
         /\ ReadMqttBytes(topic \o (id \o t)) = Got(p.topic, id \o t)
         /\ (IF p.qos = 0 THEN Got(0, id \o t) ELSE ReadUint(2, id \o t)) = Got(p.pkid, t)
<1> DEFINE id == PublishId(p)
           topic == MqttBytes(p.topic)
<1>1. /\ p.pkid \in Nat /\ p.pkid <= Widest /\ (p.pkid = 0 <=> p.qos = 0)
      /\ p.topic \in Seq(Byte) /\ Len(p.topic) <= Widest
  BY Zenon, PlainPublishIs
<1>2. /\ id \in Seq(Byte) /\ Len(id) = (IF p.qos = 0 THEN 0 ELSE 2)
      /\ (IF p.qos = 0 THEN Got(0, id \o t) ELSE ReadUint(2, id \o t)) = Got(p.pkid, t)
  <2>1. CASE p.qos = 0
    <3>1. id = <<>> /\ p.pkid = 0
      BY Zenon, <1>1, <2>1 DEF PublishId
    <3>2. <<>> \in Seq(Byte) /\ Len(<<>>) = 0 /\ <<>> \o t = t
      BY SMT
    <3> QED BY Zenon, <2>1, <3>1, <3>2
  <2>2. CASE p.qos # 0
    <3>1. id = U16(p.pkid)
      BY Zenon, <2>2 DEF PublishId
    <3>2. U16(p.pkid) \in Seq(Byte) /\ Len(U16(p.pkid)) = 2 /\ ReadUint(2, U16(p.pkid) \o t) = Got(p.pkid, t)
      BY ZenonT(20), <1>1, U16Reads
    <3> QED BY Zenon, <2>2, <3>1, <3>2
  <2> QED BY Zenon, <2>1, <2>2
<1> HIDE DEF id
<1>3. id \o t \in Seq(Byte)
  BY <1>2, ConcatProperties
<1>4. /\ topic \in Seq(Byte) /\ Len(topic) = 2 + Len(p.topic)
      /\ ReadMqttBytes(topic \o (id \o t)) = Got(p.topic, id \o t)
  BY ZenonT(20), <1>1, <1>3, MqttBytesRead
<1> QED BY Zenon, <1>2, <1>4 DEF id

LEMMA ByteLen == \A s \in Seq(Byte) : Len(s) \in Nat
OBVIOUS

LEMMA ByteConcat ==
  \A s \in Seq(Byte) : \A t \in Seq(Byte) : \A u \in Seq(Byte) : (s \o t) \o u = s \o (t \o u)
BY ConcatAssociative

\* Lengths added up in different orders.
LEMMA Sums ==
  ASSUME NEW a \in Nat, NEW b \in Nat, NEW i \in {0, 2}
  PROVE  /\ (2 + a) + (i + b) = 2 + a + i + b /\ 2 + a + b + i = 2 + a + i + b
         /\ 2 + a + i + 1 + b = 2 + a + i + (b + 1) /\ 2 + a + i + b # 0 /\ b + 0 = b
BY SMT

LEMMA PublishBodyIs ==
  ASSUME NEW pr \in {"v4", "v5"}, NEW p \in PlainPublish
  PROVE  /\ PublishRest(pr, p) \in Seq(Byte)
         /\ Len(PublishRest(pr, p)) = Len(p.payload) + (IF pr = "v4" THEN 0 ELSE 1)
         /\ PublishBody(pr, p) \in Seq(Byte)
         /\ Len(PublishBody(pr, p)) = 2 + Len(p.topic) + (IF p.qos = 0 THEN 0 ELSE 2)
                                      + Len(PublishRest(pr, p))
<1> DEFINE t == PublishRest(pr, p)
           id == PublishId(p)
           topic == MqttBytes(p.topic)
<1>1. p.payload \in Seq(Byte) /\ p.topic \in Seq(Byte)
  BY Zenon, PlainPublishIs
<1>2. t \in Seq(Byte) /\ Len(t) = Len(p.payload) + (IF pr = "v4" THEN 0 ELSE 1)
  <2>1. CASE pr = "v4"
    BY <1>1, <2>1 DEF PublishRest
  <2>2. CASE pr = "v5"
    <3>1. <<0>> \in Seq(Byte) /\ Len(<<0>>) = 1
      BY SMT DEF Byte
    <3>2. t = <<0>> \o p.payload
      BY <2>2 DEF PublishRest
    <3>3. t \in Seq(Byte) /\ Len(t) = Len(<<0>>) + Len(p.payload)
      BY <1>1, <3>1, <3>2, ConcatProperties
    <3>4. Len(t) = Len(p.payload) + 1
      BY SMT, <1>1, <3>1, <3>3
    <3> QED BY <2>2, <3>3, <3>4
  <2> QED BY <2>1, <2>2
<1> HIDE DEF t
<1>3. /\ id \in Seq(Byte) /\ Len(id) = (IF p.qos = 0 THEN 0 ELSE 2)
      /\ topic \in Seq(Byte) /\ Len(topic) = 2 + Len(p.topic)
  BY Zenon, <1>2, PublishParts
<1> HIDE DEF id, topic
<1>4. id \o t \in Seq(Byte) /\ Len(id \o t) = Len(id) + Len(t)
  BY <1>2, <1>3, ConcatProperties
<1>5. topic \o (id \o t) \in Seq(Byte) /\ Len(topic \o (id \o t)) = Len(topic) + Len(id \o t)
  BY <1>3, <1>4, ConcatProperties
<1>6. Len(p.topic) \in Nat /\ Len(t) \in Nat /\ Len(id) \in {0, 2}
  BY Zenon, <1>1, <1>2, <1>3, ByteLen
<1>7. Len(topic \o (id \o t)) = 2 + Len(p.topic) + (IF p.qos = 0 THEN 0 ELSE 2) + Len(t)
  <2>1. Len(topic \o (id \o t)) = (2 + Len(p.topic)) + (Len(id) + Len(t))
    BY Zenon, <1>3, <1>4, <1>5
  <2>2. (2 + Len(p.topic)) + (Len(id) + Len(t)) = 2 + Len(p.topic) + Len(id) + Len(t)
    BY Zenon, <1>6, Sums
  <2> QED BY Zenon, <1>3, <2>1, <2>2
<1> QED BY Zenon, <1>2, <1>5, <1>7 DEF PublishBody, t, id, topic

LEMMA PublishWritten ==
  ASSUME NEW pr \in {"v4", "v5"}, NEW p \in PlainPublish
  PROVE  Write(pr, p) = Frame(PublishByte(p), Len(PublishBody(pr, p)), PublishBody(pr, p))
<1> DEFINE id == PublishId(p)
           topic == MqttBytes(p.topic)
           n == Len(PublishBody(pr, p))
<1>1. /\ p.type = "publish" /\ p.props = {} /\ p.qos \in 0 .. 2 /\ (p.pkid = 0 <=> p.qos = 0)
      /\ p.topic \in Seq(Byte) /\ p.payload \in Seq(Byte)
  BY Zenon, PlainPublishIs
<1>2. /\ PublishRest(pr, p) \in Seq(Byte)
      /\ Len(PublishRest(pr, p)) = Len(p.payload) + (IF pr = "v4" THEN 0 ELSE 1)
      /\ n = 2 + Len(p.topic) + (IF p.qos = 0 THEN 0 ELSE 2) + Len(PublishRest(pr, p))
  BY Zenon, PublishBodyIs
<1>3. id \in Seq(Byte) /\ topic \in Seq(Byte)
  BY Zenon, <1>2, PublishParts
<1>4. Len(p.topic) \in Nat /\ Len(p.payload) \in Nat
  BY <1>1
<1> HIDE DEF id, topic, n
<1>5. (topic \o id) \o PublishRest(pr, p) = PublishBody(pr, p)
  <2>1. (topic \o id) \o PublishRest(pr, p) = topic \o (id \o PublishRest(pr, p))
    <3>1. PublishRest(pr, p) \in Seq(Byte)
      BY Zenon, <1>2
    <3> QED BY Zenon, <1>3, <3>1, ByteConcat
  <2> QED BY Zenon, <2>1 DEF PublishBody, topic, id
<1>6. CASE pr = "v4"
  <2>1. PublishRest(pr, p) = p.payload
    BY <1>6 DEF PublishRest
  <2>2. V4!PublishLen(p) = n
    <3> DEFINE i == IF p.qos = 0 THEN 0 ELSE 2
    <3>1. V4!PublishLen(p) = 2 + Len(p.topic) + Len(p.payload) + i
      BY Zenon DEF V4!PublishLen, V4!AtMostOnce
    <3>2. n = 2 + Len(p.topic) + i + (Len(p.payload) + 0)
      BY Zenon, <1>2, <1>6
    <3>3. i \in {0, 2}
      OBVIOUS
    <3> HIDE DEF i
    <3>4. /\ 2 + Len(p.topic) + Len(p.payload) + i = 2 + Len(p.topic) + i + Len(p.payload)
          /\ Len(p.payload) + 0 = Len(p.payload)
      BY <1>4, <3>3, Sums
    <3> QED BY Zenon, <3>1, <3>2, <3>4
  <2>3. topic \o (IF p.qos # 0 THEN V4!U16(p.pkid) ELSE <<>>) \o p.payload = PublishBody(pr, p)
    BY Zenon, <1>5, <2>1, SameWire DEF PublishId, id
  <2>4. V4!WritePublish(p) = V4!Frame(PublishByte(p), n, PublishBody(pr, p))
    <3>1. /\ V4!MqttBytes(p.topic) = topic
          /\ V4!BitIf(p.retain, 1) = BitIf(p.retain, 1) /\ V4!BitIf(p.dup, 8) = BitIf(p.dup, 8)
      BY Zenon, SameWire DEF topic
    <3> QED BY Zenon, <1>1, <2>2, <2>3, <3>1 DEF V4!WritePublish, V4!AtMostOnce, PublishByte
  <2>5. V4!Write(p) = V4!WritePublish(p)
    BY <1>1 DEF V4!Write, V4!None
  <2> QED BY Zenon, <1>6, <2>4, <2>5, SameWire DEF Write, n
<1>7. CASE pr = "v5"
  <2>1. PublishRest(pr, p) = <<0>> \o p.payload
    BY <1>7 DEF PublishRest
  <2>2. V5!PublishLen(p) = n
    <3> DEFINE i == IF p.qos = 0 THEN 0 ELSE 2
    <3>0. (IF p.qos # 0 /\ p.pkid # 0 THEN 2 ELSE 0) = i
      BY <1>1
    <3>1. V5!PublishLen(p) = 2 + Len(p.topic) + i + 1 + Len(p.payload)
      <4> HIDE DEF i
      <4> QED BY Zenon, <1>1, <3>0 DEF V5!PublishLen, V5!AtMostOnce, V5!OptLen, V5!None
    <3>2. n = 2 + Len(p.topic) + i + (Len(p.payload) + 1)
      <4>1. "v5" # "v4"
        OBVIOUS
      <4> QED BY Zenon, <1>2, <1>7, <4>1
    <3>3. i \in {0, 2}
      OBVIOUS
    <3> HIDE DEF i
    <3> QED BY Zenon, <1>4, <3>1, <3>2, <3>3, Sums
  <2>3. (topic \o id) \o <<0>> \o p.payload = PublishBody(pr, p)
    <3>1. <<0>> \in Seq(Byte) /\ topic \o id \in Seq(Byte)
      <4>1. <<0>> \in Seq(Byte)
        BY SMT DEF Byte
      <4> QED BY <1>3, <4>1, ConcatProperties
    <3>2. ((topic \o id) \o <<0>>) \o p.payload = (topic \o id) \o (<<0>> \o p.payload)
      BY Zenon, <1>1, <3>1, ByteConcat
    <3> QED BY Zenon, <1>5, <2>1, <3>2
  <2>4. V5!WritePublish(p) = V5!Frame(PublishByte(p), n, PublishBody(pr, p))
    <3>1. /\ V5!MqttBytes(p.topic) = topic
          /\ V5!BitIf(p.retain, 1) = BitIf(p.retain, 1) /\ V5!BitIf(p.dup, 8) = BitIf(p.dup, 8)
      BY Zenon, SameWire DEF topic
    <3>2. V5!OptBytes(V5!PublishProps, p.props) = <<0>>
      BY <1>1 DEF V5!OptBytes, V5!None
    <3>3. (IF p.qos # 0 THEN V5!U16(p.pkid) ELSE <<>>) = id
      BY Zenon, SameWire DEF id, PublishId
    <3> QED BY Zenon, <1>1, <2>2, <2>3, <3>1, <3>2, <3>3
            DEF V5!WritePublish, V5!AtMostOnce, V5!PublishByte1, PublishByte
  <2>5. V5!Write(p) = V5!WritePublish(p)
    BY <1>1 DEF V5!Write
  <2> QED BY Zenon, <1>7, <2>4, <2>5, SameWire DEF Write, n
<1> QED BY <1>6, <1>7

\* No properties are a byte 0, and read as none.
LEMMA NoProps ==
  ASSUME NEW order, NEW t \in Seq(Byte)
  PROVE  V5!ReadProps(order, <<0>> \o t) = Got({}, t)
<1>1. 0 \in Nat /\ 0 <= Longest
  BY SMT DEF Longest
<1>2. VarInt(0) = <<0>>
  BY ZeroIs
<1>3. ReadLength(<<0>> \o t) = Got(0, t)
  BY Zenon, <1>1, <1>2, VarIntReadsBack
<1>4. V5!ReadLength(<<0>> \o t) = Got(0, t)
  BY Zenon, <1>3, SameWire
<1>5. /\ V5!ReadLength(<<0>> \o t).err = "ok" /\ V5!ReadLength(<<0>> \o t).val = 0
      /\ V5!ReadLength(<<0>> \o t).rest = t
  BY <1>4 DEF Got
<1> QED BY Zenon, <1>5 DEF V5!ReadProps, V5!None, V5!Got, Got

LEMMA PublishRead ==
  ASSUME NEW pr \in {"v4", "v5"}, NEW p \in PlainPublish
  PROVE  ReadsBack(p, BodyRead(pr, FrameHead(PublishByte(p), PublishBody(pr, p)), p.type, PublishBody(pr, p)))
<1> DEFINE t == PublishRest(pr, p)
           body == PublishBody(pr, p)
           h == FrameHead(PublishByte(p), body)
           id == PublishId(p)
<1>1. /\ Seen(p) = p /\ p.type = "publish" /\ p.props = {}
      /\ p.dup \in BOOLEAN /\ p.retain \in BOOLEAN /\ p.qos \in 0 .. 2
      /\ (p.pkid = 0 <=> p.qos = 0)
      /\ p.topic \in Seq(Byte) /\ p.payload \in Seq(Byte)
      /\ p = [type |-> "publish", dup |-> p.dup, retain |-> p.retain, qos |-> p.qos,
              pkid |-> p.pkid, topic |-> p.topic, payload |-> p.payload, props |-> {}]
  BY Zenon, PlainPublishIs
<1>2. /\ t \in Seq(Byte) /\ body \in Seq(Byte)
      /\ Len(body) = 2 + Len(p.topic) + (IF p.qos = 0 THEN 0 ELSE 2) + Len(t)
  BY Zenon, PublishBodyIs
<1>3. /\ ReadMqttBytes(body) = Got(p.topic, id \o t)
      /\ (IF p.qos = 0 THEN Got(0, id \o t) ELSE ReadUint(2, id \o t)) = Got(p.pkid, t)
  BY Zenon, <1>2, PublishParts DEF PublishBody
<1>4. h.rlen # 0
  <2>1. Len(p.topic) \in Nat /\ Len(t) \in Nat /\ (IF p.qos = 0 THEN 0 ELSE 2) \in {0, 2}
    BY Zenon, <1>1, <1>2, ByteLen
  <2>2. Len(body) # 0
    <3>1. 2 + Len(p.topic) + (IF p.qos = 0 THEN 0 ELSE 2) + Len(t) # 0
      BY <2>1, Sums
    <3> QED BY Zenon, <1>2, <3>1
  <2> QED BY Zenon, <2>2 DEF FrameHead
<1>5. /\ h.byte1 = PublishByte(p) /\ (h.byte1 \div 2) % 4 = p.qos
      /\ Bit(h.byte1, 8) = p.dup /\ Bit(h.byte1, 1) = p.retain
  <2>1. h.byte1 = PublishByte(p)
    BY Zenon DEF FrameHead
  <2>2. /\ (PublishByte(p) \div 2) % 4 = p.qos
        /\ Bit(PublishByte(p), 8) = p.dup /\ Bit(PublishByte(p), 1) = p.retain
    BY <1>1, PublishFlags DEF PublishByte
  <2> QED BY Zenon, <2>1, <2>2
<1>6. ~(p.qos > 2) /\ ~(p.qos # 0 /\ p.pkid = 0)
  BY <1>1
<1> HIDE DEF t, body, h, id
<1>7. CASE pr = "v4"
  <2>1. t = p.payload
    BY <1>7 DEF t, PublishRest
  <2>2. V4!ReadMqttBytes(body) = [err |-> "ok", val |-> p.topic, rest |-> id \o t]
    BY Zenon, <1>3, SameWire DEF Got
  <2>3. (IF p.qos = 0 THEN V4!Got(0, id \o t) ELSE V4!ReadUint(2, id \o t))
          = [err |-> "ok", val |-> p.pkid, rest |-> t]
    BY Zenon, <1>3, SameWire DEF Got
  <2>4. V4!Bit(h.byte1, 8) = p.dup /\ V4!Bit(h.byte1, 1) = p.retain
    BY Zenon, <1>5, SameWire
  <2>5. V4!ReadPublish(h, body) = Got(p, <<>>)
    <3> DEFINE topic == V4!ReadMqttBytes(body)
               pkid == IF p.qos = 0 THEN V4!Got(0, topic.rest) ELSE V4!ReadUint(2, topic.rest)
    <3>1. topic.err = "ok" /\ topic.val = p.topic /\ topic.rest = id \o t
      BY <2>2
    <3>2. pkid = [err |-> "ok", val |-> p.pkid, rest |-> t]
      BY Zenon, <2>3, <3>1
    <3>3. pkid.err = "ok" /\ pkid.val = p.pkid /\ pkid.rest = p.payload
      <4> HIDE DEF pkid
      <4> QED BY <2>1, <3>2
    <3>4. V4!ReadPublish(h, body)
            = V4!Got([type |-> "publish", dup |-> p.dup, retain |-> p.retain, qos |-> p.qos,
                      pkid |-> p.pkid, topic |-> p.topic, payload |-> p.payload, props |-> {}], <<>>)
      BY ZenonT(30), <1>5, <1>6, <2>4, <3>1, <3>3
         DEF V4!ReadPublish, V4!AtMostOnce, V4!ExactlyOnce, V4!None
    <3> QED BY Zenon, <1>1, <3>4, SameWire
  <2>6. BodyRead(pr, h, p.type, body) = V4!ReadPublish(h, body)
    BY <1>1, <1>4, <1>7 DEF BodyRead, Unpack, V4!Unpack, V4!ReadBody
  <2> QED BY <1>1, <2>5, <2>6 DEF ReadsBack, Got, body, h
<1>8. CASE pr = "v5"
  <2>1. t = <<0>> \o p.payload
    BY <1>8 DEF t, PublishRest
  <2>2. V5!ReadMqttBytes(body) = [err |-> "ok", val |-> p.topic, rest |-> id \o t]
    BY Zenon, <1>3, SameWire DEF Got
  <2>3. (IF p.qos = 0 THEN V5!Got(0, id \o t) ELSE V5!ReadUint(2, id \o t))
          = [err |-> "ok", val |-> p.pkid, rest |-> t]
    BY Zenon, <1>3, SameWire DEF Got
  <2>4. V5!Bit(h.byte1, 8) = p.dup /\ V5!Bit(h.byte1, 1) = p.retain
    BY Zenon, <1>5, SameWire
  <2>5. V5!ReadPublish(h, body) = Got(p, <<>>)
    <3> DEFINE topic == V5!ReadMqttBytes(body)
               pkid == IF p.qos = 0 THEN V5!Got(0, topic.rest) ELSE V5!ReadUint(2, topic.rest)
               props == V5!ReadProps(V5!PublishProps, pkid.rest)
    <3>1. topic.err = "ok" /\ topic.val = p.topic /\ topic.rest = id \o t
      BY <2>2
    <3>2. pkid = [err |-> "ok", val |-> p.pkid, rest |-> t]
      BY Zenon, <2>3, <3>1
    <3>3. pkid.err = "ok" /\ pkid.val = p.pkid /\ pkid.rest = t
      <4> HIDE DEF pkid
      <4> QED BY <3>2
    <3>4. props = Got({}, p.payload)
      BY Zenon, <1>1, <2>1, <3>3, NoProps
    <3>5. props.err = "ok" /\ props.val = {} /\ props.rest = p.payload
      <4> HIDE DEF props
      <4> QED BY <3>4 DEF Got
    <3>6. V5!ReadPublish(h, body)
            = V5!Got([type |-> "publish", dup |-> p.dup, retain |-> p.retain, qos |-> p.qos,
                      pkid |-> p.pkid, topic |-> p.topic, payload |-> p.payload, props |-> {}], <<>>)
      BY ZenonT(30), <1>5, <1>6, <2>4, <3>1, <3>3, <3>5
         DEF V5!ReadPublish, V5!AtMostOnce, V5!ExactlyOnce, V5!None
    <3> QED BY Zenon, <1>1, <3>6, SameWire
  <2>6. BodyRead(pr, h, p.type, body) = V5!ReadPublish(h, body)
    BY <1>1, <1>4, <1>8 DEF BodyRead, Unpack, V5!Unpack, V5!ReadBody
  <2> QED BY <1>1, <2>5, <2>6 DEF ReadsBack, Got, body, h
<1> QED BY <1>7, <1>8

\* Every publish without properties reads back, in both codecs: any topic and
\* payload, any flags and packet id.
LEMMA PlainPublishWhole ==
  ASSUME NEW pr \in {"v4", "v5"}, NEW p \in PlainPublish, Write(pr, p).err = "ok"
  PROVE  FrameWhole(pr, p, Write(pr, p))
<1>1. /\ Seen(p) = p /\ Protocol!IsPacket(p) /\ p.type = "publish"
      /\ p.dup \in BOOLEAN /\ p.retain \in BOOLEAN /\ p.qos \in 0 .. 2
  BY Zenon, PlainPublishIs
<1>2. PublishByte(p) \in Byte /\ PublishByte(p) \div 16 = 3
  BY <1>1, PublishFlags DEF PublishByte
<1>3. 3 \in DOMAIN PacketTypes /\ PacketTypes[3] = "publish"
  BY SMT DEF PacketTypes
<1>4. PublishBody(pr, p) \in Seq(Byte)
  BY Zenon, PublishBodyIs
<1> QED BY ZenonT(20), <1>1, <1>2, <1>3, <1>4, PublishWritten, PublishRead, FrameIsWhole

------------------------------------------------------------------------------
\* Message traffic: what follows a handshake, while nobody uses a property.
Traffic == PlainPublish \cup PlainAck \cup PlainEmpty

OnlyTraffic ==
  \A pr \in DOMAIN Batches : pr \in {"v4", "v5"} /\
    \A batch \in Batches[pr] : \A i \in DOMAIN batch : batch[i] \in Traffic

LEMMA TrafficWhole ==
  ASSUME NEW pr \in {"v4", "v5"}, NEW p \in Traffic, Write(pr, p).err = "ok"
  PROVE  FrameWhole(pr, p, Write(pr, p))
<1>1. CASE p \in PlainPublish
  BY Zenon, <1>1, PlainPublishWhole
<1>2. CASE p \in PlainAck
  BY Zenon, <1>2, PlainAckWhole
<1>3. CASE p \in PlainEmpty
  BY Zenon, <1>3, PlainEmptyWhole
<1> QED BY <1>1, <1>2, <1>3 DEF Traffic

\* The length functions, the writers and the readers of both codecs agree on
\* every PUBLISH, whatever its topic, payload, flags and packet id, on every
\* acknowledgement of success, on pings and on a plain DISCONNECT.
THEOREM TrafficReadsBack ==
  ASSUME OnlyTraffic
  PROVE  CodecsAgree
<1>1. ASSUME NEW pr \in DOMAIN Batches, NEW batch \in Batches[pr], NEW i \in DOMAIN batch,
             Write(pr, batch[i]).err = "ok"
      PROVE  FrameWhole(pr, batch[i], Write(pr, batch[i]))
  <2>1. pr \in {"v4", "v5"} /\ batch[i] \in Traffic
    BY DEF OnlyTraffic
  <2> QED BY Zenon, <1>1, <2>1, TrafficWhole
<1> QED BY <1>1 DEF CodecsAgree, FramesOf

\* Message traffic is framed so that it reads back, and arrives whole, in order
\* and once, whatever chunks the socket yields and however often the pending read
\* is dropped; nothing stays behind, and a connection that ends cut is told from
\* one that ends clean.
THEOREM TrafficArrives ==
  ASSUME OnlyTraffic
  PROVE  Spec => [](FramesReadBack /\ InOrder /\ NothingLeftBehind /\ EndToldRight)
<1>1. CodecsAgree
  BY TrafficReadsBack
<1>2. Spec => []FramesReadBack
  <2>1. Framed => FramesReadBack
    BY <1>1 DEF Framed, FramesReadBack, CodecsAgree
  <2> QED BY <1>1, <2>1, FramedAlways, PTL
<1>3. Spec => []InOrder
  BY <1>1, InOrderAlways
<1>4. Spec => []NothingLeftBehind
  BY <1>1, NothingLeftBehindAlways
<1>5. Spec => []EndToldRight
  BY <1>1, EndToldRightAlways
<1> QED BY <1>2, <1>3, <1>4, <1>5, PTL
=============================================================================
