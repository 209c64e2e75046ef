--------------------------- MODULE CommitLogProofs ---------------------------
(***************************************************************************)
(* Theorems about CommitLog for every segment size, segment limit, message  *)
(* size and read length.                                                    *)
(***************************************************************************)
EXTENDS CommitLog, TLAPS

------------------------------------------------------------------------------
\* A segment that takes one more message.
LEMMA PushSegment ==
    ASSUME NEW s \in Segment, NEW m \in Message
    PROVE  /\ Push(s, m) \in Segment
           /\ Push(s, m).absolute_offset = s.absolute_offset
           /\ Push(s, m).total_size = s.total_size + m.size
           /\ Len(Push(s, m).data) = Len(s.data) + 1
           /\ EndOf(Push(s, m)) = EndOf(s) + 1
           /\ Push(s, m).data[Len(s.data) + 1] = m
           /\ \A j \in 1 .. Len(s.data) : Push(s, m).data[j] = s.data[j]
<1> DEFINE p == Push(s, m)
<1>1. m.size \in Nat /\ s.total_size \in Nat /\ s.absolute_offset \in Nat
  BY LogAssumption DEF Segment, Message
<1>2. s.data \in Seq(Message)
  BY DEF Segment
<1>3. p = [absolute_offset |-> s.absolute_offset, total_size |-> s.total_size + m.size,
           data |-> Append(s.data, m)]
  BY DEF Push, Segment
<1>4. /\ Append(s.data, m) \in Seq(Message)
      /\ Len(Append(s.data, m)) = Len(s.data) + 1
      /\ Append(s.data, m)[Len(s.data) + 1] = m
      /\ \A j \in 1 .. Len(s.data) : Append(s.data, m)[j] = s.data[j]
  BY <1>2
<1> HIDE DEF p
<1> QED BY <1>1, <1>2, <1>3, <1>4 DEF p, Segment, EndOf

\* An empty segment starts and ends at its offset.
LEMMA EmptySegment ==
    ASSUME NEW o \in Nat
    PROVE  /\ WithOffset(o) \in Segment
           /\ WithOffset(o).absolute_offset = o
           /\ WithOffset(o).total_size = 0
           /\ Len(WithOffset(o).data) = 0
           /\ EndOf(WithOffset(o)) = o
BY DEF WithOffset, Segment, EndOf

\* What Segment::readv returns for a cursor inside the segment: messages
\* stored there, from the cursor on, as many as asked for or all the rest.
LEMMA SegmentRead ==
    ASSUME NEW s \in Segment, NEW c \in Cursor, NEW len \in Nat,
           s.absolute_offset <= c[2], c[2] <= EndOf(s),
           \A j \in 1 .. Len(s.data) : s.data[j].ordinal = s.absolute_offset + j - 1
    PROVE  LET r == SegmentReadv(s, c, len) IN
           /\ r.out \in Seq(Entry)
           /\ r.next \in Nat
           /\ r.pos \in {"Next", "Done"}
           /\ Len(r.out) = r.next - c[2]
           /\ Len(r.out) <= len
           /\ c[2] <= r.next
           /\ r.next <= EndOf(s)
           /\ r.pos = "Next" => Len(r.out) = len /\ r.next < EndOf(s)
           /\ r.pos = "Done" => r.next = EndOf(s)
           /\ \A i \in 1 .. Len(r.out) :
                 /\ r.out[i].offset = <<c[1], c[2] + i - 1>>
                 /\ r.out[i].message.ordinal = c[2] + i - 1
<1> DEFINE idx   == c[2] - s.absolute_offset
           size  == Len(s.data)
           limit == IF idx + len >= size THEN size ELSE idx + len
           copy  == [k \in 1 .. limit - idx |->
                        [message |-> s.data[idx + k],
                         offset  |-> <<c[1], c[2] + k - 1>>]]
           r     == SegmentReadv(s, c, len)
<1>1. /\ size \in Nat /\ idx \in Nat /\ idx <= size
      /\ c[1] \in Nat /\ c[2] \in Nat /\ s.absolute_offset \in Nat
      /\ c[2] = s.absolute_offset + idx
      /\ EndOf(s) = s.absolute_offset + size
      /\ s.data \in Seq(Message)
  BY DEF Segment, Cursor, EndOf
<1>2. CASE idx >= size
  <2>1. r = [pos |-> "Done", next |-> EndOf(s), out |-> <<>>]
    BY <1>2 DEF SegmentReadv
  <2> QED BY <2>1, <1>1, <1>2
<1>3. CASE idx < size
  <2>1. r = [pos |-> IF idx + len >= size THEN "Done" ELSE "Next",
             next |-> s.absolute_offset + limit, out |-> copy]
    BY <1>3, <1>1 DEF SegmentReadv
  <2> HIDE DEF idx, size, r
  <2>2. limit \in Nat /\ limit - idx \in Nat /\ limit <= size
    BY <1>1, <1>3
  <2>3. /\ idx + len >= size => limit = size
        /\ idx + len < size => limit = idx + len
    BY <1>1
  <2> HIDE DEF limit
  <2>4. ASSUME NEW k \in 1 .. limit - idx
        PROVE  /\ idx + k \in 1 .. size
               /\ s.data[idx + k] \in Message
               /\ s.data[idx + k].ordinal = c[2] + k - 1
               /\ c[2] + k - 1 \in Nat
               /\ <<c[1], c[2] + k - 1>> \in Cursor
    <3>1. idx + k \in 1 .. size /\ c[2] + k - 1 \in Nat
      <4>1. limit \in Nat /\ idx \in Nat /\ size \in Nat /\ limit <= size
        BY <1>1, <2>2
      <4>2. k \in Nat /\ 1 <= k /\ k <= limit - idx
        BY <4>1
      <4>3. idx + k \in 1 .. size
        BY <4>1, <4>2
      <4>4. c[2] \in Nat
        BY <1>1
      <4>5. c[2] + k - 1 \in Nat
        BY <4>2, <4>4
      <4> QED BY <4>3, <4>5
    <3>2. s.data[idx + k].ordinal = s.absolute_offset + (idx + k) - 1
      BY <3>1 DEF size
    <3>3. s.data[idx + k] \in Message
      BY <3>1, <1>1 DEF size
    <3> QED BY <3>1, <3>2, <3>3, <1>1 DEF Cursor
  <2>5. copy \in Seq(Entry) /\ Len(copy) = limit - idx
    <3> DEFINE n == limit - idx
    <3>1. \A k \in 1 .. n : [message |-> s.data[idx + k],
                              offset |-> <<c[1], c[2] + k - 1>>] \in Entry
      BY <2>4 DEF Entry
    <3>2. copy \in [1 .. n -> Entry]
      BY <3>1
    <3>3. n \in Nat
      BY <2>2
    <3> HIDE DEF n, copy
    <3>4. copy \in Seq(Entry) /\ Len(copy) = n
      BY <3>2, <3>3
    <3> QED BY <3>4 DEF n
  <2>6. \A i \in 1 .. Len(copy) :
            /\ copy[i].offset = <<c[1], c[2] + i - 1>>
            /\ copy[i].message.ordinal = c[2] + i - 1
    BY <2>4, <2>5
  <2> HIDE DEF copy
  <2>7. r.out = copy /\ r.next = s.absolute_offset + limit
    BY <2>1
  <2>8. /\ r.next \in Nat
        /\ Len(copy) = r.next - c[2]
        /\ Len(copy) <= len
        /\ c[2] <= r.next
        /\ r.next <= EndOf(s)
    <3> DEFINE o == s.absolute_offset
               m == Len(copy)
    <3>1. /\ o \in Nat /\ idx \in Nat /\ size \in Nat /\ limit \in Nat /\ len \in Nat
          /\ limit <= size /\ idx <= limit
          /\ c[2] = o + idx /\ EndOf(s) = o + size /\ r.next = o + limit
          /\ m = limit - idx
      <4>1. limit - idx \in Nat /\ limit \in Nat /\ idx \in Nat
        BY <1>1, <2>2
      <4>2. idx <= limit
        BY <4>1
      <4> QED BY <4>2, <1>1, <2>2, <2>5, <2>7
    <3>2. limit <= idx + len
      BY <2>3, <3>1
    <3> HIDE DEF o, m
    <3>3. r.next \in Nat /\ c[2] <= r.next /\ r.next <= EndOf(s)
      BY <3>1
    <3>4. m = r.next - c[2]
      BY <3>1
    <3>5. m <= len
      BY <3>1, <3>2
    <3> QED BY <3>3, <3>4, <3>5 DEF m
  <2>9. \/ r.pos = "Done" /\ r.next = EndOf(s)
        \/ r.pos = "Next" /\ Len(copy) = len /\ r.next < EndOf(s)
    BY <2>1, <2>2, <2>3, <2>5, <2>7, <1>1
  <2> QED BY <2>5, <2>6, <2>7, <2>8, <2>9 DEF r
<1> HIDE DEF idx, size, limit, copy, r
<1>4. idx >= size \/ idx < size
  BY <1>1
<1> QED BY <1>2, <1>3, <1>4, Zenon

------------------------------------------------------------------------------
\* What append does to the deque: d = 1 segments are dropped at the front or
\* none, the closed segments are kept as they are, and the last segment is
\* either the active one with the message pushed, or a new one holding it.
Appended(m, d) ==
    LET n == Len(segments)
        k == Len(segments')
    IN  /\ d \in {0, 1}
        /\ head' = head + d
        /\ segments' \in Seq(Segment)
        /\ k \in 1 .. MaxMemSegments
        /\ \/ /\ ~Full /\ d = 0 /\ tail' = tail /\ k = n
              /\ \A i \in 1 .. k - 1 : segments'[i] = segments[i]
              /\ segments'[k] = Push(segments[n], m)
           \/ /\ Full /\ tail' = tail + 1 /\ k = n - d + 1
              /\ \A i \in 1 .. k - 1 : segments'[i] = segments[i + d]
              /\ segments'[k] = Push(WithOffset(EndOf(segments[n])), m)

\* CommitLog::append (segments/mod.rs): the new active segment, by the two
\* conditions of apply_retention.
LEMMA AppendShape ==
    ASSUME TypeOK, SegmentsContiguous, NEW size \in Sizes, AppendMessage(size)
    PROVE  LET m == [ordinal |-> EndOf(Active), size |-> size] IN
           /\ m \in Message
           /\ Active \in Segment
           /\ \E d \in {0, 1} : Appended(m, d)
<1> DEFINE m   == [ordinal |-> EndOf(Active), size |-> size]
           n   == Len(segments)
           new == Push(WithOffset(EndOf(segments[n])), m)
           old == Push(segments[n], m)
<1>1. /\ head \in Nat /\ tail \in Nat /\ segments \in Seq(Segment)
      /\ n = tail - head + 1 /\ n \in 1 .. MaxMemSegments /\ n \in Nat
      /\ MaxMemSegments \in Nat
  BY LogAssumption DEF TypeOK, SegmentsContiguous
<1>2. segments[n] \in Segment /\ Active = segments[n]
  BY <1>1 DEF Active
<1>3. EndOf(Active) \in Nat /\ m \in Message
  BY <1>2 DEF EndOf, Segment, Message
<1>4. old \in Segment /\ new \in Segment
  BY <1>2, <1>3, PushSegment, EmptySegment
<1> SUFFICES \E d \in {0, 1} : Appended(m, d)
  BY <1>2, <1>3
<1> HIDE DEF m, n, new, old
<1>5. /\ segments' = [Retained EXCEPT ![Len(Retained)] = Push(Retained[Len(Retained)], m)]
      /\ head' = IF Full /\ n >= MaxMemSegments THEN head + 1 ELSE head
      /\ tail' = IF Full THEN tail + 1 ELSE tail
  BY DEF AppendMessage, m, n
<1>6. CASE ~Full
  <2>1. segments' = [segments EXCEPT ![n] = old]
    BY <1>5, <1>6 DEF Retained, old, n
  <2>2. /\ segments' \in Seq(Segment) /\ Len(segments') = n
        /\ \A i \in 1 .. n - 1 : segments'[i] = segments[i]
        /\ segments'[n] = old
    BY <2>1, <1>1, <1>4 DEF n
  <2> QED BY <2>2, <1>1, <1>5, <1>6 DEF Appended, n, old
<1>7. CASE Full /\ n < MaxMemSegments
  <2> DEFINE w == WithOffset(EndOf(segments[n]))
  <2>1. Retained = Append(segments, w)
    BY <1>7, <1>2, <1>1 DEF Retained, n
  <2>2. w \in Segment
    BY <1>2, <1>3, EmptySegment
  <2>3. new = Push(w, m)
    BY DEF new
  <2> HIDE DEF w
  <2>4. /\ Len(Retained) = n + 1 /\ Retained[n + 1] = w
        /\ Retained \in Seq(Segment)
        /\ \A i \in 1 .. n : Retained[i] = segments[i]
    BY <2>1, <2>2, <1>1 DEF n
  <2>5. segments' = [Retained EXCEPT ![n + 1] = new]
    BY <2>3, <2>4, <1>5
  <2>6. /\ segments' \in Seq(Segment) /\ Len(segments') = n + 1
        /\ \A i \in 1 .. n : segments'[i] = segments[i]
        /\ segments'[n + 1] = new
    BY <2>4, <2>5, <1>1, <1>4
  <2>7. Appended(m, 0)
    BY <2>6, <1>1, <1>5, <1>7 DEF Appended, n, new
  <2> QED BY <2>7
<1>8. CASE Full /\ n >= MaxMemSegments
  <2> DEFINE w == WithOffset(EndOf(segments[n]))
  <2>1. Retained = Append(Tail(segments), w)
    BY <1>8, <1>2, <1>1 DEF Retained, n
  <2>2. w \in Segment
    BY <1>2, <1>3, EmptySegment
  <2>3. new = Push(w, m)
    BY DEF new
  <2> HIDE DEF w
  <2>4. /\ Tail(segments) \in Seq(Segment) /\ Len(Tail(segments)) = n - 1
        /\ \A i \in 1 .. n - 1 : Tail(segments)[i] = segments[i + 1]
    BY <1>1 DEF n
  <2>5. /\ Len(Retained) = n /\ Retained[n] = w
        /\ Retained \in Seq(Segment)
        /\ \A i \in 1 .. n - 1 : Retained[i] = segments[i + 1]
    BY <2>1, <2>2, <2>4, <1>1
  <2>6. segments' = [Retained EXCEPT ![n] = new]
    BY <2>3, <2>5, <1>5
  <2>7. /\ segments' \in Seq(Segment) /\ Len(segments') = n
        /\ \A i \in 1 .. n - 1 : segments'[i] = segments[i + 1]
        /\ segments'[n] = new
    BY <2>5, <2>6, <1>1, <1>4
  <2>8. Appended(m, 1)
    BY <2>7, <1>1, <1>5, <1>8 DEF Appended, n, new
  <2> QED BY <2>8
<1>9. n < MaxMemSegments \/ n >= MaxMemSegments
  BY <1>1
<1> QED BY <1>6, <1>7, <1>8, <1>9

\* The fields of a segment.
LEMMA SegmentFields ==
    ASSUME NEW s \in Segment
    PROVE  /\ s.absolute_offset \in Nat
           /\ s.total_size \in Nat
           /\ s.data \in Seq(Message)
           /\ Len(s.data) \in Nat
           /\ EndOf(s) = s.absolute_offset + Len(s.data)
           /\ EndOf(s) \in Nat
BY DEF Segment, EndOf

\* A segment whose messages are named by their offsets, and that exceeds the
\* size limit by no more than its last message.
Named(s)   == \A j \in 1 .. Len(s.data) : s.data[j].ordinal = s.absolute_offset + j - 1
Bounded(s) == Len(s.data) > 0 => s.total_size - s.data[Len(s.data)].size < MaxSegmentSize

\* Both survive a push to a segment that is not full.
LEMMA PushKeeps ==
    ASSUME NEW s \in Segment, NEW m \in Message,
           m.ordinal = EndOf(s), s.total_size < MaxSegmentSize, Named(s)
    PROVE  Named(Push(s, m)) /\ Bounded(Push(s, m))
<1> DEFINE q == Push(s, m)
<1>1. /\ q \in Segment /\ q.absolute_offset = s.absolute_offset
      /\ q.total_size = s.total_size + m.size
      /\ Len(q.data) = Len(s.data) + 1
      /\ q.data[Len(s.data) + 1] = m
      /\ \A j \in 1 .. Len(s.data) : q.data[j] = s.data[j]
  BY PushSegment
<1>2. /\ s.absolute_offset \in Nat /\ s.total_size \in Nat /\ Len(s.data) \in Nat
      /\ EndOf(s) = s.absolute_offset + Len(s.data)
  BY SegmentFields
<1>3. m.size \in Nat /\ MaxSegmentSize \in Nat
  BY LogAssumption DEF Message
<1> HIDE DEF q
<1>4. Bounded(q)
  BY <1>1, <1>2, <1>3 DEF Bounded
<1>5. ASSUME NEW j \in 1 .. Len(q.data)
      PROVE  q.data[j].ordinal = q.absolute_offset + j - 1
  <2>1. CASE j \in 1 .. Len(s.data)
    BY <2>1, <1>1 DEF Named
  <2>2. CASE j = Len(s.data) + 1
    BY <2>2, <1>1, <1>2
  <2> QED BY <2>1, <2>2, <1>1, <1>2
<1> QED BY <1>4, <1>5 DEF q, Named

------------------------------------------------------------------------------
\* No segment starts before an older one.
Ordered == \A i \in 1 .. Len(segments) : \A j \in i .. Len(segments) :
              segments[i].absolute_offset <= segments[j].absolute_offset

LogInv ==
    /\ head \in Nat
    /\ tail \in Nat
    /\ segments \in Seq(Segment)
    /\ SegmentsContiguous
    /\ SizeBounded
    /\ OffsetsName
    /\ Ordered

\* What holds of the segments of a good log.
LEMMA LogFacts ==
    ASSUME LogInv
    PROVE  LET n == Len(segments) IN
           /\ n \in Nat /\ n >= 1 /\ n <= MaxMemSegments /\ n = tail - head + 1
           /\ MaxMemSegments \in Nat
           /\ MaxSegmentSize \in Nat
           /\ Active = segments[n]
           /\ \A i \in 1 .. n :
                 /\ segments[i] \in Segment
                 /\ segments[i].absolute_offset \in Nat
                 /\ EndOf(segments[i]) \in Nat
                 /\ segments[i].absolute_offset <= EndOf(segments[i])
                 /\ Named(segments[i])
                 /\ Bounded(segments[i])
<1> DEFINE n == Len(segments)
<1>1. /\ n \in Nat /\ n >= 1 /\ n <= MaxMemSegments /\ n = tail - head + 1
      /\ MaxMemSegments \in Nat /\ MaxSegmentSize \in Nat /\ Active = segments[n]
  BY LogAssumption DEF LogInv, SegmentsContiguous, Active
<1>2. ASSUME NEW i \in 1 .. n
      PROVE  /\ segments[i] \in Segment
             /\ segments[i].absolute_offset \in Nat
             /\ EndOf(segments[i]) \in Nat
             /\ segments[i].absolute_offset <= EndOf(segments[i])
             /\ Named(segments[i])
             /\ Bounded(segments[i])
  <2>1. segments[i] \in Segment
    BY DEF LogInv
  <2>2. Named(segments[i]) /\ Bounded(segments[i])
    BY DEF LogInv, OffsetsName, SizeBounded, Named, Bounded
  <2> DEFINE s == segments[i]
  <2>3. /\ s.absolute_offset \in Nat /\ Len(s.data) \in Nat /\ EndOf(s) \in Nat
        /\ EndOf(s) = s.absolute_offset + Len(s.data)
    BY <2>1, SegmentFields
  <2> QED BY <2>1, <2>2, <2>3
<1> QED BY <1>1, <1>2

\* The two shapes of an append as one: d segments go at the front, the others
\* stay, and the last one, q, takes the message.
Moved(d, q) ==
    LET n == Len(segments)
        k == Len(segments')
    IN  /\ d \in {0, 1} /\ d < n + 1
        /\ head' = head + d
        /\ tail' \in Nat
        /\ tail <= tail'
        /\ segments' \in Seq(Segment)
        /\ k \in 1 .. MaxMemSegments
        /\ k = tail' - head' + 1
        /\ k - 1 + d \in {n - 1, n}
        /\ \A i \in 1 .. k - 1 : segments'[i] = segments[i + d]
        /\ segments'[k] = q
        /\ q \in Segment
        /\ Named(q)
        /\ Bounded(q)
        /\ EndOf(q) = EndOf(Active) + 1
        /\ \/ k - 1 + d = n - 1 /\ q.absolute_offset = segments[n].absolute_offset
              /\ d = 0
           \/ k - 1 + d = n /\ q.absolute_offset = EndOf(Active)

\* An append keeps a suffix of the segments and puts one after it.
LEMMA AppendMoves ==
    ASSUME LogInv, TypeOK, NEW size \in Sizes, AppendMessage(size)
    PROVE  \E d \in {0, 1}, q \in Segment : Moved(d, q)
<1> DEFINE m == [ordinal |-> EndOf(Active), size |-> size]
           n == Len(segments)
           k == Len(segments')
           p == segments[n]
           w == WithOffset(EndOf(p))
<1>0. SegmentsContiguous /\ head \in Nat /\ tail \in Nat
  BY DEF LogInv
<1>1. PICK d \in {0, 1} : Appended(m, d)
  BY <1>0, AppendShape
<1>2. m \in Message /\ m.ordinal = EndOf(p) /\ Active = p
  BY <1>0, AppendShape DEF Active
<1>3. /\ n \in Nat /\ n >= 1 /\ n = tail - head + 1 /\ MaxMemSegments \in Nat
      /\ p \in Segment /\ Named(p) /\ EndOf(p) \in Nat /\ MaxSegmentSize \in Nat
  BY LogFacts
<1>4. p.total_size \in Nat
  BY <1>3, SegmentFields
<1> HIDE DEF m, n, k, p, w
<1>5. /\ head' = head + d /\ segments' \in Seq(Segment) /\ k \in 1 .. MaxMemSegments
      /\ k \in Nat
  BY <1>1, <1>3 DEF Appended, k
<1>6. CASE /\ ~Full /\ d = 0 /\ tail' = tail /\ k = n
           /\ \A i \in 1 .. k - 1 : segments'[i] = segments[i]
           /\ segments'[k] = Push(p, m)
  <2>1. /\ Push(p, m) \in Segment /\ Push(p, m).absolute_offset = p.absolute_offset
        /\ EndOf(Push(p, m)) = EndOf(p) + 1
    BY <1>2, <1>3, PushSegment
  <2>2. p.total_size < MaxSegmentSize
    BY <1>6, <1>2, <1>3, <1>4 DEF Full
  <2>3. Named(Push(p, m)) /\ Bounded(Push(p, m))
    BY <2>2, <1>2, <1>3, PushKeeps
  <2>4. Moved(d, Push(p, m))
    BY <2>1, <2>3, <1>0, <1>2, <1>3, <1>5, <1>6 DEF Moved, n, k, p
  <2> QED BY <2>1, <2>4
<1>7. CASE /\ Full /\ tail' = tail + 1 /\ k = n - d + 1
           /\ \A i \in 1 .. k - 1 : segments'[i] = segments[i + d]
           /\ segments'[k] = Push(w, m)
  <2>1. /\ w \in Segment /\ w.absolute_offset = EndOf(p) /\ w.total_size = 0
        /\ Len(w.data) = 0 /\ EndOf(w) = EndOf(p)
    BY <1>3, EmptySegment DEF w
  <2>2. /\ Push(w, m) \in Segment /\ Push(w, m).absolute_offset = EndOf(p)
        /\ EndOf(Push(w, m)) = EndOf(p) + 1
    BY <2>1, <1>2, PushSegment
  <2>3. Named(w) /\ w.total_size < MaxSegmentSize
    BY <2>1, LogAssumption DEF Named
  <2>4. Named(Push(w, m)) /\ Bounded(Push(w, m))
    BY <2>1, <2>3, <1>2, PushKeeps
  <2>5. tail' \in Nat /\ tail <= tail' /\ k = tail' - head' + 1 /\ k - 1 + d = n
        /\ d < n + 1
    BY <1>0, <1>3, <1>5, <1>7
  <2>6. Moved(d, Push(w, m))
    BY <2>2, <2>4, <2>5, <1>2, <1>5, <1>7 DEF Moved, n, k
  <2> QED BY <2>2, <2>6
<1>8. \/ /\ ~Full /\ d = 0 /\ tail' = tail /\ k = n
         /\ \A i \in 1 .. k - 1 : segments'[i] = segments[i]
         /\ segments'[k] = Push(p, m)
      \/ /\ Full /\ tail' = tail + 1 /\ k = n - d + 1
         /\ \A i \in 1 .. k - 1 : segments'[i] = segments[i + d]
         /\ segments'[k] = Push(w, m)
  BY <1>1 DEF Appended, n, k, p, w
<1> QED BY <1>6, <1>7, <1>8

\* Appending keeps the log good, moves its end by one message and its start
\* never backwards nor past the old end, and every cursor stays valid.
LEMMA AppendStep ==
    ASSUME LogInv, TypeOK, NEW size \in Sizes, AppendMessage(size)
    PROVE  /\ LogInv'
           /\ EndOf(Active)' = EndOf(Active) + 1
           /\ segments[1].absolute_offset <= segments'[1].absolute_offset
           /\ segments'[1].absolute_offset <= EndOf(Active)
           /\ \A c \in Cursor : CursorValid(c) => CursorValid(c)'
<1> DEFINE n == Len(segments)
           k == Len(segments')
           e == EndOf(segments[n])
<1>1. PICK d \in {0, 1}, q \in Segment : Moved(d, q)
  BY AppendMoves
<1>2. /\ n \in Nat /\ n >= 1 /\ n <= MaxMemSegments /\ n = tail - head + 1
      /\ Active = segments[n]
      /\ \A i \in 1 .. n : /\ segments[i].absolute_offset \in Nat
                           /\ EndOf(segments[i]) \in Nat
                           /\ segments[i].absolute_offset <= EndOf(segments[i])
                           /\ Named(segments[i])
                           /\ Bounded(segments[i])
  BY LogFacts
<1>3. head \in Nat /\ tail \in Nat
  BY DEF LogInv
<1>4. \A i \in 1 .. n - 1 : segments[i + 1].absolute_offset = EndOf(segments[i])
  BY DEF LogInv, SegmentsContiguous
<1>5. \A i \in 1 .. n : \A j \in i .. n :
         segments[i].absolute_offset <= segments[j].absolute_offset
  BY DEF LogInv, Ordered
<1>6. /\ d \in {0, 1} /\ d < n + 1 /\ head' = head + d /\ tail' \in Nat
      /\ tail <= tail'
      /\ segments' \in Seq(Segment) /\ k \in 1 .. MaxMemSegments /\ k \in Nat
      /\ k >= 1
      /\ k = tail' - head' + 1 /\ k - 1 + d \in {n - 1, n}
      /\ \A i \in 1 .. k - 1 : segments'[i] = segments[i + d]
      /\ segments'[k] = q
      /\ Named(q) /\ Bounded(q) /\ EndOf(q) = e + 1
  BY <1>1, <1>2, LogFacts DEF Moved
<1>7. \/ k - 1 + d = n - 1 /\ q.absolute_offset = segments[n].absolute_offset /\ d = 0
      \/ k - 1 + d = n /\ q.absolute_offset = e
  BY <1>1, <1>2 DEF Moved
<1>8. q.absolute_offset \in Nat /\ e \in Nat /\ EndOf(q) \in Nat
      /\ q.absolute_offset <= e
  BY <1>2, <1>7, SegmentFields
<1>9. Active' = segments'[k]
  BY DEF Active
<1> HIDE DEF n, k, e
<1>a. /\ k \in Nat /\ n \in Nat /\ d \in Nat /\ n >= 1 /\ k >= 1
      /\ (d = 0 \/ d = 1) /\ (k + d = n \/ k + d = n + 1)
  <2>1. /\ k \in Nat /\ n \in Nat /\ d \in {0, 1} /\ n >= 1 /\ k >= 1
        /\ k - 1 + d \in {n - 1, n}
    BY <1>2, <1>6
  <2>2. k - 1 + d = n - 1 \/ k - 1 + d = n
    BY <2>1
  <2>3. k + d = n \/ k + d = n + 1
    BY <2>1, <2>2
  <2> QED BY <2>1, <2>3
<1>d. /\ k = tail' - head' + 1 /\ n = tail - head + 1 /\ head' = head + d
      /\ head \in Nat /\ tail \in Nat /\ tail' \in Nat /\ head' \in Nat
      /\ tail <= tail'
  <2>1. k = tail' - head' + 1 /\ n = tail - head + 1 /\ head' = head + d
        /\ tail' \in Nat /\ tail <= tail'
    BY <1>2, <1>6
  <2> QED BY <2>1, <1>a, <1>3
<1>b. \A i \in 1 .. k - 1 : segments'[i] = segments[i + d]
  BY <1>6
<1>10. \A i \in 1 .. k - 1 : i + d \in 1 .. n
  BY <1>a
<1>c. \/ k + d = n /\ q.absolute_offset = segments[n].absolute_offset /\ d = 0 /\ k = n
      \/ k + d = n + 1 /\ q.absolute_offset = e
  <2>1. CASE k - 1 + d = n - 1 /\ q.absolute_offset = segments[n].absolute_offset /\ d = 0
    BY <2>1, <1>a
  <2>2. CASE k - 1 + d = n /\ q.absolute_offset = e
    BY <2>2, <1>a
  <2> QED BY <2>1, <2>2, <1>7
<1>11. SegmentsContiguous'
  <2>1. ASSUME NEW i \in 1 .. k - 1
        PROVE  segments'[i + 1].absolute_offset = EndOf(segments'[i])
    <3>1. segments'[i] = segments[i + d] /\ i + d \in 1 .. n
      BY <1>6, <1>10
    <3>2. CASE i + 1 < k
      <4>1. i + 1 \in 1 .. k - 1 /\ i + d \in 1 .. n - 1
        BY <3>2, <1>a
      <4>2. segments'[i + 1] = segments[(i + d) + 1]
        <5>1. segments'[i + 1] = segments[(i + 1) + d]
          BY <4>1, <1>b
        <5>2. (i + 1) + d = (i + d) + 1
          BY <1>a
        <5> QED BY <5>1, <5>2
      <4> QED BY <3>1, <4>1, <4>2, <1>4
    <3>3. CASE i + 1 = k
      <4>1. CASE k = n /\ d = 0 /\ q.absolute_offset = segments[n].absolute_offset
        <5>1. i \in 1 .. n - 1 /\ i + d = i /\ i + 1 = n
          BY <4>1, <3>3, <1>a
        <5> QED BY <5>1, <4>1, <3>1, <3>3, <1>4, <1>6
      <4>2. CASE k + d = n + 1 /\ q.absolute_offset = e
        <5>1. i + d = n
          BY <4>2, <3>3, <1>a
        <5> QED BY <5>1, <4>2, <3>1, <3>3, <1>6 DEF e
      <4> QED BY <4>1, <4>2, <1>c
    <3> QED BY <3>2, <3>3, <1>6
  <2> QED BY <2>1, <1>6 DEF SegmentsContiguous, k
<1>12. \A i \in 1 .. k : Named(segments'[i]) /\ Bounded(segments'[i])
  <2> TAKE i \in 1 .. k
  <2>1. CASE i = k
    BY <2>1, <1>6
  <2>2. CASE i < k
    <3>1. i \in 1 .. k - 1
      BY <2>2, <1>6
    <3> QED BY <3>1, <1>2, <1>6, <1>10
  <2> QED BY <2>1, <2>2, <1>6
<1>13. SizeBounded' /\ OffsetsName'
  BY <1>12 DEF SizeBounded, OffsetsName, Named, Bounded, k
<1>14. Ordered'
  <2>1. ASSUME NEW i \in 1 .. k, NEW j \in i .. k
        PROVE  segments'[i].absolute_offset <= segments'[j].absolute_offset
    <3>1. CASE j < k
      <4>1. i \in 1 .. k - 1 /\ j \in 1 .. k - 1
        BY <3>1, <1>6
      <4>2. i + d \in 1 .. n /\ j + d \in i + d .. n
        BY <4>1, <3>1, <1>6, <1>10
      <4> QED BY <4>1, <4>2, <1>5, <1>6
    <3>2. CASE j = k /\ i < k
      <4>1. i \in 1 .. k - 1 /\ i + d \in 1 .. n /\ n \in i + d .. n /\ n \in 1 .. n
        <5>1. i \in 1 .. k - 1 /\ n \in 1 .. n
          BY <3>2, <1>a
        <5>2. i + d \in 1 .. n
          BY <5>1, <1>10
        <5>3. n \in i + d .. n
          BY <5>1, <5>2, <1>a
        <5> QED BY <5>1, <5>2, <5>3
      <4>2. /\ segments'[i] = segments[i + d] /\ segments'[j] = q
            /\ segments[i + d].absolute_offset <= segments[n].absolute_offset
            /\ segments[n].absolute_offset <= e
            /\ segments[n].absolute_offset \in Nat
            /\ segments[i + d].absolute_offset \in Nat
        BY <4>1, <3>2, <1>2, <1>5, <1>6 DEF e
      <4> QED BY <4>2, <1>7, <1>8
    <3>3. CASE j = k /\ i = k
      BY <3>3, <1>6, <1>8
    <3> QED BY <3>1, <3>2, <3>3, <1>6
  <2> QED BY <2>1 DEF Ordered, k
<1>15. LogInv'
  BY <1>3, <1>6, <1>11, <1>13, <1>14 DEF LogInv
<1>16. EndOf(Active)' = EndOf(Active) + 1
  BY <1>2, <1>6, <1>9 DEF e
<1>17. /\ segments[1].absolute_offset <= segments'[1].absolute_offset
       /\ segments'[1].absolute_offset <= e
  <2>1. CASE k > 1
    <3>1. 1 \in 1 .. k - 1 /\ 1 + d \in 1 .. n /\ segments'[1] = segments[1 + d]
      BY <2>1, <1>6, <1>10
    <3>2. /\ 1 \in 1 .. n /\ n \in 1 .. n /\ 1 + d \in 1 .. n /\ n \in 1 + d .. n
      BY <3>1, <1>2, <1>6
    <3>3. /\ segments[1].absolute_offset <= segments[1 + d].absolute_offset
          /\ segments[1 + d].absolute_offset <= segments[n].absolute_offset
          /\ segments[n].absolute_offset <= e
      BY <3>1, <3>2, <1>2, <1>5 DEF e
    <3> QED BY <3>1, <3>2, <3>3, <1>2, <1>8
  <2>2. CASE k = 1
    <3>1. 1 \in 1 .. n /\ n \in 1 .. n
      BY <1>2
    <3>2. segments'[1] = q
      BY <2>2, <1>6
    <3>3. /\ segments[1].absolute_offset <= segments[n].absolute_offset
          /\ segments[n].absolute_offset <= e
      BY <3>1, <1>2, <1>5 DEF e
    <3> QED BY <3>1, <3>2, <3>3, <1>2, <1>7, <1>8
  <2> QED BY <2>1, <2>2, <1>6
<1>18. ASSUME NEW c \in Cursor, CursorValid(c)
       PROVE  CursorValid(c)'
  <2>1. c[1] \in Nat /\ c[2] \in Nat /\ c[1] <= tail /\ c[1] <= tail'
    BY <1>3, <1>6, <1>18 DEF Cursor, CursorValid
  <2>2. CASE c[1] < head
    <3>1. c[2] <= segments[1].absolute_offset /\ segments[1].absolute_offset \in Nat
          /\ segments'[1].absolute_offset \in Nat
      <4>1. 1 \in 1 .. n
        BY <1>2
      <4>2. segments'[1] \in Segment
        BY <1>6 DEF k
      <4>3. segments'[1].absolute_offset \in Nat
        BY <4>2, SegmentFields
      <4> QED BY <4>1, <4>3, <2>2, <1>2, <1>18 DEF CursorValid
    <3>2. c[1] < head'
      BY <2>2, <2>1, <1>3, <1>6
    <3> QED BY <3>1, <3>2, <2>1, <1>17 DEF CursorValid
  <2>3. CASE c[1] = head /\ d = 1
    <3>1. 1 \in 1 .. n
      BY <1>2
    <3>2. SegmentAt(c) = segments[1] /\ ~(c[1] < head)
      BY <2>3, <1>3 DEF SegmentAt
    <3>3. c[2] <= EndOf(segments[1])
      BY <3>2, <1>18 DEF CursorValid
    <3>4. EndOf(segments[1]) = segments'[1].absolute_offset
      <4>1. CASE k > 1
        <5>1. 1 \in 1 .. k - 1 /\ 1 \in 1 .. n - 1
          BY <4>1, <1>2, <1>6, <2>3
        <5> QED BY <5>1, <2>3, <1>4, <1>6
      <4>2. CASE k = 1
        <5>1. n = 1 /\ q.absolute_offset = e
          BY <4>2, <2>3, <1>a, <1>c
        <5> QED BY <5>1, <4>2, <1>6 DEF e
      <4> QED BY <4>1, <4>2, <1>6
    <3>5. c[1] < head'
      BY <2>3, <1>3, <1>6
    <3> QED BY <3>3, <3>4, <3>5, <2>1 DEF CursorValid
  <2>4. CASE c[1] >= head'
    <3> DEFINE i == c[1] - head' + 1
               s == segments[i + d]
               t == segments'[i]
    <3>1. i \in 1 .. k /\ i + d \in 1 .. n /\ i + d = c[1] - head + 1
      BY <2>1, <2>4, <1>a, <1>d
    <3>2. SegmentAt(c) = s /\ SegmentAt(c)' = t
      BY <3>1 DEF SegmentAt
    <3>3. /\ s.absolute_offset <= c[2] /\ c[2] <= EndOf(s)
          /\ s.absolute_offset \in Nat /\ EndOf(s) \in Nat
      <4>1. ~(c[1] < head)
        BY <2>1, <2>4, <1>a, <1>d
      <4>2. s.absolute_offset <= c[2] /\ c[2] <= EndOf(s)
        BY <4>1, <3>2, <1>18 DEF CursorValid
      <4> QED BY <4>2, <3>1, <1>2
    <3>4. CASE i < k
      <4>1. t = s
        <5>1. i \in 1 .. k - 1
          BY <3>1, <3>4, <1>a
        <5> HIDE DEF i
        <5> QED BY <5>1, <1>b DEF s, t
      <4> QED BY <4>1, <3>2, <3>3, <2>1, <2>4, <1>3, <1>6 DEF CursorValid
    <3>5. CASE i = k
      <4>1. d = 0 /\ i = n /\ t = q /\ q.absolute_offset = segments[n].absolute_offset
        <5>1. ~(k + d = n + 1)
          BY <3>1, <3>5, <1>a
        <5> QED BY <5>1, <3>5, <1>c, <1>6
      <4>2. t.absolute_offset = s.absolute_offset /\ EndOf(t) = EndOf(s) + 1
        <5>1. i + d = n
          BY <4>1, <1>a
        <5> QED BY <4>1, <5>1, <1>6 DEF e
      <4>3. t.absolute_offset <= c[2] /\ c[2] <= EndOf(t)
        BY <4>2, <3>3, <2>1
      <4> QED BY <4>3, <3>2, <2>1, <2>4, <1>3, <1>6 DEF CursorValid
    <3> QED BY <3>1, <3>4, <3>5, <1>6
  <2> QED BY <2>1, <2>2, <2>3, <2>4, <1>3, <1>6
<1> QED BY <1>2, <1>15, <1>16, <1>17, <1>18 DEF e

------------------------------------------------------------------------------
\* The inductive invariant: the stated properties; that a later segment is
\* never empty; and, of a read in flight, that its cursor and the offsets it
\* will hand out are valid and that it started where the reader stood or at
\* the oldest message kept.
LaterNonEmpty == Len(segments) > 1 => Active.absolute_offset < EndOf(Active)

Flight ==
    rd # Idle =>
        /\ CursorValid(rd.cursor)
        /\ rd.start[2] = IF cursor[rd.reader][2] >= segments[1].absolute_offset
                         THEN cursor[rd.reader][2] ELSE segments[1].absolute_offset
        /\ \A i \in 1 .. Len(rd.out) : CursorValid(rd.out[i].offset)

IInv ==
    /\ TypeOK
    /\ LogInv
    /\ LaterNonEmpty
    /\ CursorsValid
    /\ ReadInBounds
    /\ ReadInFlight
    /\ Flight
    /\ ReadExact

\* A new log is one empty segment.
LEMMA InitIInv == Init => IInv
<1> SUFFICES ASSUME Init PROVE IInv
  OBVIOUS
<1> DEFINE s == WithOffset(0)
<1>1. /\ s \in Segment /\ s.absolute_offset = 0 /\ Len(s.data) = 0 /\ EndOf(s) = 0
  BY EmptySegment
<1>2. /\ head = 0 /\ tail = 0 /\ segments = <<s>> /\ rd = Idle /\ reply = Idle
      /\ cursor = [r \in Reader |-> <<0, 0>>] /\ sent = [r \in Reader |-> {}]
  BY DEF Init
<1> HIDE DEF s
<1>3. /\ segments \in Seq(Segment) /\ Len(segments) = 1 /\ segments[1] = s
      /\ Active = s
  BY <1>1, <1>2 DEF Active
<1>4. <<0, 0>> \in Cursor
  BY DEF Cursor
<1>5. TypeOK
  BY <1>2, <1>3, <1>4 DEF TypeOK
<1>6. LogInv
  BY <1>1, <1>2, <1>3, LogAssumption
  DEF LogInv, SegmentsContiguous, SizeBounded, OffsetsName, Ordered
<1>7. CursorValid(<<0, 0>>)
  BY <1>1, <1>2, <1>3 DEF CursorValid, SegmentAt
<1>8. CursorsValid
  BY <1>2, <1>7 DEF CursorsValid
<1>9. LaterNonEmpty /\ ReadInBounds /\ ReadInFlight /\ Flight /\ ReadExact
  BY <1>2, <1>3 DEF LaterNonEmpty, ReadInBounds, ReadInFlight, Flight, ReadExact
<1> QED BY <1>5, <1>6, <1>8, <1>9 DEF IInv

\* An append keeps the invariant, and every cursor handed out stays valid.
LEMMA AppendIInv ==
    ASSUME IInv, NEW size \in Sizes, AppendMessage(size)
    PROVE  IInv'
<1>1. /\ LogInv'
      /\ EndOf(Active)' = EndOf(Active) + 1
      /\ \A c \in Cursor : CursorValid(c) => CursorValid(c)'
  BY AppendStep DEF IInv
<1>2. /\ rd = Idle
      /\ UNCHANGED <<cursor, sent, rd, reply>>
  BY DEF AppendMessage
<1>3. TypeOK'
  BY <1>1, <1>2 DEF IInv, TypeOK, LogInv
<1>4. CursorsValid'
  BY <1>1, <1>2 DEF IInv, CursorsValid, TypeOK
<1>5. LaterNonEmpty'
  <2>1. PICK d \in {0, 1}, q \in Segment : Moved(d, q)
    BY AppendMoves DEF IInv
  <2>2. Active' = q /\ EndOf(q) = EndOf(Active) + 1
    BY <2>1 DEF Moved, Active
  <2>3. q.absolute_offset \in Nat /\ EndOf(q) \in Nat /\ EndOf(Active) \in Nat
        /\ Active.absolute_offset \in Nat
        /\ Active.absolute_offset <= EndOf(Active)
    BY LogFacts, SegmentFields DEF IInv
  <2>4. q.absolute_offset <= EndOf(Active)
    BY <2>1, <2>3 DEF Moved, Active
  <2> QED BY <2>2, <2>3, <2>4 DEF LaterNonEmpty
<1>6. ReadInBounds' /\ ReadInFlight' /\ Flight'
  BY <1>2 DEF ReadInBounds, ReadInFlight, Flight
<1>7. ReadExact'
  BY <1>2 DEF IInv, ReadExact
<1> QED BY <1>1, <1>3, <1>4, <1>5, <1>6, <1>7 DEF IInv

\* A reader that starts at next_offset has a valid cursor.
LEMMA SubscribeIInv ==
    ASSUME IInv, NEW r \in Reader, Subscribe(r)
    PROVE  IInv'
<1>1. /\ rd = Idle /\ UNCHANGED <<logvars, rd, reply>>
      /\ cursor' = [cursor EXCEPT ![r] = NextOffset]
      /\ sent' = [sent EXCEPT ![r] = {}]
  BY DEF Subscribe
<1>2. NextOffset \in Cursor /\ CursorValid(NextOffset)
  <2> DEFINE n == Len(segments)
  <2>1. /\ n \in Nat /\ n >= 1 /\ n = tail - head + 1 /\ Active = segments[n]
        /\ segments[n].absolute_offset \in Nat /\ EndOf(segments[n]) \in Nat
        /\ segments[n].absolute_offset <= EndOf(segments[n])
    BY LogFacts DEF IInv
  <2>2. head \in Nat /\ tail \in Nat
    BY DEF IInv, LogInv
  <2>3. SegmentAt(NextOffset) = segments[n] /\ ~(tail < head)
    BY <2>1, <2>2 DEF SegmentAt, NextOffset
  <2> QED BY <2>1, <2>2, <2>3 DEF NextOffset, Cursor, CursorValid
<1>3. TypeOK'
  BY <1>1, <1>2 DEF IInv, TypeOK, logvars
<1>4. CursorsValid'
  <2>1. \A c : CursorValid(c)' <=> CursorValid(c)
    BY <1>1 DEF CursorValid, logvars, SegmentAt
  <2> QED BY <2>1, <1>1, <1>2 DEF IInv, CursorsValid, TypeOK
<1>5. LogInv' /\ LaterNonEmpty'
  BY <1>1 DEF IInv, logvars, LogInv, LaterNonEmpty, SegmentsContiguous, SizeBounded,
              OffsetsName, Ordered, Active
<1>6. ReadInBounds' /\ ReadInFlight' /\ Flight' /\ ReadExact'
  BY <1>1 DEF IInv, ReadInBounds, ReadInFlight, Flight, ReadExact
<1> QED BY <1>3, <1>4, <1>5, <1>6 DEF IInv

\* A reader sent back to an offset it was handed has a valid cursor.
LEMMA RetransmitIInv ==
    ASSUME IInv, NEW r \in Reader, Retransmit(r)
    PROVE  IInv'
<1>1. /\ rd = Idle /\ UNCHANGED <<logvars, rd, reply>>
      /\ sent' = [sent EXCEPT ![r] = {}]
  BY DEF Retransmit
<1>2. PICK c \in sent[r] : cursor' = [cursor EXCEPT ![r] = c]
  BY DEF Retransmit
<1>3. c \in Cursor /\ CursorValid(c)
  BY DEF IInv, TypeOK, CursorsValid
<1>4. TypeOK'
  BY <1>1, <1>2, <1>3 DEF IInv, TypeOK, logvars
<1>5. CursorsValid'
  <2>1. \A d : CursorValid(d)' <=> CursorValid(d)
    BY <1>1 DEF CursorValid, logvars, SegmentAt
  <2> QED BY <2>1, <1>1, <1>2, <1>3 DEF IInv, CursorsValid, TypeOK
<1>6. LogInv' /\ LaterNonEmpty'
  BY <1>1 DEF IInv, logvars, LogInv, LaterNonEmpty, SegmentsContiguous, SizeBounded,
              OffsetsName, Ordered, Active
<1>7. ReadInBounds' /\ ReadInFlight' /\ Flight' /\ ReadExact'
  BY <1>1 DEF IInv, ReadInBounds, ReadInFlight, Flight, ReadExact
<1> QED BY <1>4, <1>5, <1>6, <1>7 DEF IInv

------------------------------------------------------------------------------
\* The log does not change under a read.
LEMMA LogFrozen ==
    ASSUME IInv, UNCHANGED logvars
    PROVE  /\ LogInv' /\ LaterNonEmpty'
           /\ \A c : CursorValid(c)' <=> CursorValid(c)
           /\ Active' = Active /\ NextOffset' = NextOffset
<1> USE DEF logvars, Active
<1>1. LogInv' /\ LaterNonEmpty'
  BY DEF IInv, LogInv, LaterNonEmpty, SegmentsContiguous, SizeBounded, OffsetsName, Ordered
<1>2. \A c : CursorValid(c)' <=> CursorValid(c)
  BY DEF CursorValid, SegmentAt
<1> QED BY <1>1, <1>2 DEF NextOffset

\* What a read must have established when it returns.
Finished(r, kind, start, end, want, out) ==
    /\ r \in Reader /\ start \in Cursor /\ end \in Cursor /\ want \in Quota
    /\ kind \in {"Next", "Done"}
    /\ out \in Seq(Entry)
    /\ CursorValid(end)
    /\ \A i \in 1 .. Len(out) : /\ CursorValid(out[i].offset)
                                /\ out[i].offset[2] = start[2] + i - 1
                                /\ out[i].message.ordinal = start[2] + i - 1
    /\ Len(out) = end[2] - start[2]
    /\ Len(out) <= want
    /\ kind = "Next" => Len(out) = want
    /\ kind = "Done" <=> end[2] = EndOf(Active)

\* The step ends the read in flight, with a result as it must be.
Returned ==
    \E kind \in {"Next", "Done"}, end \in Cursor, out \in Seq(Entry) :
        /\ Finished(rd.reader, kind, rd.start, end, rd.want, out)
        /\ Return(rd.reader, kind, rd.start, end, rd.want, out)

\* What readv returns moves a reader to a valid cursor.
LEMMA ReturnIInv ==
    ASSUME IInv, UNCHANGED logvars, NEW r, NEW kind, NEW start, NEW end, NEW want, NEW out,
           Finished(r, kind, start, end, want, out),
           Return(r, kind, start, end, want, out)
    PROVE  IInv'
<1>1. /\ r \in Reader /\ start \in Cursor /\ end \in Cursor /\ want \in Nat
      /\ kind \in {"Next", "Done"} /\ out \in Seq(Entry)
  BY LogAssumption DEF Finished
<1>2. /\ cursor' = [cursor EXCEPT ![r] = end]
      /\ sent' = [sent EXCEPT ![r] = @ \cup {out[i].offset : i \in 1 .. Len(out)}]
      /\ rd' = Idle
  BY DEF Return
<1> DEFINE rep == [at |-> "reply", reader |-> r, kind |-> kind, start |-> start,
                   end |-> end, want |-> want, out |-> out]
<1>3. reply' = rep
  BY DEF Return
<1>4. {out[i].offset : i \in 1 .. Len(out)} \subseteq Cursor
  <2>1. \A i \in 1 .. Len(out) : out[i] \in Entry
    BY <1>1
  <2> QED BY <2>1 DEF Entry
<1>5. rep \in [at : {"reply"}, reader : Reader, kind : {"Next", "Done"},
               start : Cursor, end : Cursor, want : Nat, out : Seq(Entry)]
  BY <1>1
<1>6. TypeOK'
  <2>1. cursor' \in [Reader -> Cursor]
    BY <1>1, <1>2 DEF IInv, TypeOK
  <2>2. sent' \in [Reader -> SUBSET Cursor]
    BY <1>2, <1>4 DEF IInv, TypeOK
  <2>3. head' \in Nat /\ tail' \in Nat /\ segments' \in Seq(Segment)
    BY DEF IInv, TypeOK, logvars
  <2>4. rd' \in Busy \cup {Idle}
    BY <1>2
  <2> HIDE DEF rep
  <2> QED BY <2>1, <2>2, <2>3, <2>4, <1>3, <1>5 DEF TypeOK
<1>7. CursorsValid'
  <2>1. CursorValid(end) /\ \A i \in 1 .. Len(out) : CursorValid(out[i].offset)
    BY DEF Finished
  <2>2. ASSUME NEW x \in Reader
        PROVE  CursorValid(cursor'[x]) /\ \A c \in sent'[x] : CursorValid(c)
    <3>1. CASE x = r
      BY <3>1, <2>1, <1>2 DEF IInv, CursorsValid, TypeOK
    <3>2. CASE x # r
      BY <3>2, <1>2 DEF IInv, CursorsValid, TypeOK
    <3> QED BY <3>1, <3>2
  <2> QED BY <2>2, LogFrozen DEF CursorsValid
<1>8. ReadExact'
  <2>1. /\ rep.out = out /\ rep.start = start /\ rep.end = end /\ rep.want = want
        /\ rep.kind = kind
    OBVIOUS
  <2> HIDE DEF rep
  <2> QED BY <2>1, <1>3 DEF ReadExact, Finished
<1>9. ReadInBounds' /\ ReadInFlight' /\ Flight'
  BY <1>2 DEF ReadInBounds, ReadInFlight, Flight
<1> QED BY <1>6, <1>7, <1>8, <1>9, LogFrozen DEF IInv

\* A segment that a valid cursor of the kept part names.
LEMMA ValidSegment ==
    ASSUME IInv, NEW c \in Cursor, CursorValid(c), head <= c[1]
    PROVE  LET s == SegmentAt(c)
               i == c[1] - head + 1
               n == Len(segments)
           IN  /\ i \in 1 .. n /\ s = segments[i]
               /\ s \in Segment /\ Named(s)
               /\ s.absolute_offset \in Nat /\ EndOf(s) \in Nat
               /\ s.absolute_offset <= c[2] /\ c[2] <= EndOf(s)
               /\ segments[1].absolute_offset \in Nat
               /\ segments[1].absolute_offset <= s.absolute_offset
               /\ EndOf(Active) \in Nat
               /\ EndOf(s) <= EndOf(Active)
               /\ c[1] < tail => /\ i + 1 \in 1 .. n
                                 /\ segments[i + 1].absolute_offset = EndOf(s)
                                 /\ EndOf(segments[i + 1]) \in Nat
                                 /\ EndOf(s) <= EndOf(segments[i + 1])
                                 /\ EndOf(s) < EndOf(Active)
               /\ c[1] = tail => s = Active
<1> DEFINE i == c[1] - head + 1
           n == Len(segments)
           s == segments[i]
<1>1. /\ head \in Nat /\ tail \in Nat /\ c[1] \in Nat /\ c[2] \in Nat /\ c[1] <= tail
  BY DEF IInv, LogInv, Cursor, CursorValid
<1>2. /\ n \in Nat /\ n >= 1 /\ n = tail - head + 1 /\ Active = segments[n]
      /\ \A j \in 1 .. n : /\ segments[j] \in Segment
                           /\ segments[j].absolute_offset \in Nat
                           /\ EndOf(segments[j]) \in Nat
                           /\ segments[j].absolute_offset <= EndOf(segments[j])
                           /\ Named(segments[j])
  BY LogFacts DEF IInv
<1>a. n \in Nat /\ n >= 1 /\ n = tail - head + 1
  BY <1>2
<1>3. i \in 1 .. n /\ 1 \in 1 .. n /\ n \in 1 .. n /\ i \in Nat
  BY <1>1, <1>a
<1>4. SegmentAt(c) = s /\ s.absolute_offset <= c[2] /\ c[2] <= EndOf(s)
  BY <1>1 DEF CursorValid, SegmentAt
<1>5. \A j \in 1 .. n : \A k \in j .. n :
        segments[j].absolute_offset <= segments[k].absolute_offset
  BY DEF IInv, LogInv, Ordered
<1>6. segments[1].absolute_offset <= s.absolute_offset
  <2>1. i \in 1 .. n
    BY <1>3
  <2> QED BY <2>1, <1>3, <1>5
<1>7. CASE c[1] < tail
  <2>1. i + 1 \in 1 .. n /\ i \in 1 .. n - 1 /\ n \in i + 1 .. n /\ n > 1
    BY <1>1, <1>a, <1>7
  <2>2. segments[i + 1].absolute_offset = EndOf(s)
    BY <2>1 DEF IInv, LogInv, SegmentsContiguous
  <2>3. segments[i + 1].absolute_offset <= segments[n].absolute_offset
    BY <2>1, <1>5
  <2>4. segments[n].absolute_offset < EndOf(segments[n])
    BY <2>1, <1>2 DEF IInv, LaterNonEmpty
  <2>5. EndOf(s) < EndOf(Active) /\ EndOf(s) <= EndOf(segments[i + 1])
    BY <2>1, <2>2, <2>3, <2>4, <1>2, <1>3
  <2>6. EndOf(segments[i + 1]) \in Nat /\ EndOf(Active) \in Nat /\ EndOf(s) \in Nat
    BY <2>1, <1>2, <1>3
  <2>7. s \in Segment /\ Named(s) /\ s.absolute_offset \in Nat
        /\ segments[1].absolute_offset \in Nat
    BY <1>2, <1>3
  <2>8. EndOf(s) <= EndOf(Active) /\ ~(c[1] = tail)
    BY <2>5, <2>6, <1>1, <1>7
  <2> HIDE DEF i, n, s
  <2> QED BY <2>1, <2>2, <2>5, <2>6, <2>7, <2>8, <1>3, <1>4, <1>6 DEF i, n, s
<1>8. CASE c[1] = tail
  <2>1. i = n
    BY <1>1, <1>2, <1>8
  <2>2. EndOf(s) = EndOf(Active) /\ s = Active /\ EndOf(s) \in Nat
    BY <2>1, <1>2, <1>3
  <2> QED BY <2>1, <2>2, <1>2, <1>3, <1>4, <1>6, <1>8, <1>1
<1> QED BY <1>1, <1>7, <1>8

\* The first segment named by its cursor.
LEMMA OldestCursor ==
    ASSUME IInv
    PROVE  LET c == <<head, segments[1].absolute_offset>> IN
           /\ c \in Cursor
           /\ CursorValid(c)
<1>1. head \in Nat /\ tail \in Nat
  BY DEF IInv, LogInv
<1>2. /\ Len(segments) \in Nat /\ Len(segments) >= 1 /\ Len(segments) = tail - head + 1
      /\ segments[1].absolute_offset \in Nat
      /\ segments[1].absolute_offset <= EndOf(segments[1])
  BY LogFacts DEF IInv
<1> DEFINE c == <<head, segments[1].absolute_offset>>
<1>3. c \in Cursor /\ c[1] = head /\ c[2] = segments[1].absolute_offset
  BY <1>1, <1>2 DEF Cursor
<1>4. SegmentAt(c) = segments[1] /\ ~(c[1] < head) /\ c[1] <= tail
  BY <1>1, <1>2, <1>3 DEF SegmentAt
<1> HIDE DEF c
<1>5. CursorValid(c)
  BY <1>2, <1>3, <1>4 DEF CursorValid
<1> QED BY <1>3, <1>5 DEF c

\* The start of readv: a cursor behind the log is moved to its head.
LEMMA ReadBeginIInv ==
    ASSUME IInv, NEW r \in Reader, NEW len \in Quota, ReadBegin(r, len)
    PROVE  IInv'
<1> DEFINE c  == cursor[r]
           c1 == IF c[1] < head THEN <<head, segments[1].absolute_offset>> ELSE c
           s  == SegmentAt(c1)
           c2 == IF s.absolute_offset > c1[2] THEN <<c1[1], s.absolute_offset>> ELSE c1
           b  == [at |-> IF c2[1] < tail THEN "loop" ELSE "active",
                  reader |-> r, start |-> c2, cursor |-> c2, len |-> len,
                  want |-> len, out |-> <<>>]
<1>1. c \in Cursor /\ CursorValid(c) /\ c[1] <= tail /\ head \in Nat /\ tail \in Nat
      /\ c[1] \in Nat /\ c[2] \in Nat
  BY DEF IInv, TypeOK, CursorsValid, CursorValid, Cursor
<1>2. /\ c1 \in Cursor /\ CursorValid(c1) /\ head <= c1[1]
  BY <1>1, OldestCursor
<1>3. /\ s.absolute_offset <= c1[2] /\ s.absolute_offset \in Nat
      /\ s = segments[c1[1] - head + 1]
      /\ c1[1] - head + 1 \in 1 .. Len(segments)
      /\ segments[1].absolute_offset \in Nat
      /\ segments[1].absolute_offset <= s.absolute_offset
  BY <1>2, ValidSegment DEF SegmentAt
<1>4. c1[1] \in Nat /\ c1[2] \in Nat /\ c1[1] <= tail
  BY <1>2 DEF Cursor, CursorValid
<1>5. c2 = c1
  <2> HIDE DEF c1, s
  <2> QED BY <1>3, <1>4
<1>6. rd' = b /\ UNCHANGED <<logvars, cursor, sent, reply>>
  <2>1. ~(c[1] > tail)
    BY <1>1
  <2> QED BY <2>1 DEF ReadBegin
<1>7. c1[2] = IF c[2] >= segments[1].absolute_offset THEN c[2]
              ELSE segments[1].absolute_offset
  <2>1. CASE c[1] < head
    BY <2>1, <1>1, <1>3 DEF CursorValid
  <2>2. CASE ~(c[1] < head)
    BY <2>2, <1>1, <1>3, <1>4
  <2> QED BY <2>1, <2>2
<1>8. len \in Nat
  BY LogAssumption
<1> HIDE DEF c, c1, s, c2
<1>9. b \in Busy
  BY <1>2, <1>5, <1>8 DEF Busy
<1>10. /\ b.cursor = c1 /\ b.start = c1 /\ b.reader = r /\ b.len = len /\ b.want = len
       /\ b.out = <<>> /\ b.at = IF c1[1] < tail THEN "loop" ELSE "active"
  BY <1>5
<1> HIDE DEF b
<1>11. TypeOK'
  BY <1>6, <1>9 DEF IInv, TypeOK, logvars
<1>12. CursorsValid'
  BY <1>6, LogFrozen DEF IInv, CursorsValid
<1>13. ReadInBounds'
  BY <1>3, <1>4, <1>6, <1>8, <1>10, <1>1 DEF ReadInBounds, logvars, SegmentAt, s
<1>14. ReadInFlight'
  BY <1>4, <1>6, <1>8, <1>10 DEF ReadInFlight, logvars
<1>15. Flight'
  <2>1. CursorValid(rd.cursor)'
    BY <1>2, <1>6, <1>10 DEF CursorValid, SegmentAt, logvars
  <2>2. rd.start[2]' = IF cursor[rd.reader][2]' >= segments[1].absolute_offset'
                       THEN cursor[rd.reader][2]' ELSE segments[1].absolute_offset'
    BY <1>6, <1>7, <1>10 DEF logvars, c
  <2>3. Len(rd'.out) = 0
    BY <1>6, <1>10
  <2> QED BY <2>1, <2>2, <2>3 DEF Flight
<1>16. ReadExact'
  BY <1>6 DEF IInv, ReadExact
<1> QED BY <1>6, <1>11, <1>12, <1>13, <1>14, <1>15, <1>16, LogFrozen DEF IInv

\* What one call of Segment::readv adds to a read in flight.
LEMMA FlightReads ==
    ASSUME IInv, rd # Idle
    PROVE  LET s   == SegmentAt(rd.cursor)
               res == SegmentReadv(s, rd.cursor, rd.len)
               out == rd.out \o res.out
           IN  /\ res.next \in Nat
               /\ res.pos \in {"Next", "Done"}
               /\ rd.cursor[2] <= res.next
               /\ res.next <= EndOf(s)
               /\ res.pos = "Next" => res.next < EndOf(s) /\ Len(out) = rd.want
               /\ res.pos = "Done" => res.next = EndOf(s)
               /\ out \in Seq(Entry)
               /\ Len(out) = res.next - rd.start[2]
               /\ Len(out) <= rd.want
               /\ Len(rd.out) = rd.cursor[2] - rd.start[2]
               /\ Len(rd.out) + rd.len = rd.want
               /\ \A i \in 1 .. Len(out) :
                     /\ CursorValid(out[i].offset)
                     /\ out[i].offset[2] = rd.start[2] + i - 1
                     /\ out[i].message.ordinal = rd.start[2] + i - 1
<1> DEFINE c   == rd.cursor
           s   == SegmentAt(c)
           res == SegmentReadv(s, c, rd.len)
           out == rd.out \o res.out
           a   == Len(rd.out)
<1>1. rd \in Busy
  BY DEF IInv, TypeOK
<1>2. /\ c \in Cursor /\ c[1] \in Nat /\ c[2] \in Nat /\ rd.len \in Nat
      /\ rd.start[2] \in Nat /\ rd.want \in Nat /\ rd.out \in Seq(Entry) /\ a \in Nat
  <2>1. /\ c \in Cursor /\ rd.start \in Cursor /\ rd.len \in Nat /\ rd.want \in Nat
        /\ rd.out \in Seq(Entry)
    BY <1>1, LogAssumption DEF Busy, Idle
  <2>2. a \in Nat
    BY <2>1
  <2> HIDE DEF c
  <2> QED BY <2>1, <2>2 DEF Cursor
<1>3. CursorValid(c) /\ head <= c[1] /\ c[1] <= tail /\ head \in Nat /\ tail \in Nat
  <2>1. head \in Nat /\ tail \in Nat
    BY DEF IInv, LogInv
  <2>2. c[1] - head + 1 \in 1 .. Len(segments)
    BY DEF IInv, ReadInBounds
  <2>3. CursorValid(c)
    BY DEF IInv, Flight
  <2>4. c[1] <= tail
    BY <2>3 DEF CursorValid
  <2>5. c[1] \in Nat
    BY <1>2
  <2> HIDE DEF c
  <2>6. head <= c[1]
    BY <2>1, <2>2, <2>5
  <2> QED BY <2>1, <2>3, <2>4, <2>6
<1>4. /\ s \in Segment /\ Named(s) /\ s.absolute_offset \in Nat /\ EndOf(s) \in Nat
      /\ s.absolute_offset <= c[2] /\ c[2] <= EndOf(s)
  BY <1>2, <1>3, ValidSegment
<1>5. /\ a = c[2] - rd.start[2]
      /\ a + rd.len = rd.want
      /\ \A i \in 1 .. a : /\ rd.out[i].offset[2] = rd.start[2] + i - 1
                           /\ rd.out[i].message.ordinal = rd.start[2] + i - 1
                           /\ CursorValid(rd.out[i].offset)
  BY DEF IInv, ReadInFlight, Flight
<1>6. /\ res.out \in Seq(Entry)
      /\ res.next \in Nat
      /\ res.pos \in {"Next", "Done"}
      /\ Len(res.out) = res.next - c[2]
      /\ Len(res.out) <= rd.len
      /\ c[2] <= res.next
      /\ res.next <= EndOf(s)
      /\ res.pos = "Next" => Len(res.out) = rd.len /\ res.next < EndOf(s)
      /\ res.pos = "Done" => res.next = EndOf(s)
      /\ \A i \in 1 .. Len(res.out) :
            /\ res.out[i].offset = <<c[1], c[2] + i - 1>>
            /\ res.out[i].message.ordinal = c[2] + i - 1
  <2> HIDE DEF s, c
  <2> QED BY <1>2, <1>4, SegmentRead DEF Named
<1> HIDE DEF c, s, res, out, a
<1>7. /\ out \in Seq(Entry) /\ Len(res.out) \in Nat /\ Len(out) = a + Len(res.out)
      /\ \A i \in 1 .. a : out[i] = rd.out[i]
      /\ \A i \in 1 .. Len(out) : i > a => out[i] = res.out[i - a]
  <2> DEFINE x == rd.out
             y == res.out
  <2>1. x \in Seq(Entry) /\ y \in Seq(Entry)
    BY <1>2, <1>6
  <2>2. out = x \o y
    BY DEF out
  <2> HIDE DEF x, y
  <2>3. /\ x \o y \in Seq(Entry) /\ Len(x) \in Nat /\ Len(y) \in Nat
        /\ Len(x \o y) = Len(x) + Len(y)
        /\ \A i \in 1 .. Len(x) : (x \o y)[i] = x[i]
        /\ \A i \in 1 .. Len(x) + Len(y) : i > Len(x) => (x \o y)[i] = y[i - Len(x)]
    BY <2>1
  <2> QED BY <2>2, <2>3 DEF a, x, y
<1>a. a \in Nat /\ Len(res.out) \in Nat /\ Len(out) \in Nat /\ Len(out) = a + Len(res.out)
  <2>1. Len(out) \in Nat
    BY <1>7
  <2> QED BY <2>1, <1>2, <1>7
<1>b. c[2] \in Nat /\ rd.start[2] \in Nat /\ a \in Nat /\ a = c[2] - rd.start[2]
  BY <1>2, <1>5
<1>c. /\ c[2] \in Nat /\ res.next \in Nat /\ Len(res.out) \in Nat
      /\ EndOf(s) \in Nat /\ s.absolute_offset \in Nat
      /\ Len(res.out) = res.next - c[2] /\ res.next <= EndOf(s) /\ s.absolute_offset <= c[2]
  BY <1>2, <1>4, <1>6, <1>7
<1>d. /\ a \in Nat /\ rd.len \in Nat /\ rd.want \in Nat /\ Len(res.out) \in Nat
      /\ a + rd.len = rd.want /\ Len(res.out) <= rd.len
  BY <1>2, <1>5, <1>6, <1>7
<1>8. ASSUME NEW i \in 1 .. Len(out)
      PROVE  /\ CursorValid(out[i].offset)
             /\ out[i].offset[2] = rd.start[2] + i - 1
             /\ out[i].message.ordinal = rd.start[2] + i - 1
  <2>1. CASE i <= a
    <3>1. i \in 1 .. a
      BY <2>1, <1>a
    <3> QED BY <3>1, <1>5, <1>7
  <2>2. CASE i > a
    <3> DEFINE j == i - a
               d == <<c[1], c[2] + j - 1>>
    <3>1. j \in 1 .. Len(res.out) /\ out[i] = res.out[j]
      <4>1. j \in 1 .. Len(res.out)
        BY <2>2, <1>a
      <4> QED BY <4>1, <2>2, <1>7
    <3>2. out[i].offset = d /\ out[i].message.ordinal = c[2] + j - 1
      BY <3>1, <1>6
    <3>3. c[2] + j - 1 = rd.start[2] + i - 1 /\ c[2] + j - 1 \in Nat
          /\ s.absolute_offset <= c[2] + j - 1 /\ c[2] + j - 1 <= EndOf(s)
      <4>1. j \in Nat /\ i \in Nat /\ 1 <= j /\ j <= Len(res.out) /\ i = a + j
        BY <3>1, <1>a
      <4> HIDE DEF j
      <4>2. c[2] + j - 1 = rd.start[2] + i - 1
        <5> DEFINE u == c[2]
                   v == rd.start[2]
        <5>1. u \in Nat /\ v \in Nat /\ a \in Nat /\ a = u - v
          BY <1>b
        <5>2. i \in Nat /\ j \in Nat /\ i = a + j
          BY <4>1
        <5> HIDE DEF u, v
        <5>3. u = v + a
          BY <5>1
        <5>4. u + j - 1 = v + i - 1
          BY <5>1, <5>2, <5>3
        <5> QED BY <5>4 DEF u, v
      <4>3. s.absolute_offset <= c[2] + j - 1 /\ c[2] + j - 1 <= EndOf(s)
            /\ c[2] + j - 1 \in Nat
        BY <4>1, <1>c
      <4> QED BY <4>2, <4>3
    <3>4. SegmentAt(d) = s
      BY DEF SegmentAt, s
    <3>5. d[1] = c[1] /\ d[2] = c[2] + j - 1 /\ ~(c[1] < head)
      BY <1>2, <1>3
    <3> HIDE DEF d, j
    <3>6. CursorValid(d)
      BY <3>3, <3>4, <3>5, <1>3 DEF CursorValid
    <3> QED BY <3>2, <3>3, <3>5, <3>6
  <2> QED BY <2>1, <2>2, <1>2
<1>9. /\ Len(out) = res.next - rd.start[2]
      /\ Len(out) <= rd.want
      /\ res.pos = "Next" => Len(out) = rd.want
  <2>1. Len(out) = res.next - rd.start[2]
    BY <1>a, <1>b, <1>c
  <2>2. Len(out) <= rd.want /\ (Len(res.out) = rd.len => Len(out) = rd.want)
    BY <1>a, <1>d
  <2> QED BY <2>1, <2>2, <1>6
<1> QED BY <1>5, <1>6, <1>7, <1>8, <1>9 DEF c, s, res, out, a

\* The loop of readv over the older segments.
LEMMA ReadOlderIInv ==
    ASSUME IInv, ReadOlder
    PROVE  /\ IInv'
           /\ rd' = Idle => Returned
           /\ rd' # Idle => UNCHANGED <<logvars, cursor, reply>>
<1> DEFINE c   == rd.cursor
           s   == SegmentAt(c)
           res == SegmentReadv(s, c, rd.len)
           out == rd.out \o res.out
           rest == IF res.next >= c[2] THEN rd.len - (res.next - c[2]) ELSE rd.len
           up  == <<c[1] + 1, res.next>>
           e   == EndOf(Active)
<1>1. rd # Idle /\ rd.at = "loop" /\ UNCHANGED logvars
  BY DEF ReadOlder, Idle
<1>2. rd \in Busy
  BY <1>1 DEF IInv, TypeOK
<1>3. /\ c \in Cursor /\ c[1] \in Nat /\ c[2] \in Nat
      /\ rd.reader \in Reader /\ rd.start \in Cursor /\ rd.want \in Quota
      /\ rd.start[2] \in Nat /\ rd.want \in Nat /\ rd.len \in Nat
  BY <1>2, LogAssumption DEF Busy, Cursor
<1>4. CursorValid(c) /\ c[1] < tail
  BY <1>1 DEF IInv, Flight, ReadInFlight
<1>5. c[1] - head + 1 \in 1 .. Len(segments) /\ head \in Nat /\ tail \in Nat
  BY <1>1 DEF IInv, ReadInBounds, LogInv
<1>6. head <= c[1] /\ ~(c[1] < head)
  BY <1>3, <1>5
<1>7. /\ EndOf(s) \in Nat /\ e \in Nat /\ EndOf(s) < e
      /\ s.absolute_offset <= c[2] /\ c[2] <= EndOf(s)
  BY <1>3, <1>4, <1>6, ValidSegment
<1>8. LET i == c[1] - head + 1 IN
      /\ i + 1 \in 1 .. Len(segments)
      /\ segments[i + 1].absolute_offset = EndOf(s)
      /\ EndOf(segments[i + 1]) \in Nat
      /\ EndOf(s) <= EndOf(segments[i + 1])
  BY <1>3, <1>4, <1>6, ValidSegment
<1>9. /\ res.next \in Nat /\ c[2] <= res.next /\ res.next <= EndOf(s)
      /\ res.pos \in {"Next", "Done"}
      /\ res.pos = "Next" => res.next < EndOf(s) /\ Len(out) = rd.want
      /\ res.pos = "Done" => res.next = EndOf(s)
      /\ out \in Seq(Entry)
      /\ Len(out) = res.next - rd.start[2]
      /\ Len(out) <= rd.want
      /\ Len(rd.out) = c[2] - rd.start[2]
      /\ Len(rd.out) + rd.len = rd.want
      /\ \A i \in 1 .. Len(out) : /\ CursorValid(out[i].offset)
                                  /\ out[i].offset[2] = rd.start[2] + i - 1
                                  /\ out[i].message.ordinal = rd.start[2] + i - 1
  BY <1>1, FlightReads
<1>10. \/ res.pos = "Next" /\ Return(rd.reader, "Next", rd.start, <<c[1], res.next>>, rd.want, out)
       \/ res.pos = "Done" /\ rest = 0 /\ Return(rd.reader, "Next", rd.start, up, rd.want, out)
       \/ /\ res.pos = "Done"
          /\ rest # 0
          /\ rd' = [rd EXCEPT !.at = IF up[1] < tail THEN "loop" ELSE "active",
                              !.cursor = up, !.len = rest, !.out = out]
          /\ UNCHANGED <<cursor, sent, reply>>
  BY DEF ReadOlder
<1>11. up \in Cursor /\ up[1] = c[1] + 1 /\ up[2] = res.next
  BY <1>3, <1>9 DEF Cursor
<1>12. /\ rest = rd.len - (res.next - c[2])
       /\ Len(out) + rest = rd.want
  <2>1. rest = rd.len - (res.next - c[2])
    BY <1>3, <1>9
  <2>2. /\ Len(out) \in Nat /\ Len(rd.out) \in Nat /\ res.next \in Nat
        /\ c[2] \in Nat /\ rd.start[2] \in Nat /\ rd.len \in Nat /\ rd.want \in Nat
    BY <1>2, <1>3, <1>9 DEF Busy
  <2>3. /\ Len(out) = res.next - rd.start[2]
        /\ Len(rd.out) = c[2] - rd.start[2]
        /\ Len(rd.out) + rd.len = rd.want
    BY <1>9
  <2> HIDE DEF rest, out, c, res
  <2>4. Len(out) = Len(rd.out) + (res.next - c[2])
    BY <2>2, <2>3
  <2>5. Len(out) + rest = Len(rd.out) + rd.len
    <3> DEFINE u == res.next - c[2]
    <3>1. u \in Int /\ rest = rd.len - u /\ Len(out) = Len(rd.out) + u
      BY <2>1, <2>2, <2>4
    <3> HIDE DEF u
    <3> QED BY <3>1, <2>2
  <2> QED BY <2>1, <2>3, <2>5
<1> DEFINE mid == <<c[1], res.next>>
<1>13. mid \in Cursor /\ mid[1] = c[1] /\ mid[2] = res.next /\ SegmentAt(mid) = s
  BY <1>3, <1>9 DEF Cursor, SegmentAt
<1> HIDE DEF rest, up, mid, out, e
<1>14. CASE /\ res.pos = "Next"
            /\ Return(rd.reader, "Next", rd.start, mid, rd.want, out)
  <2>1. CursorValid(mid)
    <3>1. s.absolute_offset \in Nat
      BY <1>3, <1>4, <1>6, ValidSegment
    <3>2. s.absolute_offset <= res.next
      BY <3>1, <1>3, <1>7, <1>9
    <3> HIDE DEF s, c, res
    <3> QED BY <3>2, <1>4, <1>5, <1>3, <1>6, <1>9, <1>13 DEF CursorValid
  <2>2. ~(mid[2] = e) /\ Len(out) = rd.want
    BY <1>7, <1>9, <1>13, <1>14
  <2>3. Finished(rd.reader, "Next", rd.start, mid, rd.want, out)
    <3> HIDE DEF s, c, res
    <3> QED BY <2>1, <2>2, <1>3, <1>9, <1>13 DEF Finished, e
  <2>4. Returned
    BY <2>3, <1>14 DEF Returned, Finished
  <2>5. rd' = Idle
    BY <1>14 DEF Return
  <2> QED BY <2>3, <2>4, <2>5, <1>1, <1>14, ReturnIInv
<1>15. ASSUME res.pos = "Done" PROVE CursorValid(up)
  <2> DEFINE i == c[1] - head + 1
             t == segments[i + 1]
  <2>1. SegmentAt(up) = t
    <3>1. up[1] - head + 1 = i + 1
      BY <1>3, <1>5, <1>11
    <3> QED BY <3>1 DEF SegmentAt
  <2>2. up[2] = EndOf(s) /\ t.absolute_offset = EndOf(s) /\ EndOf(s) <= EndOf(t)
    BY <1>8, <1>9, <1>11, <1>15
  <2>3. ~(up[1] < head) /\ up[1] <= tail
    BY <1>3, <1>4, <1>5, <1>6, <1>11
  <2> HIDE DEF s, t
  <2> QED BY <2>1, <2>2, <2>3, <1>7 DEF CursorValid
<1>16. CASE /\ res.pos = "Done" /\ rest = 0
            /\ Return(rd.reader, "Next", rd.start, up, rd.want, out)
  <2>1. CursorValid(up)
    BY <1>15, <1>16
  <2>2. ~(up[2] = e)
    BY <1>7, <1>9, <1>11, <1>16
  <2>3. Len(out) = rd.want
    <3>1. Len(out) \in Nat
      BY <1>9
    <3> QED BY <3>1, <1>12, <1>16
  <2>4. Finished(rd.reader, "Next", rd.start, up, rd.want, out)
    <3> HIDE DEF s, c, res
    <3> QED BY <2>1, <2>2, <2>3, <1>3, <1>9, <1>11 DEF Finished, e
  <2>5. Returned
    BY <2>4, <1>16 DEF Returned, Finished
  <2>6. rd' = Idle
    BY <1>16 DEF Return
  <2> QED BY <2>4, <2>5, <2>6, <1>1, <1>16, ReturnIInv
<1>17. CASE /\ res.pos = "Done"
            /\ rest # 0
            /\ rd' = [rd EXCEPT !.at = IF up[1] < tail THEN "loop" ELSE "active",
                                !.cursor = up, !.len = rest, !.out = out]
            /\ UNCHANGED <<cursor, sent, reply>>
  <2> DEFINE b == [at |-> IF up[1] < tail THEN "loop" ELSE "active", reader |-> rd.reader,
                   start |-> rd.start, cursor |-> up, len |-> rest, want |-> rd.want,
                   out |-> out]
  <2>1. rd' = b
    BY <1>2, <1>17 DEF Busy
  <2>2. rest \in Nat
    <3>1. /\ Len(out) \in Nat /\ rd.want \in Nat /\ rd.len \in Nat
          /\ res.next \in Nat /\ c[2] \in Nat /\ Len(out) <= rd.want
      BY <1>3, <1>9
    <3>2. rest = rd.len - (res.next - c[2]) /\ Len(out) + rest = rd.want
      BY <1>12
    <3> HIDE DEF c, res
    <3>3. rest \in Int
      BY <3>1, <3>2
    <3> QED BY <3>1, <3>2, <3>3
  <2>3. b \in Busy
    BY <2>2, <1>3, <1>9, <1>11 DEF Busy
  <2>4. /\ b.at = IF up[1] < tail THEN "loop" ELSE "active"
        /\ b.reader = rd.reader /\ b.start = rd.start /\ b.cursor = up /\ b.len = rest
        /\ b.want = rd.want /\ b.out = out
    OBVIOUS
  <2> HIDE DEF b
  <2>5. TypeOK'
    BY <2>1, <2>3, <1>1, <1>17 DEF IInv, TypeOK, logvars
  <2>6. CursorsValid'
    BY <1>1, <1>17, LogFrozen DEF IInv, CursorsValid
  <2>7. CursorValid(up)
    BY <1>15, <1>17
  <2>8. ReadInBounds'
    <3>1. up[1] - head + 1 \in 1 .. Len(segments)
      <4>1. (c[1] - head + 1) + 1 \in 1 .. Len(segments)
        BY <1>8
      <4>2. up[1] - head + 1 = (c[1] - head + 1) + 1
        BY <1>3, <1>5, <1>11
      <4> QED BY <4>1, <4>2
    <3>2. SegmentAt(up).absolute_offset <= up[2]
      BY <2>7, <1>3, <1>5, <1>6, <1>11 DEF CursorValid
    <3>3. up[1] <= tail
      BY <2>7 DEF CursorValid
    <3>4. up[1] < tail \/ up[1] = tail
      <4>1. up[1] \in Int /\ tail \in Int
        BY <1>3, <1>5, <1>11
      <4> QED BY <4>1, <3>3
    <3>5. rd'.at = "active" <=> up[1] = tail
      <4>1. up[1] \in Int /\ tail \in Int
        BY <1>3, <1>5, <1>11
      <4> QED BY <4>1, <3>4, <2>1, <2>4
    <3>6. rd'.cursor = up /\ rd'.len \in Nat /\ SegmentAt(rd.cursor)' = SegmentAt(up)
      BY <2>1, <2>2, <2>4, <1>1 DEF SegmentAt, logvars
    <3> HIDE DEF up, rest
    <3> QED BY <3>1, <3>2, <3>5, <3>6, <1>1 DEF ReadInBounds, logvars
  <2>9. ReadInFlight'
    <3>1. Len(out) = up[2] - rd.start[2] /\ Len(out) + rest = rd.want
      BY <1>9, <1>11, <1>12
    <3> QED BY <3>1, <2>1, <2>4, <1>1, <1>9 DEF ReadInFlight, logvars
  <2>10. Flight'
    <3>1. CursorValid(rd.cursor)'
      BY <2>1, <2>4, <2>7, <1>1 DEF CursorValid, SegmentAt, logvars
    <3>2. rd.start[2]' = IF cursor[rd.reader][2]' >= segments[1].absolute_offset'
                         THEN cursor[rd.reader][2]' ELSE segments[1].absolute_offset'
      BY <2>1, <2>4, <1>1, <1>17 DEF IInv, Flight, logvars
    <3>3. \A i \in 1 .. Len(rd'.out) : CursorValid(rd.out[i].offset)'
      BY <2>1, <2>4, <1>1, <1>9 DEF CursorValid, SegmentAt, logvars
    <3> QED BY <3>1, <3>2, <3>3 DEF Flight
  <2>11. ReadExact'
    BY <1>17 DEF IInv, ReadExact
  <2>12. rd' # Idle
    BY <2>1, <2>4 DEF Idle
  <2>13. IInv'
    BY <2>5, <2>6, <2>8, <2>9, <2>10, <2>11, <1>1, LogFrozen DEF IInv
  <2> QED BY <2>12, <2>13, <1>1, <1>17
<1> QED BY <1>10, <1>14, <1>16, <1>17 DEF mid, up, out, rest

\* The read of the active segment that ends readv.
LEMMA ReadActiveIInv ==
    ASSUME IInv, ReadActive
    PROVE  /\ IInv'
           /\ rd' = Idle => Returned
           /\ rd' # Idle => UNCHANGED <<logvars, cursor, reply>>
<1> DEFINE c   == rd.cursor
           s   == SegmentAt(c)
           res == SegmentReadv(s, c, rd.len)
           out == rd.out \o res.out
           mid == <<c[1], res.next>>
           e   == EndOf(Active)
<1>1. rd # Idle /\ rd.at = "active" /\ UNCHANGED logvars
  BY DEF ReadActive, Idle
<1>2. rd \in Busy
  BY <1>1 DEF IInv, TypeOK
<1>3. /\ c \in Cursor /\ c[1] \in Nat /\ c[2] \in Nat
      /\ rd.reader \in Reader /\ rd.start \in Cursor /\ rd.want \in Quota
      /\ rd.out \in Seq(Entry)
      /\ rd.start[2] \in Nat /\ rd.want \in Nat /\ rd.len \in Nat
  BY <1>2, LogAssumption DEF Busy, Cursor
<1>4. CursorValid(c) /\ c[1] = tail
  BY <1>1 DEF IInv, Flight, ReadInBounds
<1>5. c[1] - head + 1 \in 1 .. Len(segments) /\ head \in Nat /\ tail \in Nat
  BY <1>1 DEF IInv, ReadInBounds, LogInv
<1>6. head <= c[1] /\ ~(c[1] < head)
  BY <1>3, <1>5
<1>7. /\ EndOf(s) \in Nat /\ EndOf(s) = e /\ s.absolute_offset \in Nat
      /\ s.absolute_offset <= c[2] /\ c[2] <= EndOf(s)
  BY <1>3, <1>4, <1>6, ValidSegment
<1>8. /\ res.next \in Nat /\ c[2] <= res.next /\ res.next <= EndOf(s)
      /\ res.pos \in {"Next", "Done"}
      /\ res.pos = "Next" => res.next < EndOf(s) /\ Len(out) = rd.want
      /\ res.pos = "Done" => res.next = EndOf(s)
      /\ out \in Seq(Entry)
      /\ Len(out) = res.next - rd.start[2]
      /\ Len(out) <= rd.want
      /\ Len(rd.out) = c[2] - rd.start[2]
      /\ Len(rd.out) + rd.len = rd.want
      /\ \A i \in 1 .. Len(out) : /\ CursorValid(out[i].offset)
                                  /\ out[i].offset[2] = rd.start[2] + i - 1
                                  /\ out[i].message.ordinal = rd.start[2] + i - 1
  BY <1>1, FlightReads
<1>9. mid \in Cursor /\ mid[1] = c[1] /\ mid[2] = res.next /\ SegmentAt(mid) = s
  BY <1>3, <1>8 DEF Cursor, SegmentAt
<1>10. \/ EndOf(s) <= c[2] /\ Return(rd.reader, "Done", rd.start, c, rd.want, rd.out)
       \/ EndOf(s) > c[2] /\ Return(rd.reader, res.pos, rd.start, mid, rd.want, out)
  BY DEF ReadActive
<1>11. CASE EndOf(s) <= c[2] /\ Return(rd.reader, "Done", rd.start, c, rd.want, rd.out)
  <2>1. c[2] = e
    BY <1>3, <1>7, <1>11
  <2>2. Len(rd.out) <= rd.want
    <3>1. Len(rd.out) \in Nat
      BY <1>3
    <3> QED BY <3>1, <1>3, <1>8
  <2>3. \A i \in 1 .. Len(rd.out) : /\ CursorValid(rd.out[i].offset)
                                    /\ rd.out[i].offset[2] = rd.start[2] + i - 1
                                    /\ rd.out[i].message.ordinal = rd.start[2] + i - 1
    BY <1>1 DEF IInv, Flight, ReadInFlight
  <2>4. Finished(rd.reader, "Done", rd.start, c, rd.want, rd.out)
    <3> HIDE DEF c, s, res
    <3> QED BY <2>1, <2>2, <2>3, <1>3, <1>4, <1>8 DEF Finished, e
  <2>5. Returned
    <3> HIDE DEF c
    <3>1. Return(rd.reader, "Done", rd.start, c, rd.want, rd.out)
      BY <1>11
    <3> QED BY <2>4, <3>1 DEF Returned, Finished
  <2>6. rd' = Idle
    BY <1>11 DEF Return
  <2> QED BY <2>4, <2>5, <2>6, <1>1, <1>11, ReturnIInv
<1>12. CASE EndOf(s) > c[2] /\ Return(rd.reader, res.pos, rd.start, mid, rd.want, out)
  <2>1. CursorValid(mid)
    <3>1. s.absolute_offset <= res.next /\ c[1] <= tail
      BY <1>3, <1>4, <1>7, <1>8
    <3> HIDE DEF s, c, res, mid
    <3> QED BY <3>1, <1>6, <1>8, <1>9 DEF CursorValid
  <2>2. res.pos = "Done" <=> mid[2] = e
    BY <1>7, <1>8, <1>9
  <2>3. Finished(rd.reader, res.pos, rd.start, mid, rd.want, out)
    <3> HIDE DEF s, c, res, mid, out
    <3> QED BY <2>1, <2>2, <1>3, <1>8, <1>9 DEF Finished, e
  <2> HIDE DEF mid, out, c, s, res
  <2>4. Returned
    BY <2>3, <1>12 DEF Returned, Finished
  <2>5. rd' = Idle
    BY <1>12 DEF Return
  <2> QED BY <2>3, <2>4, <2>5, <1>1, <1>12, ReturnIInv
<1> HIDE DEF mid, out, c, s, res
<1> QED BY <1>10, <1>11, <1>12

------------------------------------------------------------------------------
\* Every step keeps the invariant.
LEMMA NextIInv == IInv /\ [Next]_vars => IInv'
<1> SUFFICES ASSUME IInv, [Next]_vars PROVE IInv'
  OBVIOUS
<1>1. ASSUME NEW size \in Sizes, AppendMessage(size) PROVE IInv'
  BY <1>1, AppendIInv
<1>2. ASSUME NEW r \in Reader, Subscribe(r) PROVE IInv'
  BY <1>2, SubscribeIInv
<1>3. ASSUME NEW r \in Reader, Retransmit(r) PROVE IInv'
  BY <1>3, RetransmitIInv
<1>4. ASSUME NEW r \in Reader, NEW len \in Quota, ReadBegin(r, len) PROVE IInv'
  BY <1>4, ReadBeginIInv
<1>5. CASE ReadOlder
  BY <1>5, ReadOlderIInv
<1>6. CASE ReadActive
  BY <1>6, ReadActiveIInv
<1>7. CASE UNCHANGED vars
  <2>1. UNCHANGED logvars
    BY <1>7 DEF vars, logvars
  <2>2. LogInv' /\ LaterNonEmpty' /\ \A c : CursorValid(c)' <=> CursorValid(c)
    BY <2>1, LogFrozen
  <2>3. TypeOK' /\ CursorsValid' /\ ReadExact' /\ ReadInFlight'
    BY <1>7, <2>2 DEF IInv, vars, TypeOK, CursorsValid, ReadExact, ReadInFlight
  <2>4. ReadInBounds' /\ Flight'
    BY <1>7 DEF IInv, vars, ReadInBounds, Flight, CursorValid, SegmentAt
  <2> QED BY <2>2, <2>3, <2>4 DEF IInv
<1> QED BY <1>1, <1>2, <1>3, <1>4, <1>5, <1>6, <1>7 DEF Next

\* The inductive invariant holds of every reachable state.
LEMMA Invariance == Spec => []IInv
BY InitIInv, NextIInv, PTL DEF Spec

\* The state keeps its shape.
THEOREM TypeCorrect == Spec => []TypeOK
BY Invariance, PTL DEF IInv

\* The deque of segments stays as the comment on CommitLog states: contiguous,
\* within its two limits, each message under its own offset.
THEOREM LogShape == Spec => [](SegmentsContiguous /\ SizeBounded /\ OffsetsName)
<1>1. IInv => SegmentsContiguous /\ SizeBounded /\ OffsetsName
  BY DEF IInv, LogInv
<1> QED BY Invariance, <1>1, PTL

\* No cursor held by a request, or that a retransmission may restore, ever
\* points past the log or before its segment.
THEOREM CursorsStayValid == Spec => []CursorsValid
BY Invariance, PTL DEF IInv

\* readv never indexes a missing segment and its subtractions never underflow.
THEOREM ReadsInBounds == Spec => []ReadInBounds
BY Invariance, PTL DEF IInv

\* A read returns the next messages, all of them in order, each with the offset
\* it is stored under, and as many as it was asked for unless it is Done.
THEOREM ReadsExact == Spec => []ReadExact
BY Invariance, PTL DEF IInv

\* A read that says Done has read everything appended so far.
THEOREM DoneMeansCaughtUp == Spec => DoneIsCaughtUp
<1>1. ASSUME IInv, [Next]_vars, rd # Idle, rd' = Idle
      PROVE  reply'.kind = "Done" <=> reply'.end[2] = NextOffset[2]
  <2>1. ReadOlder \/ ReadActive
    BY <1>1 DEF Next, vars, AppendMessage, Subscribe, Retransmit, ReadBegin
  <2>2. Returned
    BY <1>1, <2>1, ReadOlderIInv, ReadActiveIInv
  <2>3. PICK kind \in {"Next", "Done"}, end \in Cursor, out \in Seq(Entry) :
            /\ Finished(rd.reader, kind, rd.start, end, rd.want, out)
            /\ Return(rd.reader, kind, rd.start, end, rd.want, out)
    BY <2>2 DEF Returned
  <2>4. reply'.kind = kind /\ reply'.end = end
    BY <2>3 DEF Return
  <2>5. kind = "Done" <=> end[2] = EndOf(Active)
    BY <2>3 DEF Finished
  <2> QED BY <2>4, <2>5 DEF NextOffset
<1>2. IInv /\ [Next]_vars
      => [(rd # Idle /\ rd' = Idle) =>
            (reply'.kind = "Done" <=> reply'.end[2] = NextOffset[2])]_vars
  BY <1>1
<1> QED BY <1>2, Invariance, PTL DEF Spec, DoneIsCaughtUp

------------------------------------------------------------------------------
\* What was handed out lies behind the reader, so a retransmission never moves
\* it forward.
SentBehind == \A r \in Reader : \A c \in sent[r] : c[2] < cursor[r][2]

\* A read that ends leaves its reader at its end, and all it handed out before.
LEMMA ReturnBehind ==
    ASSUME IInv, SentBehind, rd # Idle, Returned
    PROVE  SentBehind'
<1>1. PICK kind \in {"Next", "Done"}, end \in Cursor, out \in Seq(Entry) :
         /\ Finished(rd.reader, kind, rd.start, end, rd.want, out)
         /\ Return(rd.reader, kind, rd.start, end, rd.want, out)
  BY DEF Returned
<1> DEFINE x == rd.reader
<1>2. /\ cursor' = [cursor EXCEPT ![x] = end]
      /\ sent' = [sent EXCEPT ![x] = @ \cup {out[i].offset : i \in 1 .. Len(out)}]
      /\ x \in Reader /\ rd.start \in Cursor
  BY <1>1 DEF Return, Finished
<1>3. /\ cursor \in [Reader -> Cursor] /\ sent \in [Reader -> SUBSET Cursor]
      /\ segments \in Seq(Segment) /\ Len(segments) >= 1
  BY LogFacts DEF IInv, TypeOK
<1>4. /\ end[2] \in Nat /\ rd.start[2] \in Nat /\ cursor[x][2] \in Nat
      /\ Len(out) \in Nat
  BY <1>1, <1>2, <1>3 DEF Cursor
<1>5. segments[1].absolute_offset \in Nat
  BY <1>3, SegmentFields
<1>6. cursor[x][2] <= rd.start[2]
  BY <1>4, <1>5 DEF IInv, Flight
<1>7. /\ Len(out) = end[2] - rd.start[2]
      /\ \A i \in 1 .. Len(out) : out[i].offset[2] = rd.start[2] + i - 1
  BY <1>1 DEF Finished
<1>8. rd.start[2] <= end[2]
  BY <1>4, <1>7
<1>9. ASSUME NEW i \in 1 .. Len(out) PROVE out[i].offset[2] < end[2]
  <2>1. out[i].offset[2] = rd.start[2] + i - 1
    BY <1>7
  <2> QED BY <2>1, <1>4, <1>7
<1>10. ASSUME NEW c \in sent[x] PROVE c[2] < end[2]
  <2>1. c[2] < cursor[x][2] /\ c[2] \in Nat
    BY <1>2, <1>3 DEF SentBehind, Cursor
  <2> QED BY <2>1, <1>4, <1>6, <1>8
<1> HIDE DEF x
<1>11. ASSUME NEW r \in Reader, NEW c \in sent'[r] PROVE c[2] < cursor'[r][2]
  <2>1. CASE r = x
    <3>1. c \in sent[x] \cup {out[i].offset : i \in 1 .. Len(out)} /\ cursor'[r] = end
      BY <1>2, <1>3, <1>11, <2>1
    <3> QED BY <3>1, <1>9, <1>10
  <2>2. CASE r # x
    <3>1. c \in sent[r] /\ cursor'[r] = cursor[r]
      BY <1>2, <1>3, <1>11, <2>2
    <3> QED BY <3>1 DEF SentBehind
  <2> QED BY <2>1, <2>2
<1> QED BY <1>11 DEF SentBehind

\* A reader whose offers are forgotten, wherever it is put.
LEMMA ForgetBehind ==
    ASSUME IInv, SentBehind, NEW r \in Reader, NEW c \in Cursor,
           cursor' = [cursor EXCEPT ![r] = c], sent' = [sent EXCEPT ![r] = {}]
    PROVE  SentBehind'
<1>1. cursor \in [Reader -> Cursor] /\ sent \in [Reader -> SUBSET Cursor]
  BY DEF IInv, TypeOK
<1>2. ASSUME NEW x \in Reader, NEW d \in sent'[x] PROVE d[2] < cursor'[x][2]
  <2>1. x # r /\ d \in sent[x] /\ cursor'[x] = cursor[x]
    BY <1>1, <1>2
  <2> QED BY <2>1 DEF SentBehind
<1> QED BY <1>2 DEF SentBehind

\* Every step keeps what was sent behind the cursor of its reader.
LEMMA NextBehind == IInv /\ SentBehind /\ [Next]_vars => SentBehind'
<1> SUFFICES ASSUME IInv, SentBehind, [Next]_vars PROVE SentBehind'
  OBVIOUS
<1>1. CASE UNCHANGED <<cursor, sent>>
  BY <1>1 DEF SentBehind
<1>2. ASSUME NEW r \in Reader, Subscribe(r) PROVE SentBehind'
  <2>1. NextOffset \in Cursor
    <3>1. /\ Len(segments) \in Nat /\ Len(segments) >= 1
          /\ Active = segments[Len(segments)] /\ EndOf(segments[Len(segments)]) \in Nat
      BY LogFacts DEF IInv
    <3>2. tail \in Nat
      BY DEF IInv, TypeOK
    <3> QED BY <3>1, <3>2 DEF NextOffset, Cursor
  <2> QED BY <2>1, <1>2, ForgetBehind DEF Subscribe
<1>3. ASSUME NEW r \in Reader, Retransmit(r) PROVE SentBehind'
  <2>1. PICK c \in sent[r] : cursor' = [cursor EXCEPT ![r] = c]
    BY <1>3 DEF Retransmit
  <2>2. c \in Cursor
    BY DEF IInv, TypeOK
  <2> QED BY <2>1, <2>2, <1>3, ForgetBehind DEF Retransmit
<1>4. ASSUME NEW r \in Reader, NEW len \in Quota, ReadBegin(r, len) PROVE SentBehind'
  <2>1. cursor[r][1] <= tail /\ cursor[r][1] \in Nat /\ tail \in Nat
    BY DEF IInv, CursorsValid, CursorValid, TypeOK, Cursor
  <2>2. ~(cursor[r][1] > tail)
    BY <2>1
  <2> QED BY <2>2, <1>1, <1>4 DEF ReadBegin
<1>5. CASE ReadOlder \/ ReadActive
  <2>1. /\ rd' = Idle => Returned
        /\ rd' # Idle => UNCHANGED <<logvars, cursor, reply>>
    BY <1>5, ReadOlderIInv, ReadActiveIInv
  <2>2. rd # Idle
    BY <1>5 DEF ReadOlder, ReadActive, Idle
  <2>3. CASE rd' = Idle
    BY <2>1, <2>2, <2>3, ReturnBehind
  <2>4. CASE rd' # Idle
    BY <2>4, <1>1, <1>5 DEF ReadOlder, ReadActive, Return
  <2> QED BY <2>3, <2>4
<1>6. ASSUME NEW size \in Sizes, AppendMessage(size) PROVE SentBehind'
  BY <1>6, <1>1 DEF AppendMessage
<1> QED BY <1>1, <1>2, <1>3, <1>4, <1>5, <1>6 DEF Next, vars

\* What was sent is behind the cursor of its reader, always.
LEMMA Behind == Spec => []SentBehind
<1>1. Init => SentBehind
  BY DEF Init, SentBehind
<1> QED BY <1>1, NextBehind, Invariance, PTL DEF Spec

------------------------------------------------------------------------------
\* The log implements ReplayLog, step by step.
RBase  == segments[1].absolute_offset
RTotal == EndOf(Active)
RPos   == [r \in Reader |-> cursor[r][2]]
RGot   == IF reply = Idle THEN [by |-> "none"]
          ELSE [by |-> reply.reader, from |-> reply.start[2], to |-> reply.end[2],
                done |-> reply.kind = "Done", msgs |-> Ordinals(reply.out)]

\* The initial states are initial states of ReplayLog.
LEMMA ReplayInit == Init => Replay!Init
<1> SUFFICES ASSUME Init PROVE Replay!Init
  OBVIOUS
<1> DEFINE s == WithOffset(0)
<1>1. s.absolute_offset = 0 /\ EndOf(s) = 0
  BY EmptySegment
<1>2. segments = <<s>> /\ reply = Idle /\ cursor = [r \in Reader |-> <<0, 0>>]
  BY DEF Init
<1> HIDE DEF s
<1>3. segments[1] = s /\ Active = s
  BY <1>2 DEF Active
<1>4. RPos = [r \in Reader |-> 0]
  BY <1>2 DEF RPos
<1> QED BY <1>1, <1>2, <1>3, <1>4 DEF Replay!Init, Replay!NoRead, RPos

\* Where a valid cursor may stand.
LEMMA CursorInLog ==
    ASSUME IInv, NEW c \in Cursor, CursorValid(c)
    PROVE  /\ c[2] \in 0 .. RTotal
           /\ RBase \in Nat /\ RTotal \in Nat /\ RBase <= RTotal
<1> DEFINE o == <<head, RBase>>
<1>1. o \in Cursor /\ CursorValid(o) /\ head <= o[1] /\ o[2] = RBase
  <2>1. o \in Cursor /\ CursorValid(o)
    BY OldestCursor DEF RBase
  <2> QED BY <2>1 DEF IInv, LogInv
<1>2. RBase \in Nat /\ RTotal \in Nat /\ RBase <= RTotal
  <2>1. /\ o[2] <= EndOf(SegmentAt(o)) /\ EndOf(SegmentAt(o)) <= EndOf(Active)
        /\ EndOf(SegmentAt(o)) \in Nat /\ EndOf(Active) \in Nat
        /\ segments[1].absolute_offset \in Nat
    BY <1>1, ValidSegment
  <2> HIDE DEF o
  <2> QED BY <2>1, <1>1 DEF RBase, RTotal
<1>3. c[1] \in Nat /\ c[2] \in Nat /\ head \in Nat
  BY DEF Cursor, IInv, LogInv
<1>4. CASE c[1] < head
  <2>1. c[2] <= RBase
    BY <1>4 DEF CursorValid, RBase
  <2> QED BY <2>1, <1>2, <1>3
<1>5. CASE head <= c[1]
  <2>1. /\ c[2] <= EndOf(SegmentAt(c)) /\ EndOf(SegmentAt(c)) <= EndOf(Active)
        /\ EndOf(SegmentAt(c)) \in Nat
    BY <1>5, ValidSegment
  <2> QED BY <2>1, <1>2, <1>3 DEF RTotal
<1> QED BY <1>3, <1>4, <1>5

\* A read that ends is one Read of ReplayLog.
LEMMA ReplayRead ==
    ASSUME IInv, rd # Idle, UNCHANGED logvars, Returned
    PROVE  \E r \in Reader, n \in Quota : Replay!Read(r, n)
<1> DEFINE st == rd.start
<1>0. rd.reader \in Reader /\ rd.want \in Quota
  BY DEF Returned, Finished
<1>r. PICK r \in Reader : r = rd.reader
  BY <1>0
<1>n. PICK n \in Quota : n = rd.want
  BY <1>0
<1>1. PICK kind \in {"Next", "Done"}, end \in Cursor, out \in Seq(Entry) :
         /\ Finished(r, kind, st, end, n, out)
         /\ Return(r, kind, st, end, n, out)
  BY <1>r, <1>n DEF Returned
<1>2. /\ r \in Reader /\ n \in Quota /\ n \in Nat /\ st \in Cursor
      /\ st[2] \in Nat /\ end[2] \in Nat /\ Len(out) \in Nat
  <2>1. r \in Reader /\ n \in Quota /\ st \in Cursor /\ out \in Seq(Entry)
    BY <1>1 DEF Finished
  <2>2. Len(out) \in Nat
    OBVIOUS
  <2>4. n \in Nat
    BY <2>1, LogAssumption
  <2>3. st[2] \in Nat /\ end[2] \in Nat
    BY <2>1 DEF Cursor
  <2> QED BY <2>1, <2>2, <2>3, <2>4
<1> DEFINE from == Replay!Larger(RPos[r], RBase)
           to   == Replay!Smaller(from + n, RTotal)
<1>3. from = st[2]
  BY <1>2, <1>r DEF IInv, Flight, Replay!Larger, RPos, RBase
<1>4. end[2] \in 0 .. RTotal /\ RTotal \in Nat
  BY <1>1, CursorInLog DEF Finished
<1>5. /\ Len(out) = end[2] - st[2] /\ Len(out) <= n
      /\ (kind = "Next" => Len(out) = n)
      /\ (kind = "Done" <=> end[2] = RTotal)
      /\ \A i \in 1 .. Len(out) : out[i].message.ordinal = st[2] + i - 1
  BY <1>1 DEF Finished, RTotal
<1> HIDE DEF st, from
<1>6. to = end[2]
  <2>1. end[2] <= st[2] + n
    BY <1>2, <1>5
  <2>2. CASE kind = "Done"
    BY <2>1, <2>2, <1>2, <1>3, <1>4, <1>5 DEF Replay!Smaller
  <2>3. CASE kind = "Next"
    <3>1. end[2] = st[2] + n
      BY <2>3, <1>2, <1>5
    <3> QED BY <3>1, <1>2, <1>3, <1>4 DEF Replay!Smaller
  <2> QED BY <2>2, <2>3
<1>7. /\ cursor' = [cursor EXCEPT ![r] = end]
      /\ reply' = [at |-> "reply", reader |-> r, kind |-> kind, start |-> st,
                   end |-> end, want |-> n, out |-> out]
  BY <1>1 DEF Return
<1>8. RBase' = RBase /\ RTotal' = RTotal
  BY DEF RBase, RTotal, logvars, Active
<1>9. RPos' = [RPos EXCEPT ![r] = to]
  <2> HIDE DEF to
  <2>1. cursor \in [Reader -> Cursor]
    BY DEF IInv, TypeOK
  <2> QED BY <2>1, <1>2, <1>6, <1>7 DEF RPos
<1>10. RGot' = [by |-> r, from |-> from, to |-> to, done |-> to = RTotal,
                msgs |-> [i \in 1 .. to - from |-> from + i - 1]]
  <2>1. Ordinals(out) = [i \in 1 .. to - from |-> from + i - 1]
    BY <1>3, <1>5, <1>6 DEF Ordinals
  <2>2. (kind = "Done") = (to = RTotal)
    BY <1>5, <1>6
  <2>3. reply' # Idle
    BY <1>7 DEF Idle
  <2>4. RGot' = [by |-> r, from |-> st[2], to |-> end[2], done |-> kind = "Done",
                 msgs |-> Ordinals(out)]
    BY <2>3, <1>7 DEF RGot, Ordinals
  <2> HIDE DEF to
  <2> QED BY <2>1, <2>2, <2>4, <1>3, <1>6
<1>11. Replay!Read(r, n)
  <2>1. Replay!Read(r, n)
        <=> LET f == Replay!Larger(RPos[r], RBase)
                t == Replay!Smaller(f + n, RTotal)
            IN  /\ RGot' = [by |-> r, from |-> f, to |-> t, done |-> t = RTotal,
                            msgs |-> [i \in 1 .. t - f |-> f + i - 1]]
                /\ RPos' = [RPos EXCEPT ![r] = t]
                /\ UNCHANGED <<RBase, RTotal>>
    BY DEF Replay!Read, RBase, RTotal, RPos, RGot
  <2> QED BY <2>1, <1>8, <1>9, <1>10 DEF from
<1> QED BY <1>11

\* The other steps.
LEMMA ReplayAppend ==
    ASSUME IInv, NEW size \in Sizes, AppendMessage(size)
    PROVE  Replay!Append1
<1>1. /\ RTotal' = RTotal + 1 /\ RBase <= RBase' /\ RBase' <= RTotal
  BY AppendStep DEF IInv, RTotal, RBase
<1>2. LogInv'
  BY AppendStep DEF IInv
<1>3. RBase \in Nat /\ RTotal \in Nat /\ RBase' \in Nat
  <2>1. /\ Len(segments) \in Nat /\ Len(segments) >= 1 /\ Active = segments[Len(segments)]
        /\ \A i \in 1 .. Len(segments) : /\ segments[i].absolute_offset \in Nat
                                         /\ EndOf(segments[i]) \in Nat
    BY LogFacts DEF IInv
  <2>2. segments' \in Seq(Segment) /\ Len(segments') >= 1
    <3>1. segments' \in Seq(Segment) /\ Len(segments') \in 1 .. MaxMemSegments
      BY <1>2 DEF LogInv, SegmentsContiguous
    <3> QED BY <3>1, LogAssumption
  <2>3. segments'[1] \in Segment
    BY <2>2
  <2>4. segments'[1].absolute_offset \in Nat
    BY <2>3, SegmentFields
  <2> QED BY <2>1, <2>4 DEF RBase, RTotal
<1>4. UNCHANGED <<cursor, reply>>
  BY DEF AppendMessage
<1>5. RBase' \in RBase .. RTotal
  BY <1>1, <1>3
<1> QED BY <1>1, <1>4, <1>5 DEF Replay!Append1, RBase, RTotal, Ordinals

\* subscribe is the abstract Subscribe.
LEMMA ReplaySubscribe ==
    ASSUME IInv, NEW r \in Reader, Subscribe(r)
    PROVE  Replay!Join(r)
<1>1. cursor' = [cursor EXCEPT ![r] = NextOffset] /\ UNCHANGED <<logvars, reply>>
  BY DEF Subscribe
<1>2. cursor \in [Reader -> Cursor] /\ NextOffset[2] = RTotal
  BY DEF IInv, TypeOK, NextOffset, RTotal
<1>3. RPos' = [RPos EXCEPT ![r] = RTotal]
  BY <1>1, <1>2 DEF RPos
<1> QED BY <1>1, <1>3 DEF Replay!Join, RPos, RTotal, logvars, Active, Ordinals

\* A retransmission is the abstract Rewind.
LEMMA ReplayRetransmit ==
    ASSUME IInv, SentBehind, NEW r \in Reader, Retransmit(r)
    PROVE  Replay!Rewind(r)
<1>1. PICK c \in sent[r] : cursor' = [cursor EXCEPT ![r] = c]
  BY DEF Retransmit
<1>2. UNCHANGED <<logvars, reply>>
  BY DEF Retransmit
<1>3. c \in Cursor /\ CursorValid(c) /\ cursor \in [Reader -> Cursor]
  BY DEF IInv, TypeOK, CursorsValid
<1>4. c[2] \in 0 .. RPos[r]
  <2>1. c[2] < cursor[r][2]
    BY DEF SentBehind
  <2>2. c[2] \in Nat /\ cursor[r][2] \in Nat /\ RPos[r] = cursor[r][2]
    BY <1>3 DEF Cursor, RPos
  <2> QED BY <2>1, <2>2
<1>5. RPos' = [RPos EXCEPT ![r] = c[2]]
  BY <1>1, <1>3 DEF RPos
<1>6. \E p \in 0 .. RPos[r] : RPos' = [RPos EXCEPT ![r] = p]
  BY <1>4, <1>5
<1> QED BY <1>2, <1>6 DEF Replay!Rewind, RPos, RTotal, logvars, Active, Ordinals

\* A step inside readv is a stutter of ReplayLog.
LEMMA ReplayStutter ==
    ASSUME UNCHANGED <<logvars, cursor, reply>>
    PROVE  UNCHANGED Replay!vars
BY DEF Replay!vars, logvars, Active, Ordinals

\* Every step of the segmented log is a step of ReplayLog, or a stutter.
LEMMA ReplayNext == IInv /\ SentBehind /\ [Next]_vars => [Replay!Next]_(Replay!vars)
<1> SUFFICES ASSUME IInv, SentBehind, [Next]_vars PROVE Replay!Next \/ UNCHANGED Replay!vars
  BY DEF Replay!vars
<1>1. ASSUME NEW size \in Sizes, AppendMessage(size) PROVE Replay!Next
  BY <1>1, ReplayAppend DEF Replay!Next
<1>2. ASSUME NEW r \in Reader, Subscribe(r) PROVE Replay!Next
  BY <1>2, ReplaySubscribe DEF Replay!Next
<1>3. ASSUME NEW r \in Reader, Retransmit(r) PROVE Replay!Next
  BY <1>3, ReplayRetransmit DEF Replay!Next
<1>4. ASSUME NEW r \in Reader, NEW len \in Quota, ReadBegin(r, len)
      PROVE  UNCHANGED Replay!vars
  <2>1. cursor[r][1] <= tail
    BY DEF IInv, CursorsValid, CursorValid
  <2>2. cursor[r][1] \in Nat /\ tail \in Nat
    BY DEF IInv, TypeOK, Cursor
  <2>3. ~(cursor[r][1] > tail)
    BY <2>1, <2>2
  <2>4. UNCHANGED <<logvars, cursor, reply>>
    BY <1>4, <2>3 DEF ReadBegin
  <2> QED BY <2>4, ReplayStutter
<1>5. CASE ReadOlder \/ ReadActive
  <2>1. /\ rd' = Idle => Returned
        /\ rd' # Idle => UNCHANGED <<logvars, cursor, reply>>
    BY <1>5, ReadOlderIInv, ReadActiveIInv
  <2>2. rd # Idle /\ UNCHANGED logvars
    BY <1>5 DEF ReadOlder, ReadActive, Idle
  <2>3. CASE rd' = Idle
    BY <2>1, <2>2, <2>3, ReplayRead DEF Replay!Next
  <2>4. CASE rd' # Idle
    BY <2>1, <2>4, ReplayStutter
  <2> QED BY <2>3, <2>4
<1>6. CASE UNCHANGED vars
  BY <1>6, ReplayStutter DEF vars, logvars
<1> QED BY <1>1, <1>2, <1>3, <1>4, <1>5, <1>6 DEF Next

\* The segmented log is a ReplayLog: a reader sees every message from where it
\* stands, in order and once, skips only what retention has dropped, and is
\* told it is done exactly at the newest message.
THEOREM CommitLogImplementsReplayLog == Spec => ReplaySpec
BY ReplayInit, ReplayNext, Invariance, Behind, PTL DEF Spec, ReplaySpec, Replay!Spec

==============================================================================
