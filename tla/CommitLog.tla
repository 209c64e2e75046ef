------------------------------ MODULE CommitLog ------------------------------
(***************************************************************************)
(* The in-memory log of one subscription filter                            *)
(* (src/crates/rumqttd/src/segments/{mod,segment}.rs): a deque of segments *)
(* with retention, and `readv', which a data request calls with its        *)
(* cursor.                                                                  *)
(*                                                                         *)
(* A cursor, and the offset handed out with a message, is a pair           *)
(* <<segment index, absolute offset>>.  `readv' is a loop over segments and *)
(* is modelled one iteration per step, its locals in `rd'; the router       *)
(* thread owns the log, so nothing else happens to it while `rd' is busy.   *)
(* A message is its ordinal (0, 1, 2, ... in append order) and its size.    *)
(***************************************************************************)
EXTENDS Integers, Sequences

CONSTANTS Reader,           \* data requests reading this log
          Quota,            \* the `len' a read may ask for
          Sizes,            \* sizes of messages
          MaxSegmentSize,   \* max_segment_size
          MaxMemSegments    \* max_mem_segments

ASSUME LogAssumption ==
    /\ Quota \subseteq Nat
    /\ Sizes \subseteq Nat \ {0}     \* PublishData::size is at least 4
    /\ MaxSegmentSize \in Nat \ {0}
    /\ MaxMemSegments \in Nat \ {0}  \* CommitLog::new panics otherwise

VARIABLES head,       \* index of the oldest segment kept
          tail,       \* index of the active segment
          segments,   \* the segments head .. tail, oldest first
          cursor,     \* cursor[r]: DataRequest::cursor of reader r
          sent,       \* sent[r]: offsets of the messages forwarded to r
          rd,         \* locals of the `readv' in progress
          reply       \* what the latest `readv' returned

logvars == <<head, tail, segments>>
vars == <<head, tail, segments, cursor, sent, rd, reply>>

Cursor  == Nat \X Nat
Message == [ordinal : Nat, size : Sizes]
Segment == [absolute_offset : Nat, total_size : Nat, data : Seq(Message)]
Entry   == [message : Message, offset : Cursor]

Idle == [at |-> "idle"]
Busy == [at : {"loop", "active"}, reader : Reader, start : Cursor,
         cursor : Cursor, len : Nat, want : Quota, out : Seq(Entry)]

------------------------------------------------------------------------------
\* Segment

WithOffset(o) == [absolute_offset |-> o, total_size |-> 0, data |-> <<>>]
EndOf(s)      == s.absolute_offset + Len(s.data)           \* next_offset()
Push(s, m)    == [absolute_offset |-> s.absolute_offset,
                  total_size      |-> s.total_size + m.size,
                  data            |-> Append(s.data, m)]

\* Slip: a read that ends exactly at the end of the segment is not Done.
SegmentReadvOffByOne(s, c, len) ==
    LET idx   == c[2] - s.absolute_offset
        size  == Len(s.data)
        limit == IF idx + len > size THEN size ELSE idx + len
    IN  IF idx >= size
        THEN [pos |-> "Done", next |-> EndOf(s), out |-> <<>>]
        ELSE [pos  |-> IF idx + len > size THEN "Done" ELSE "Next",
              next |-> s.absolute_offset + limit,
              out  |-> [k \in 1 .. limit - idx |->
                          [message |-> s.data[idx + k],
                           offset  |-> <<c[1], c[2] + k - 1>>]]]

\* Segment::readv.  `pos' is Next(o) or Done(o); `next' is that o; `out' are
\* the messages it copied, each with the offset it is handed out with.
SegmentReadv(s, c, len) ==
    LET idx   == c[2] - s.absolute_offset
        size  == Len(s.data)
        limit == IF idx + len >= size THEN size ELSE idx + len
    IN  IF idx >= size
        THEN [pos |-> "Done", next |-> EndOf(s), out |-> <<>>]
        ELSE [pos  |-> IF idx + len >= size THEN "Done" ELSE "Next",
              next |-> s.absolute_offset + limit,
              out  |-> [k \in 1 .. limit - idx |->
                          [message |-> s.data[idx + k],
                           offset  |-> <<c[1], c[2] + k - 1>>]]]

------------------------------------------------------------------------------
\* CommitLog

Active        == segments[Len(segments)]
NextOffset    == <<tail, EndOf(Active)>>
SegmentAt(c)  == segments[c[1] - head + 1]

Init ==
    /\ head = 0
    /\ tail = 0
    /\ segments = <<WithOffset(0)>>
    /\ cursor = [r \in Reader |-> <<0, 0>>]
    /\ sent = [r \in Reader |-> {}]
    /\ rd = Idle
    /\ reply = Idle

\* apply_retention: a full active segment is closed and a new one opened; the
\* oldest segment goes first when the limit is reached.
Full == Active.total_size >= MaxSegmentSize

Retained ==
    IF Full THEN Append(IF Len(segments) >= MaxMemSegments
                        THEN Tail(segments) ELSE segments,
                        WithOffset(EndOf(Active)))
            ELSE segments

\* Slip: the oldest segment goes without `head' following it.
AppendKeepingHead(size) ==
    /\ rd = Idle
    /\ LET kept == Retained
           m    == [ordinal |-> EndOf(Active), size |-> size]
       IN  segments' = [kept EXCEPT ![Len(kept)] = Push(@, m)]
    /\ tail' = IF Full THEN tail + 1 ELSE tail
    /\ UNCHANGED <<head, cursor, sent, rd, reply>>

\* CommitLog::append
AppendMessage(size) ==
    /\ rd = Idle
    /\ LET kept == Retained
           m    == [ordinal |-> EndOf(Active), size |-> size]
       IN  segments' = [kept EXCEPT ![Len(kept)] = Push(@, m)]
    /\ head' = IF Full /\ Len(segments) >= MaxMemSegments THEN head + 1 ELSE head
    /\ tail' = IF Full THEN tail + 1 ELSE tail
    /\ UNCHANGED <<cursor, sent, rd, reply>>

\* A new data request starts at next_offset() (DataLog::next_native_offset).
Subscribe(r) ==
    /\ rd = Idle
    /\ cursor' = [cursor EXCEPT ![r] = NextOffset]
    /\ sent' = [sent EXCEPT ![r] = {}]
    /\ UNCHANGED <<logvars, rd, reply>>

\* A disconnection resets the cursor of a persistent session's request to that
\* of a message forwarded and not acknowledged; the window starts empty again.
Retransmit(r) ==
    /\ rd = Idle
    /\ \E c \in sent[r] : cursor' = [cursor EXCEPT ![r] = c]
    /\ sent' = [sent EXCEPT ![r] = {}]
    /\ UNCHANGED <<logvars, rd, reply>>

------------------------------------------------------------------------------
\* CommitLog::readv, called through DataLog::native_readv.

Return(r, kind, start, end, want, out) ==
    /\ reply' = [at |-> "reply", reader |-> r, kind |-> kind, start |-> start,
                 end |-> end, want |-> want, out |-> out]
    /\ cursor' = [cursor EXCEPT ![r] = end]
    /\ sent' = [sent EXCEPT ![r] = @ \cup {out[i].offset : i \in 1 .. Len(out)}]
    /\ rd' = Idle

\* Slips: the jump to the head keeps the old offset; `start' is the cursor asked
\* for and not the one jumped to.
ReadBeginOldOffset(r, len) ==
    LET c  == cursor[r]
        c1 == IF c[1] < head THEN <<head, c[2]>> ELSE c
    IN  /\ rd = Idle
        /\ c[1] <= tail
        /\ rd' = [at |-> IF c1[1] < tail THEN "loop" ELSE "active", reader |-> r,
                  start |-> c1, cursor |-> c1, len |-> len, want |-> len, out |-> <<>>]
        /\ UNCHANGED <<cursor, sent, reply, logvars>>

ReadBeginOldStart(r, len) ==
    LET c  == cursor[r]
        c1 == IF c[1] < head THEN <<head, segments[1].absolute_offset>> ELSE c
    IN  /\ rd = Idle
        /\ c[1] <= tail
        /\ rd' = [at |-> IF c1[1] < tail THEN "loop" ELSE "active", reader |-> r,
                  start |-> c, cursor |-> c1, len |-> len, want |-> len, out |-> <<>>]
        /\ UNCHANGED <<cursor, sent, reply, logvars>>

\* The prologue: a cursor beyond the log, behind the oldest segment, or behind
\* the first offset of its segment.
ReadBegin(r, len) ==
    LET c  == cursor[r]
        c1 == IF c[1] < head THEN <<head, segments[1].absolute_offset>> ELSE c
        s  == SegmentAt(c1)
        c2 == IF s.absolute_offset > c1[2] THEN <<c1[1], s.absolute_offset>> ELSE c1
    IN  /\ rd = Idle
        /\ IF c[1] > tail
           THEN Return(r, "Done", c, c, len, <<>>)
           ELSE /\ rd' = [at |-> IF c2[1] < tail THEN "loop" ELSE "active",
                          reader |-> r, start |-> c2, cursor |-> c2, len |-> len,
                          want |-> len, out |-> <<>>]
                /\ UNCHANGED <<cursor, sent, reply>>
        /\ UNCHANGED logvars

\* Slips: `len' loses the whole offset, or nothing; a read satisfied inside a
\* segment continues in the next one.
ReadOlderStep(rest(_), end) ==
    LET s   == SegmentAt(rd.cursor)
        res == SegmentReadv(s, rd.cursor, rd.len)
        out == rd.out \o res.out
        up  == <<rd.cursor[1] + 1, res.next>>
    IN  /\ rd.at = "loop"
        /\ \/ /\ res.pos = "Next"
              /\ Return(rd.reader, "Next", rd.start, <<end, res.next>>, rd.want, out)
           \/ /\ res.pos = "Done"
              /\ rd' = [rd EXCEPT !.at = IF up[1] < tail THEN "loop" ELSE "active",
                                  !.cursor = up, !.len = rest(res.next), !.out = out]
              /\ UNCHANGED <<cursor, sent, reply>>
        /\ UNCHANGED logvars

LessOffset(next)      == rd.len - next
SameLen(next)         == rd.len
LessRead(next)        == rd.len - (next - rd.cursor[2])
ReadOlderOverDecrement == ReadOlderStep(LessOffset, rd.cursor[1])
ReadOlderNoDecrement   == ReadOlderStep(SameLen, rd.cursor[1])
ReadOlderSkip          == ReadOlderStep(LessRead, rd.cursor[1] + 1)

\* One iteration of `while cursor.0 < self.tail'.
ReadOlder ==
    LET s   == SegmentAt(rd.cursor)
        res == SegmentReadv(s, rd.cursor, rd.len)
        out == rd.out \o res.out
        rest == IF res.next >= rd.cursor[2]
                THEN rd.len - (res.next - rd.cursor[2]) ELSE rd.len
        up  == <<rd.cursor[1] + 1, res.next>>
    IN  /\ rd.at = "loop"
        /\ \/ /\ res.pos = "Next"
              /\ Return(rd.reader, "Next", rd.start, <<rd.cursor[1], res.next>>, rd.want, out)
           \/ /\ res.pos = "Done"
              /\ rest = 0
              /\ Return(rd.reader, "Next", rd.start, up, rd.want, out)
           \/ /\ res.pos = "Done"
              /\ rest # 0
              /\ rd' = [rd EXCEPT !.at = IF up[1] < tail THEN "loop" ELSE "active",
                                  !.cursor = up, !.len = rest, !.out = out]
              /\ UNCHANGED <<cursor, sent, reply>>
        /\ UNCHANGED logvars

\* The active segment, after the loop.
ReadActive ==
    LET s   == SegmentAt(rd.cursor)
        res == SegmentReadv(s, rd.cursor, rd.len)
    IN  /\ rd.at = "active"
        /\ \/ /\ EndOf(s) <= rd.cursor[2]
              /\ Return(rd.reader, "Done", rd.start, rd.cursor, rd.want, rd.out)
           \/ /\ EndOf(s) > rd.cursor[2]
              /\ Return(rd.reader, res.pos, rd.start, <<rd.cursor[1], res.next>>,
                        rd.want, rd.out \o res.out)
        /\ UNCHANGED logvars

Next ==
    \/ \E size \in Sizes : AppendMessage(size)
    \/ \E r \in Reader : Subscribe(r) \/ Retransmit(r)
    \/ \E r \in Reader, len \in Quota : ReadBegin(r, len)
    \/ ReadOlder
    \/ ReadActive

Spec == Init /\ [][Next]_vars

------------------------------------------------------------------------------
\* Properties

\* The shape of the state.
TypeOK ==
    /\ head \in Nat
    /\ tail \in Nat
    /\ segments \in Seq(Segment)
    /\ cursor \in [Reader -> Cursor]
    /\ sent \in [Reader -> SUBSET Cursor]
    /\ rd \in Busy \cup {Idle}
    /\ \/ reply = Idle
       \/ reply \in [at : {"reply"}, reader : Reader, kind : {"Next", "Done"},
                     start : Cursor, end : Cursor, want : Nat, out : Seq(Entry)]

\* The invariants stated in the comment on CommitLog: the active segment has
\* index `tail', the segments are contiguous (in their indices and in the
\* offsets they cover), no more than max_mem_segments are kept, and a segment
\* exceeds max_segment_size by no more than its last message.
SegmentsContiguous ==
    /\ Len(segments) = tail - head + 1
    /\ Len(segments) \in 1 .. MaxMemSegments
    /\ \A i \in 1 .. Len(segments) - 1 :
          segments[i + 1].absolute_offset = EndOf(segments[i])

SizeBounded ==
    \A i \in 1 .. Len(segments) : LET s == segments[i] IN
        Len(s.data) > 0 =>
            s.total_size - s.data[Len(s.data)].size < MaxSegmentSize

\* The message with ordinal n is the one stored at absolute offset n: what a
\* reader is handed as (message, offset) is the message appended there.
OffsetsName ==
    \A i \in 1 .. Len(segments) : \A j \in 1 .. Len(segments[i].data) :
        segments[i].data[j].ordinal = segments[i].absolute_offset + j - 1

\* A cursor held by a request, or handed out with a message, never points past
\* the log nor before the segment it names, so the jumps of `readv' are only
\* ever forward to the oldest kept message.
CursorValid(c) ==
    /\ c[1] <= tail
    /\ IF c[1] < head
       THEN c[2] <= segments[1].absolute_offset
       ELSE SegmentAt(c).absolute_offset <= c[2] /\ c[2] <= EndOf(SegmentAt(c))

CursorsValid ==
    \A r \in Reader : CursorValid(cursor[r]) /\ \A c \in sent[r] : CursorValid(c)

\* `readv' never indexes a missing segment and its unsigned subtractions
\* (cursor.1 - absolute_offset in Segment::readv, len -= ... in the loop)
\* never underflow: the two comments in the code that claim so are right.
ReadInBounds ==
    rd # Idle =>
        /\ rd.cursor[1] - head + 1 \in 1 .. Len(segments)
        /\ SegmentAt(rd.cursor).absolute_offset <= rd.cursor[2]
        /\ rd.len \in Nat
        /\ rd.at = "active" <=> rd.cursor[1] = tail

\* A finished read returned consecutive messages starting at `start', each
\* with the offset it is stored under, stopped exactly at `end', returned as
\* many as it was asked for unless it is Done, and is Done exactly when `end'
\* is the end of the log: only then may the request be parked.
ReadExact ==
    reply # Idle =>
        /\ Len(reply.out) = reply.end[2] - reply.start[2]
        /\ Len(reply.out) <= reply.want
        /\ reply.kind = "Next" => Len(reply.out) = reply.want
        /\ \A i \in 1 .. Len(reply.out) :
              /\ reply.out[i].offset[2] = reply.start[2] + i - 1
              /\ reply.out[i].message.ordinal = reply.start[2] + i - 1

\* A read that says Done has read everything appended so far.
DoneIsCaughtUp ==
    [][ (rd # Idle /\ rd' = Idle) =>
          (reply'.kind = "Done" <=> reply'.end[2] = NextOffset[2]) ]_vars

\* A read in flight sees a frozen log, so what it has copied so far are the
\* messages from `start' up to its cursor.
ReadInFlight ==
    rd # Idle =>
        /\ Len(rd.out) = rd.cursor[2] - rd.start[2]
        /\ Len(rd.out) + rd.len = rd.want
        /\ rd.at = "loop" => rd.cursor[1] < tail
        /\ \A i \in 1 .. Len(rd.out) :
              /\ rd.out[i].offset[2] = rd.start[2] + i - 1
              /\ rd.out[i].message.ordinal = rd.start[2] + i - 1

\* The log implements ReplayLog: segments, retention by segment and the loop
\* of `readv' are invisible to a reader.
Ordinals(out) == [i \in 1 .. Len(out) |-> out[i].message.ordinal]

Replay == INSTANCE ReplayLog WITH
    base  <- segments[1].absolute_offset,
    total <- EndOf(Active),
    pos   <- [r \in Reader |-> cursor[r][2]],
    got   <- IF reply = Idle THEN [by |-> "none"]
             ELSE [by |-> reply.reader, from |-> reply.start[2], to |-> reply.end[2],
                   done |-> reply.kind = "Done", msgs |-> Ordinals(reply.out)]

ReplaySpec == Replay!Spec
==============================================================================
