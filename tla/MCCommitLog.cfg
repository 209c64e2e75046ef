SPECIFICATION MCSpec
CONSTANTS
    Reader = {r1}
    Quota = {0, 1, 2, 4}
    Sizes = {1, 3}
    MaxSegmentSize = 3
    MaxMemSegments = 2
    MaxMessages = 5
INVARIANTS TypeOK SegmentsContiguous CursorsValid ReadInBounds ReadExact
PROPERTIES DoneIsCaughtUp ReplaySpec
