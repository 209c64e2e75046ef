SPECIFICATION MCSpec
CONSTANTS
    q1 = q1
    q2 = q2
    f1 = f1
    f2 = f2
    Request = {q1, q2}
    Filter = {f1, f2}
    FilterIdx <- OnePerFilter
    MaxRetained = 1
    MaxInflight = 3
    MaxMessages = 3
    MaxPubrels = 2
INVARIANTS TypeOK PkidsDistinct FirstIsLeast NothingLost PubRelBeforeReuse
