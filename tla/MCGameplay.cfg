SPECIFICATION FairSpec
CONSTANTS
    Request = {s1, s2}
    q1 = q1
    q2 = q2
    a1 = a1
    a2 = a2
    a3 = a3
    Streams <- ShortStreams
    Answer = {a1, a2}
    Key <- Keys
    Null = Null
INVARIANTS
    JudgedAsAsked
    CountedOnce
    NeverAhead
PROPERTIES
    GetsThrough
    BackInStep
CHECK_DEADLOCK FALSE
