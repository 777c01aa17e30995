SPECIFICATION Spec
CONSTANTS
    q1 = q1
    q2 = q2
    q3 = q3
    v1 = v1
    w1 = w1
    v2 = v2
    v3 = v3
    bad = bad
    Id = {q1, q2, q3}
    Text = {v1, w1, v2, v3, bad}
    Title <- MCTitle
    Sound = {v1, w1, v2, v3}
    File <- MCFile
    Battle = {b1}
    Seed = {0}
    Shuffle <- MCShuffle
    StreamSize = 4
    Null = Null
INVARIANTS
    NoHalfQuestion
    SeedingConverges
    JudgedAsShown
    EvenlyAsked
CHECK_DEADLOCK FALSE
