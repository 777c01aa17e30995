SPECIFICATION Spec
CONSTANTS
    p1 = p1
    p2 = p2
    p3 = p3
    Player = {p1, p2, p3}
    Outcome = {"Player1Win", "Draw", "Player2Win", "other"}
    KFactor = 32
    Half = 32
    Expect <- MCExpect
    Start <- MCStart
    MaxMatches = 3
    Null = Null
INVARIANTS
    RowsAccepted
    PairedRows
    ZeroSum
CHECK_DEADLOCK FALSE
