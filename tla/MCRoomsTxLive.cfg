SPECIFICATION TxFairSpec
CONSTANTS
    Room = {r1}
    Battle = {b1}
    User = {u1, u2}
    Code = {c1}
    Null = Null
    Call = {p1}
    MaxAttempts = 2
    Sweeper = Sweeper
PROPERTIES
    CallsReturn
    OverdueLobbyEnds
    RoomComesBack
CHECK_DEADLOCK FALSE
