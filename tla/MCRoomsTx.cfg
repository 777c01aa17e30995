SPECIFICATION TxSpec
CONSTANTS
    Room = {r1}
    Battle = {b1}
    User = {u1, u2, u3}
    Code = {c1}
    Null = Null
    Call = {p1, p2}
    MaxAttempts = 1
    Sweeper = Sweeper
SYMMETRY Symmetry
INVARIANTS
    TypeOK
    HostSeated
    StatusMatchesPlayers
    BattleMatchesRoom
    IndexesRedundant
    ReadsHold
    SweepHolds
PROPERTIES
    StatusMatrix
    ImplementsLobby
    ImplementsRooms
CHECK_DEADLOCK FALSE
