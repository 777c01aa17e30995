SPECIFICATION Spec
CONSTANTS
    Room = {r1}
    Battle = {b1}
    User = {u1, u2}
    Code = {c1}
    Null = Null
INVARIANT
    ReadyIsPossible
CHECK_DEADLOCK FALSE
