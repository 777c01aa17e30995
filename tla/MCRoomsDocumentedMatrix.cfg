SPECIFICATION Spec
CONSTANTS
    Room = {r1}
    Battle = {b1}
    User = {u1, u2}
    Code = {c1}
    Null = Null
PROPERTY
    DocumentedMatrix
CHECK_DEADLOCK FALSE
