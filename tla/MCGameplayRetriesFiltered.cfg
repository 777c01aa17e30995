SPECIFICATION Spec
CONSTANTS
    Request = {s1, s2}
    q1 = q1
    q2 = q2
    a1 = a1
    a2 = a2
    a3 = a3
    Streams <- RepeatingStream
    Answer = {a1, a2, a3}
    Key <- Keys
    Null = Null
INVARIANT
    RetriesFiltered
CHECK_DEADLOCK FALSE
