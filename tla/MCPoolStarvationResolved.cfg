SPECIFICATION Spec
CONSTANTS
    Handler = {h1, h2, h3}
    Worker = Worker
    MaxConns = 3
    Room = {1}
    Key = {1, 2}
    Null = Null
SYMMETRY Symmetry
INVARIANTS
    StarvationResolved
