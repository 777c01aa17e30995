SPECIFICATION FairSpec
CONSTANTS
    Handler = {h1, h2}
    Worker = Worker
    MaxConns = 4
    Room = {1}
    Key = {1, 2}
    Null = Null
INVARIANTS
    NothingLeaks
    NoDeadlock
PROPERTIES
    CallsReturn
