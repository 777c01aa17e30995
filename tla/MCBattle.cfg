SPECIFICATION FairSpec
CONSTANTS
    Request = {t1, t2}
    Worker = Worker
    LobbyTx = LobbyTx
    q1 = q1
    q2 = q2
    good = good
    bad = bad
    Stream <- TwoQuestions
    Answer = {good, bad}
    Key <- Keys
    MaxIndex <- LongAndShort
    Null = Null
INVARIANTS
    CardMatchesLog
    ResultsMatchScores
    PointerMatchesLog
    NoLockDeadlock
PROPERTIES
    RoomReleasedOnce
    ImplementsMatch
    BattleEnds
