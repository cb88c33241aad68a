SPECIFICATION Spec
CONSTANTS
    HalfTime = 3
    ExtraHalfTime = 2
    NrNormalHalfs = 2
    NrExtraHalfs = 2
    GoldenGoal = TRUE
    PenaltyShootOuts = TRUE
    AutoMode = TRUE
    KickOffWait = 1
    ConnectWait = 1
    GameOverWait = 1
    FaultWait = 1
    AfterGoalWait = 1
    Operator = FALSE
    MaxGoals = 1
    TimeLimit = 12
    ShootOutLimit = 1
INVARIANTS
    TypeOK
    ClockFollowsHalves
    KickOffSideAgreed
    ShootOutOnlyWhenDrawn
    GoldenGoalEndsMatch
PROPERTIES
    EndIsJustified
    TimeOverIsFinal
    MatchEnds
