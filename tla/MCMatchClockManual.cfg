SPECIFICATION Spec
CONSTANTS
    HalfTime = 2
    ExtraHalfTime = 2
    NrNormalHalfs = 2
    NrExtraHalfs = 1
    GoldenGoal = FALSE
    PenaltyShootOuts = TRUE
    AutoMode = FALSE
    KickOffWait = 0
    ConnectWait = 0
    GameOverWait = 0
    FaultWait = 0
    AfterGoalWait = 0
    Operator = TRUE
    MaxGoals = 1
    TimeLimit = 8
    ShootOutLimit = 2
PROPERTIES
    EndIsJustified
CHECK_DEADLOCK FALSE
