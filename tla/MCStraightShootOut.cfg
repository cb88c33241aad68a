SPECIFICATION Spec
CONSTANTS
    HalfTime = 3
    ExtraHalfTime = 2
    NrNormalHalfs = 0
    NrExtraHalfs = 0
    GoldenGoal = FALSE
    PenaltyShootOuts = TRUE
    AutoMode = TRUE
    KickOffWait = 1
    ConnectWait = 1
    GameOverWait = 1
    FaultWait = 1
    AfterGoalWait = 1
    Operator = FALSE
    MaxGoals = 1
    TimeLimit = 4
    ShootOutLimit = 2
PROPERTIES
    StraightIntoShootOut
