SPECIFICATION Spec
CONSTANTS
    Unums = {1, 2}
    Goalie = 1
    NrKicks = 2
    MaxExtraKicks = 1
    BeforeSetupWait = 0
    SetupWait = 1
    ReadyWait = 1
    TakenWait = 1
    MultKicks = TRUE
    CoachMoves = FALSE
    RandomWinner = TRUE
    GoalieNearSpot = FALSE
INVARIANTS
    TypeOK
    NoRepeatTaker
    AttemptsAddUp
    TossIsLastResort
PROPERTIES
    FollowsRules
    ShootOutEnds
