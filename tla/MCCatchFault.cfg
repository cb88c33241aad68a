SPECIFICATION Spec
CONSTANTS
    Players <- MCPlayers
    Goalies <- MCGoalies
    DropTime = 3
    Wait = 1
    UseOffside = FALSE
    UseIllegalDefense = FALSE
    IllegalDuration = 2
    FreeKickFaults = TRUE
    ProperGoalKicks = TRUE
    MaxGoalKicks = 2
    BackPasses = TRUE
    Operator = FALSE
PROPERTY FreeKickAfterCatchFault
