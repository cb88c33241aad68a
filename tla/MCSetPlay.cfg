SPECIFICATION Spec
CONSTANTS
    Players <- MCPlayers
    Goalies <- MCGoalies
    DropTime = 3
    Wait = 1
    UseOffside = TRUE
    UseIllegalDefense = TRUE
    IllegalDuration = 2
    FreeKickFaults = TRUE
    ProperGoalKicks = TRUE
    MaxGoalKicks = 2
    BackPasses = TRUE
    Operator = TRUE
INVARIANTS
    CatcherHasFreeKick
PROPERTIES
    RestartInTime
    NoGoalFromIndirect
    FaultByTaker
    
    BackPassWasKicked
    OffsideFollowsPass
    IllegalDefenseUnderAttack
    MovesAsMatchClock
