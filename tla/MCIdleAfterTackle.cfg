SPECIFICATION BodySpec
CONSTANTS
    TackleCycles = 2
    FoulCycles = 2
    CatchBan = 2
    GoalieMoves = 1
    PointBan = 1
    PointTime = 2
    StaminaMax = 3
    ExtraStamina = 1
    StaminaCapacity = 3
    IncMax = 1
    MaxLevel = 2
INVARIANT
    TackledIsIdle
CHECK_DEADLOCK FALSE
