SPECIFICATION Spec
CONSTANTS
    TackleCycles = 2
    FoulCycles = 2
    CatchBan = 2
    GoalieMoves = 1
    PointBan = 1
    PointTime = 2
    StaminaMax = 3
    ExtraStamina = 1
    StaminaCapacity = 3
    IncMax = 1
    MaxLevel = 2
    Mates = {m1}
    Rivals = {r1, r2}
    HearMax = 1
    HearInc = 1
    HearDecay = 1
    MaxSaid = 2
    Kinds = {"meta", "info"}
    Win <- MCWin
    WinSize = 2
    MessDelay = 1
    PerCycle = 1
    FreeformMax = 1
    WaitPeriod = 2
    SendPeriod = 1
    Squad = 2
    Extra = 1
    PlayerTypes = 3
    PtMax = 1
    SubsMax = 2
    AllowMult = FALSE
    GameTime = 2
    MaxCoachQueue = 2
    MaxSubs = 2
    Protocols = {5, 8, 13, 14, 18}
    Acts <- MCActs
    MaxGap = 8
    MaxCalls = 9
INVARIANTS
    OneCommand
    HearingLimited
    TypeQuota
    SeePays
    NewerKnowsMore
    
PROPERTIES
    StaminaBudget
    FocusFirst
CHECK_DEADLOCK FALSE
