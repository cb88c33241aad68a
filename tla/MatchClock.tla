----------------------------- MODULE MatchClock -----------------------------
(***************************************************************************)
(* The clock of a match: the simulator cycle of Stadium::step, the time    *)
(* referee that cuts a match into halves, the goals, the start and the end *)
(* of the penalty shoot-out, and the auto mode that kicks off every half   *)
(* and shuts the server down after the match.                              *)
(*                                                                         *)
(* One simulator cycle (Stadium::doNewSimulatorStep) is a fixed sequence   *)
(* of calls on one thread; pc names the next one:                          *)
(*                                                                         *)
(*   recv -> time -> field -> penalty -> end -> auto -> recv               *)
(*                                                                         *)
(* Commands of clients are handled between two cycles, at pc = "recv".     *)
(* "field" stands for the referees between TimeRef and PenaltyRef.  In a   *)
(* stopped mode they are modelled exactly (a wait, then the restart for    *)
(* the other side); in a live mode they may make any call they can make.   *)
(* "penalty" is PenaltyRef, of which only the start and the end matter     *)
(* here.                                                                   *)
(***************************************************************************)
EXTENDS Integers, PlayModes

CONSTANTS
    HalfTime,           \* server::half_time, in cycles
    ExtraHalfTime,      \* server::extra_half_time, in cycles
    NrNormalHalfs,      \* server::nr_normal_halfs
    NrExtraHalfs,       \* server::nr_extra_halfs
    GoldenGoal,         \* server::golden_goal
    PenaltyShootOuts,   \* server::penalty_shoot_outs
    AutoMode,           \* server::auto_mode
    KickOffWait,        \* server::kick_off_wait
    ConnectWait,        \* server::connect_wait
    GameOverWait,       \* server::game_over_wait
    FaultWait,          \* AFTER_*_WAIT of the fault referees (30)
    AfterGoalWait,      \* TouchRef::AFTER_GOAL_WAIT (50)
    Operator,           \* may a monitor send dispstart and dispfoul?
    MaxGoals,           \* bound: goals of a side
    TimeLimit,          \* bound: the clock, for what may put off the end for ever
    ShootOutLimit       \* bound: cycles a shoot-out takes

\* A half_time of 0 or less is a match without a clock; it is not modelled.
ASSUME ClockAssumption ==
    /\ HalfTime \in Nat \ {0}
    /\ {ExtraHalfTime, NrNormalHalfs, NrExtraHalfs} \subseteq Nat
    /\ {KickOffWait, ConnectWait, GameOverWait} \subseteq Nat
    /\ {FaultWait, AfterGoalWait} \subseteq Nat
    /\ {GoldenGoal, PenaltyShootOuts, AutoMode, Operator} \subseteq BOOLEAN
    /\ {MaxGoals, TimeLimit, ShootOutLimit} \subseteq Nat

VARIABLES
    pc,             \* the next call of the cycle
    playmode,       \* M_playmode
    stepMode,       \* the local pm of Stadium::step
    time,           \* M_time
    halfTimeCount,  \* s_half_time_count of TimeRef::analyse
    point,          \* goals of each team
    enabled,        \* teams that have a name, i.e. ever had a player
    full,           \* M_remote_players.size() == MAX_PLAYER * 2
    kickOffSide,    \* M_kick_off_side
    after,          \* M_after_*_time of the referee that called the stop
    shootOut,       \* has startPenaltyShootout run? (first_time negated)
    kickOffWait,    \* M_kick_off_wait
    connectWait,    \* M_connect_wait
    gameOverWait,   \* M_game_over_wait
    alive           \* M_alive

matchVars == <<playmode, stepMode, time, halfTimeCount, point, kickOffSide,
               after, shootOut>>
waitVars  == <<kickOffWait, connectWait, gameOverWait, alive>>
teamVars  == <<enabled, full>>
vars      == <<pc, matchVars, waitVars, teamVars>>

------------------------------------------------------------------------------
Normal  == HalfTime * NrNormalHalfs
Maximum == Normal + ExtraHalfTime * NrExtraHalfs

\* The clock value at which half c (counted from 0) starts.
HalfStart(c) == IF c < NrNormalHalfs
                THEN HalfTime * c
                ELSE Normal + ExtraHalfTime * (c - NrNormalHalfs)

Drawn       == point[Left] = point[Right]
BothEnabled == enabled[Left] /\ enabled[Right]
SomePlayer  == enabled[Left] \/ enabled[Right]
InShootOut  == isPenaltyShootOut(playmode)

Init ==
    /\ pc = "recv"
    /\ playmode = BeforeKickOff /\ stepMode = BeforeKickOff
    /\ time = 0 /\ halfTimeCount = 0
    /\ point = [s \in Sides |-> 0]
    /\ enabled = [s \in Sides |-> FALSE] /\ full = FALSE
    /\ kickOffSide = Left
    /\ after = 0 /\ shootOut = FALSE
    /\ kickOffWait = KickOffWait /\ connectWait = ConnectWait
    /\ gameOverWait = GameOverWait
    /\ alive = TRUE

changePlayMode(pm) ==
    /\ playmode' = pm
    /\ kickOffSide' = KickOffSideAfter(pm, kickOffSide)
    /\ after' = IF IsStopped(pm) THEN 0 ELSE after

\* Stadium::placeBall( pm, side, pos ): the side is noted, then the mode set.
placeBall(pm, s) ==
    /\ playmode' = pm
    /\ kickOffSide' = KickOffSideAfter(pm, s)
    /\ after' = IF IsStopped(pm) THEN 0 ELSE after

------------------------------------------------------------------------------
(* Stadium::kickOff, called by the auto mode, a monitor or the trainer.     *)

AtHalfBoundary ==
    \/ time <= Normal /\ time % HalfTime = 0
    \/ /\ time > Normal
       /\ ExtraHalfTime > 0
       /\ (time - Normal) % ExtraHalfTime = 0

KickOffTeam ==
    LET halves == IF time > Normal
                  THEN (time - Normal) \div ExtraHalfTime
                  ELSE time \div HalfTime
    IN  IF halves % 2 = 0 THEN Left ELSE Right

kickOff ==
    IF AtHalfBoundary
    THEN placeBall(PM("KickOff", KickOffTeam), KickOffTeam)
    ELSE UNCHANGED <<playmode, kickOffSide, after>>

------------------------------------------------------------------------------
(* Between two cycles: clients connect and send commands.                   *)

\* The first player of a side names the team (Team::enabled).
TeamConnects(s) ==
    /\ pc = "recv" /\ alive
    /\ ~ enabled[s]
    /\ enabled' = [enabled EXCEPT ![s] = TRUE]
    /\ UNCHANGED <<pc, full, matchVars, waitVars>>

\* The last of the 22 players connects, or one of them leaves.
SquadsChange ==
    /\ pc = "recv" /\ alive
    /\ BothEnabled
    /\ full' = ~ full
    /\ UNCHANGED <<pc, enabled, matchVars, waitVars>>

\* A call is made by placeBall, which notes the side that gets the ball.
FieldCall(pm) ==
    placeBall(pm, IF IsStopped(pm) THEN Opp(pm.side) ELSE pm.side)

\* What PenaltyRef may do in a shoot-out (the module Penalty says when): go
\* from one of its modes to another, or end the match.
ShootOutMove ==
    \/ changePlayMode(TimeOver)
    \/ \E k \in PenaltyKinds, s \in Sides : changePlayMode(PM(k, s))

\* The calls a touch of the ball may cause (Referee::ballTouched).  Two referees
\* do not ask whether play is stopped.  OffsideRef marks players and calls
\* offside in a stop, and before a kick-off too, once somebody has kicked the
\* ball; a touch does not change the side that is called, the last kicker's, so
\* that an offside is only called again as it was.  FreeKickRef calls the taker
\* of a goal kick during the stop for the taker's own fault.
TouchCalls(pm) ==
    \/ /\ IsLive(playmode)
       /\ pm.kind \in {"OffSide", "Free_Kick_Fault", "GoalKick"}
    \/ /\ IsStopped(playmode) /\ pm.kind = "OffSide"
       /\ playmode.kind = "OffSide" => pm = playmode
    \/ playmode = BeforeKickOff /\ halfTimeCount > 0 /\ pm.kind = "OffSide"
    \/ playmode.kind = "Free_Kick_Fault" /\ pm = playmode

\* The calls a command of a player may cause.  In a live mode, any.  In a
\* stopped one, those of a touch, or of a tackle that fails; and as
\* Player::tackle does nothing in the stopped modes but CatchFault, a tackle
\* may then be a foul.
CausesCall(pm) ==
    \/ IsLive(playmode)
    \/ playmode.kind = "CatchFault" /\ pm.kind = "Foul_Charge"
    \/ TouchCalls(pm)

\* A kick, tackle, catch or touch: it may put the ball in play or make a
\* referee call an offence.
PlayerCommand ==
    /\ pc = "recv" /\ alive
    /\ SomePlayer
    /\ \/ /\ IsLive(playmode) \/ playmode.kind = "CatchFault"
          /\ changePlayMode(PlayOn)
       \/ /\ IsLive(playmode) /\ IsStopped(stepMode) => time < TimeLimit
          /\ \E pm \in FieldCalls : CausesCall(pm) /\ FieldCall(pm)
       \/ InShootOut /\ ShootOutMove
    /\ UNCHANGED <<pc, stepMode, time, halfTimeCount, point, shootOut,
                   waitVars, teamVars>>

\* (dispstart) of a monitor: Stadium::kickOff whatever the play mode is.
DispStart ==
    /\ pc = "recv" /\ alive
    /\ Operator
    /\ kickOff
    /\ UNCHANGED <<pc, stepMode, time, halfTimeCount, point, shootOut,
                   waitVars, teamVars>>

\* (dispfoul) with a side: Stadium::callFoul.
DispFoul(s) ==
    /\ pc = "recv" /\ alive
    /\ Operator
    /\ ~ InShootOut
    /\ placeBall(PM("FreeKick", s), s)
    /\ UNCHANGED <<pc, stepMode, time, halfTimeCount, point, shootOut,
                   waitVars, teamVars>>

\* (dispfoul) without a side: Stadium::dropBall.
DispDropBall ==
    /\ pc = "recv" /\ alive
    /\ Operator
    /\ playmode' = IF InShootOut THEN playmode ELSE PlayOn
    /\ kickOffSide' = Neutral
    /\ UNCHANGED <<pc, after, stepMode, time, halfTimeCount, point, shootOut,
                   waitVars, teamVars>>

------------------------------------------------------------------------------
(* Stadium::step up to the referees: the clock runs in live modes only.     *)

ClockRuns == IsLive(playmode) \/ InShootOut

StepBegin ==
    /\ pc = "recv" /\ alive
    /\ Operator /\ ClockRuns => time < TimeLimit
    /\ stepMode' = playmode
    /\ time' = IF ClockRuns THEN time + 1 ELSE time
    /\ pc' = IF playmode = TimeOver THEN "end" ELSE "time"
    /\ UNCHANGED <<playmode, halfTimeCount, point, kickOffSide, after,
                   shootOut, waitVars, teamVars>>

\* incMovableObjects: the ball collides with a player and a referee calls it
\* before TimeRef has seen the cycle, which then looks away.
StepTouch ==
    /\ pc = "time" /\ UNCHANGED pc
    /\ SomePlayer
    /\ IsStopped(playmode) \/ (IsLive(playmode) /\ time < TimeLimit)
    /\ \E pm \in FieldCalls : TouchCalls(pm) /\ FieldCall(pm)
    /\ UNCHANGED <<stepMode, time, halfTimeCount, point, shootOut, waitVars,
                   teamVars>>

------------------------------------------------------------------------------
(* TimeRef::analyse.                                                        *)

ExtraCount == (halfTimeCount + 1) - NrNormalHalfs

TimeIsUpIgnoringScore == ClockRuns /\ time >= Maximum
TimeIsUp ==
    /\ ClockRuns
    /\ IF time >= Maximum
       THEN ~ (PenaltyShootOuts /\ Drawn)
       ELSE /\ time >= Normal
            /\ \/ ~ BothEnabled
               \/ GoldenGoal /\ ~ Drawn
               \/ /\ time >= Normal + ExtraHalfTime * ExtraCount
                  /\ ExtraCount = 0 /\ ~ Drawn

HalfIsUp ==
    /\ ClockRuns
    /\ ~ TimeIsUp
    /\ time < Maximum
    /\ IF time >= Normal
       THEN time >= Normal + ExtraHalfTime * ExtraCount
       ELSE time >= HalfTime * (halfTimeCount + 1)

HalfTimeSideAlways(c) == Left
HalfTimeSide(c) == IF c % 2 = 0 THEN Left ELSE Right

callHalfTimeKeepingClock(c) ==
    /\ placeBall(BeforeKickOff, HalfTimeSide(c))
    /\ time' = time
callHalfTime(c) ==
    /\ placeBall(BeforeKickOff, HalfTimeSide(c))
    /\ time' = HalfStart(c)

TimeUp ==
    /\ pc = "time" /\ pc' = "field"
    /\ TimeIsUp
    /\ changePlayMode(TimeOver)
    /\ UNCHANGED <<stepMode, time, halfTimeCount, point, shootOut, waitVars,
                   teamVars>>

HalfTimeUp ==
    /\ pc = "time" /\ pc' = "field"
    /\ HalfIsUp
    /\ halfTimeCount' = halfTimeCount + 1
    /\ callHalfTime(halfTimeCount + 1)
    /\ UNCHANGED <<stepMode, point, shootOut, waitVars, teamVars>>

TimeGoesOn ==
    /\ pc = "time" /\ pc' = "field"
    /\ ~ TimeIsUp /\ ~ HalfIsUp
    /\ UNCHANGED <<matchVars, waitVars, teamVars>>

------------------------------------------------------------------------------
(* The referees between TimeRef and PenaltyRef.                             *)

\* A stopped mode lasts for the wait of its referee, then play restarts.
WaitOf(pm) == IF pm.kind = "AfterGoal" THEN AfterGoalWait ELSE FaultWait

FieldWait ==
    /\ pc = "field" /\ pc' = "penalty"
    /\ IsStopped(playmode)
    /\ IF after + 1 > WaitOf(playmode)
       THEN \E pm \in RestartsAfter(playmode) : placeBall(pm, pm.side)
       ELSE after' = after + 1 /\ UNCHANGED <<playmode, kickOffSide>>
    /\ UNCHANGED <<stepMode, time, halfTimeCount, point, shootOut, waitVars,
                   teamVars>>

\* A referee that clears players from the ball (clearPlayersFromBall) resolves
\* collisions, so that a stop or the wait for a kick-off may end in a call.
FieldTouch ==
    /\ pc = "field" /\ pc' = "penalty"
    /\ SomePlayer /\ ~ IsLive(playmode)
    /\ \E pm \in FieldCalls : TouchCalls(pm) /\ FieldCall(pm)
    /\ UNCHANGED <<stepMode, time, halfTimeCount, point, shootOut, waitVars,
                   teamVars>>

\* TouchRef::checkGoal: a goal of side s.  A team without players has no
\* points; a golden goal ends the match.
FieldGoalAnyClock(s) ==
    /\ pc = "field" /\ pc' = "penalty"
    /\ IsLive(playmode) /\ SomePlayer
    /\ point[s] < MaxGoals
    /\ point' = IF enabled[s] THEN [point EXCEPT ![s] = @ + 1] ELSE point
    /\ placeBall(PM("AfterGoal", s), Opp(s))
    /\ UNCHANGED <<stepMode, time, halfTimeCount, shootOut, waitVars, teamVars>>
FieldGoal(s) ==
    /\ pc = "field" /\ pc' = "penalty"
    /\ IsLive(playmode) /\ SomePlayer
    /\ point[s] < MaxGoals
    /\ point' = IF enabled[s] THEN [point EXCEPT ![s] = @ + 1] ELSE point
    /\ placeBall(IF GoldenGoal /\ time >= Normal THEN TimeOver
                 ELSE PM("AfterGoal", s),
                 Opp(s))
    /\ UNCHANGED <<stepMode, time, halfTimeCount, shootOut, waitVars, teamVars>>

FieldCalled ==
    /\ pc = "field" /\ pc' = "penalty"
    /\ IsLive(playmode)
    /\ \/ FieldCall(PlayOn)
       \/ SomePlayer /\ changePlayMode(PlayOn)
       \/ SomePlayer /\ \E pm \in FieldCalls : FieldCall(pm)
    /\ UNCHANGED <<stepMode, time, halfTimeCount, point, shootOut, waitVars,
                   teamVars>>

FieldQuiet ==
    /\ pc = "field" /\ pc' = "penalty"
    /\ ~ IsStopped(playmode)
    /\ UNCHANGED <<matchVars, waitVars, teamVars>>

------------------------------------------------------------------------------
(* PenaltyRef::analyse.                                                     *)

ShootOutDueAnyScore ==
    /\ ~ shootOut
    /\ PenaltyShootOuts
    /\ playmode # BeforeKickOff
    /\ time >= Maximum
ShootOutDue ==
    /\ ~ shootOut
    /\ PenaltyShootOuts
    /\ playmode # BeforeKickOff
    /\ Drawn
    /\ time >= Maximum

ShootOutStarts ==
    /\ pc = "penalty" /\ pc' = "end"
    /\ ShootOutDue
    /\ shootOut' = TRUE
    /\ \E s \in Sides : changePlayMode(PM("PenaltySetup", s))
    /\ UNCHANGED <<stepMode, time, halfTimeCount, point, waitVars, teamVars>>

\* The shoot-out ends within ShootOutLimit cycles (Penalty!ShootOutEnds).
ShootOutGoesOn ==
    /\ pc = "penalty" /\ pc' = "end"
    /\ ~ ShootOutDue
    /\ InShootOut
    /\ ShootOutMove
    /\ time >= Maximum + ShootOutLimit => playmode' = TimeOver
    /\ UNCHANGED <<stepMode, time, halfTimeCount, point, shootOut, waitVars,
                   teamVars>>

NoShootOut ==
    /\ pc = "penalty" /\ pc' = "end"
    /\ ~ ShootOutDue /\ ~ InShootOut
    /\ UNCHANGED <<matchVars, waitVars, teamVars>>

------------------------------------------------------------------------------
(* The end of Stadium::step: a stop that was lifted costs one cycle.        *)

StepEnd ==
    /\ pc = "end" /\ pc' = "auto"
    /\ time' = IF IsStopped(stepMode) /\ playmode # stepMode
               THEN time + 1 ELSE time
    /\ UNCHANGED <<playmode, stepMode, halfTimeCount, point, kickOffSide,
                   after, shootOut, waitVars, teamVars>>

------------------------------------------------------------------------------
(* Stadium::checkAutoMode.                                                  *)

AutoModeOff ==
    /\ pc = "auto" /\ pc' = "recv"
    /\ ~ AutoMode
    /\ UNCHANGED <<matchVars, waitVars, teamVars>>

\* Count down to the kick-off: kick_off_wait once all players are there or
\* the match has begun, connect_wait otherwise.
AutoKickOff ==
    /\ pc = "auto" /\ pc' = "recv"
    /\ AutoMode
    /\ playmode = BeforeKickOff /\ time < Maximum
    /\ LET ready == full \/ time > 0
       IN  /\ kickOffWait' = IF ready /\ kickOffWait > 0
                             THEN kickOffWait - 1 ELSE kickOffWait
           /\ connectWait' = IF ~ ready /\ connectWait > 0
                             THEN connectWait - 1 ELSE connectWait
    /\ IF kickOffWait' <= 0 \/ connectWait' <= 0
       THEN kickOff
       ELSE UNCHANGED <<playmode, kickOffSide, after>>
    /\ gameOverWait' = GameOverWait
    /\ UNCHANGED <<stepMode, time, halfTimeCount, point, shootOut, alive,
                   teamVars>>

AutoNothing ==
    /\ pc = "auto" /\ pc' = "recv"
    /\ AutoMode
    /\ playmode # TimeOver
    /\ ~ (playmode = BeforeKickOff /\ time < Maximum)
    /\ kickOffWait' = KickOffWait /\ connectWait' = ConnectWait
    /\ gameOverWait' = GameOverWait
    /\ UNCHANGED <<matchVars, alive, teamVars>>

AutoGameOverLate ==
    /\ pc = "auto" /\ pc' = "recv"
    /\ AutoMode
    /\ playmode = TimeOver
    /\ kickOffWait' = KickOffWait /\ connectWait' = ConnectWait
    /\ gameOverWait' = gameOverWait - 1
    /\ alive' = (gameOverWait' >= 0)
    /\ UNCHANGED <<matchVars, teamVars>>
\* finalize: the server leaves its timer loop.
AutoGameOver ==
    /\ pc = "auto" /\ pc' = "recv"
    /\ AutoMode
    /\ playmode = TimeOver
    /\ kickOffWait' = KickOffWait /\ connectWait' = ConnectWait
    /\ gameOverWait' = IF gameOverWait > 0 THEN gameOverWait - 1
                       ELSE gameOverWait
    /\ alive' = (gameOverWait' > 0)
    /\ UNCHANGED <<matchVars, teamVars>>

Exited == ~ alive /\ UNCHANGED vars

------------------------------------------------------------------------------
Cycle ==
    \/ StepBegin
    \/ TimeUp \/ HalfTimeUp \/ TimeGoesOn
    \/ FieldWait \/ FieldTouch \/ (\E s \in Sides : FieldGoal(s))
    \/ FieldCalled \/ FieldQuiet
    \/ ShootOutStarts \/ ShootOutGoesOn \/ NoShootOut
    \/ StepEnd
    \/ AutoModeOff \/ AutoKickOff \/ AutoNothing \/ AutoGameOver

Next ==
    \/ Cycle
    \/ \E s \in Sides : TeamConnects(s) \/ DispFoul(s)
    \/ SquadsChange \/ PlayerCommand \/ StepTouch \/ DispStart \/ DispDropBall
    \/ Exited

\* The timer calls the simulator step for as long as the server lives.
Spec == Init /\ [][Next]_vars /\ WF_vars(Cycle)

------------------------------------------------------------------------------
(* Properties.                                                              *)

\* Types of the variables.
TypeOK ==
    /\ pc \in {"recv", "time", "field", "penalty", "end", "auto"}
    /\ playmode \in PlayMode /\ stepMode \in PlayMode
    /\ time \in Nat /\ halfTimeCount \in Nat /\ after \in Nat
    /\ point \in [Sides -> Nat]
    /\ enabled \in [Sides -> BOOLEAN] /\ full \in BOOLEAN
    /\ kickOffSide \in Sides \cup {Neutral}
    /\ shootOut \in BOOLEAN /\ alive \in BOOLEAN
    /\ kickOffWait \in 0..KickOffWait
    /\ connectWait \in 0..ConnectWait
    /\ gameOverWait \in 0..GameOverWait

\* The clock and the count of halves, which two objects keep (Stadium and a
\* static of TimeRef::analyse), never drift apart: the clock is never before
\* the start of the half being counted, and whenever the stadium waits for a
\* kick-off it shows exactly that start, or Stadium::kickOff would refuse to
\* kick off and the match would hang.
ClockFollowsHalves ==
    /\ HalfStart(halfTimeCount) <= time
    /\ playmode = BeforeKickOff => time = HalfStart(halfTimeCount)

\* The side TimeRef announces for the next half (callHalfTime) is the side
\* Stadium::kickOff computes from the clock when the half starts.
KickOffSideAgreed ==
    playmode = BeforeKickOff => AtHalfBoundary /\ kickOffSide = KickOffTeam

\* A shoot-out is held only after all halves and only while the score is level.
ShootOutOnlyWhenDrawn ==
    InShootOut => shootOut /\ Drawn /\ time >= Maximum

\* NEWS 14.0.0: with golden_goal the match ends at the first goal of the extra
\* halves, so between two cycles of an extra half nobody is ahead.
GoldenGoalEndsMatch ==
    GoldenGoal /\ halfTimeCount >= NrNormalHalfs /\ pc = "recv"
        => Drawn \/ ~ IsLive(playmode)

\* A match ends only after the normal halves, and then with a winner, by a
\* shoot-out, drawn at full time where no shoot-out is wanted, or because one
\* of the teams never showed up.
EndIsJustified ==
    [][playmode # TimeOver /\ playmode' = TimeOver =>
         /\ time >= Normal
         /\ \/ point'[Left] # point'[Right]
            \/ InShootOut
            \/ time >= Maximum /\ ~ PenaltyShootOuts
            \/ ~ BothEnabled]_vars

\* Once two teams have met, nothing but an operator's command leaves TimeOver.
\* (With one team missing a golden own goal counts for nobody, and PenaltyRef,
\* run later in the same cycle, opens a shoot-out on the level score.)
TimeOverIsFinal ==
    [][playmode = TimeOver /\ BothEnabled => playmode' = TimeOver]_vars

\* In auto mode every match comes to its end and the server exits, whoever
\* connects and whatever the score.  There is one proviso: TimeRef looks only
\* at live cycles, so stops that follow each other without TimeRef seeing a
\* cycle of play (the next is called in the very gap between two cycles in
\* which the last one was lifted, or while the ball moves in the first cycle
\* after it, or a touch in a stop is called offside) put off the end of a half;
\* they must not go on for ever.
QuickStop == /\ StepTouch \/ FieldTouch \/ (PlayerCommand /\ IsStopped(stepMode))
             /\ IsStopped(playmode')
MatchEnds == <>[][~ QuickStop]_vars => <>(~ alive)

\* Help text of penalty_shoot_outs (serverparam.cpp:873): "To have the game go
\* straight into penalty shoot outs, set this to true and nr_normal_halfs and
\* nr_extra_halfs to 0".
StraightIntoShootOut == <>InShootOut
=============================================================================
