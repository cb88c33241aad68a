------------------------- MODULE MatchClockProofs --------------------------
(***************************************************************************)
(* Proofs about MatchClock, for every length of the halves, every number   *)
(* of halves, every competition rule and every bound.                      *)
(***************************************************************************)
EXTENDS MatchClock, TLAPS

------------------------------------------------------------------------------
(* Facts about play modes and half starts.                                  *)

\* The product of two lengths is a length (half_time * nr_normal_halfs ...).
LEMMA ProductNat == ASSUME NEW a \in Nat, NEW b \in Nat PROVE a * b \in Nat
  OBVIOUS

\* Normal time, maximum time and the start of every half are clock values.
LEMMA LengthsNat ==
    /\ Normal \in Nat /\ Maximum \in Nat /\ Normal <= Maximum
    /\ \A c \in Nat : HalfStart(c) \in Nat
    /\ \A c \in Nat : c >= NrNormalHalfs => HalfStart(c) >= Normal
    /\ \A c \in Nat : c + 1 = NrNormalHalfs => Normal = HalfTime * (c + 1)
<1> USE ClockAssumption
<1>1. /\ HalfTime \in Nat /\ NrNormalHalfs \in Nat
      /\ ExtraHalfTime \in Nat /\ NrExtraHalfs \in Nat
  OBVIOUS
<1>2. Normal \in Nat
  BY <1>1, ProductNat DEF Normal
<1>3. Maximum \in Nat /\ Normal <= Maximum
  <2>1. ExtraHalfTime * NrExtraHalfs \in Nat
    BY <1>1, ProductNat
  <2> QED  BY <1>2, <2>1 DEF Maximum
<1>4. ASSUME NEW c \in Nat
      PROVE  HalfStart(c) \in Nat /\ (c >= NrNormalHalfs => HalfStart(c) >= Normal)
  <2>1. CASE c < NrNormalHalfs
    BY <1>1, <2>1, ProductNat DEF HalfStart
  <2>2. CASE c >= NrNormalHalfs
    <3>1. c - NrNormalHalfs \in Nat
      BY <1>1, <2>2
    <3>2. ExtraHalfTime * (c - NrNormalHalfs) \in Nat
      BY <1>1, <3>1, ProductNat
    <3> QED  BY <1>1, <1>2, <2>2, <3>2 DEF HalfStart
  <2> QED  BY <1>1, <2>1, <2>2
<1>5. ASSUME NEW c \in Nat, c + 1 = NrNormalHalfs
      PROVE  Normal = HalfTime * (c + 1)
  BY <1>5 DEF Normal
<1> QED  BY <1>2, <1>3, <1>4, <1>5

\* Every mode the model assigns is a play mode.
LEMMA ModeTypes ==
    /\ {BeforeKickOff, TimeOver, PlayOn, Drop_Ball} \subseteq PlayMode
    /\ \A k \in SidedKinds, s \in Sides : PM(k, s) \in PlayMode
    /\ \A s \in Sides : Opp(s) \in Sides /\ Opp(s) # s
  BY DEF BeforeKickOff, TimeOver, PlayOn, Drop_Ball, PM, PlayMode, NeutralKinds,
         Opp, Sides, Left, Right, Neutral

\* The classes of modes exclude each other.
LEMMA ModeClasses ==
    ASSUME NEW pm \in PlayMode
    PROVE  /\ IsStopped(pm) => ~ IsLive(pm) /\ ~ isPenaltyShootOut(pm)
           /\ IsLive(pm) => ~ isPenaltyShootOut(pm)
           /\ pm \in {BeforeKickOff, TimeOver} =>
                ~ IsStopped(pm) /\ ~ IsLive(pm) /\ ~ isPenaltyShootOut(pm)
           /\ IsStopped(pm) \/ IsLive(pm) \/ isPenaltyShootOut(pm)
                \/ pm \in {BeforeKickOff, TimeOver}
           /\ BeforeKickOff # TimeOver
  BY DEF IsStopped, IsLive, isPenaltyShootOut, BeforeKickOff, TimeOver, PM,
         PlayMode, NeutralKinds, SidedKinds, FaultKinds, RestartKinds,
         FreeKickKinds, PenaltyKinds

\* The side that gets the ball is a side, or neither.
LEMMA KickOffSideType ==
    ASSUME NEW pm \in PlayMode, NEW s \in Sides \cup {Neutral}
    PROVE  KickOffSideAfter(pm, s) \in Sides \cup {Neutral}
  BY DEF KickOffSideAfter, PlayMode, SidedKinds, NeutralKinds, Opp, Sides, Left,
         Right, Neutral, Drop_Ball, PM

\* What the field referees call is neither an end, nor a half time, nor a
\* penalty; the same goes for the restart after a stop.
LEMMA FieldModes ==
    /\ \A pm \in FieldCalls \cup {PlayOn} :
         /\ pm \in PlayMode /\ ~ isPenaltyShootOut(pm)
         /\ pm \notin {BeforeKickOff, TimeOver}
    /\ \A s \in Sides, k \in {"KickOff", "FreeKick", "AfterGoal"} :
         /\ PM(k, s) \in PlayMode /\ ~ isPenaltyShootOut(PM(k, s))
         /\ PM(k, s) \notin {BeforeKickOff, TimeOver}
    /\ \A pm \in PlayMode : IsStopped(pm) =>
         \A new \in RestartsAfter(pm) :
           /\ new \in PlayMode /\ new.side \in Sides
           /\ ~ isPenaltyShootOut(new)
           /\ new \notin {BeforeKickOff, TimeOver}
<1> USE DEF isPenaltyShootOut, BeforeKickOff, TimeOver, PlayOn, PM, PlayMode,
            NeutralKinds, SidedKinds, FaultKinds, RestartKinds, FreeKickKinds,
            PenaltyKinds
<1>1. ASSUME NEW pm \in FieldCalls
      PROVE  /\ pm \in PlayMode /\ ~ isPenaltyShootOut(pm)
             /\ pm \notin {BeforeKickOff, TimeOver}
  <2>1. PICK k \in {"FreeKick", "KickIn", "CornerKick", "GoalKick"}
                       \cup (FaultKinds \ {"Foul_Push"}), s \in Sides :
             pm = PM(k, s)
    BY <1>1, SMT DEF FieldCalls
  <2> QED  BY <2>1
<1>2. /\ PlayOn \in PlayMode /\ ~ isPenaltyShootOut(PlayOn)
      /\ PlayOn \notin {BeforeKickOff, TimeOver}
  OBVIOUS
<1>3. ASSUME NEW s \in Sides, NEW k \in {"KickOff", "FreeKick", "AfterGoal"}
      PROVE  /\ PM(k, s) \in PlayMode /\ ~ isPenaltyShootOut(PM(k, s))
             /\ PM(k, s) \notin {BeforeKickOff, TimeOver}
  OBVIOUS
<1>4. ASSUME NEW pm \in PlayMode, IsStopped(pm), NEW new \in RestartsAfter(pm)
      PROVE  /\ new \in PlayMode /\ new.side \in Sides
             /\ ~ isPenaltyShootOut(new)
             /\ new \notin {BeforeKickOff, TimeOver}
  <2>1. pm.side \in Sides
    BY <1>4 DEF IsStopped
  <2>2. Opp(pm.side) \in Sides
    BY <2>1, ModeTypes
  <2>3. PICK k \in {"KickOff", "FreeKick", "IndFreeKick"} :
             new = PM(k, Opp(pm.side))
    BY <1>4, Zenon DEF RestartsAfter
  <2> QED  BY <2>2, <2>3
<1> QED  BY <1>1, <1>2, <1>3, <1>4, Zenon

\* changePlayMode sets the mode and keeps the types.
LEMMA ChangeMode ==
    ASSUME TypeOK, NEW pm \in PlayMode, changePlayMode(pm)
    PROVE  /\ playmode' = pm /\ playmode' \in PlayMode
           /\ kickOffSide' \in Sides \cup {Neutral} /\ after' \in Nat
  BY KickOffSideType DEF TypeOK, changePlayMode

\* So does placeBall.
LEMMA PlaceBall ==
    ASSUME TypeOK, NEW pm \in PlayMode, NEW s \in Sides \cup {Neutral},
           placeBall(pm, s)
    PROVE  /\ playmode' = pm /\ playmode' \in PlayMode
           /\ kickOffSide' \in Sides \cup {Neutral} /\ after' \in Nat
  BY KickOffSideType DEF TypeOK, placeBall

\* A call of a field referee sets the mode it calls.
LEMMA FieldCallMode ==
    ASSUME TypeOK, NEW pm \in FieldCalls \cup {PlayOn}, FieldCall(pm)
    PROVE  /\ playmode' = pm /\ playmode' \in PlayMode
           /\ kickOffSide' \in Sides \cup {Neutral} /\ after' \in Nat
           /\ ~ isPenaltyShootOut(playmode')
           /\ playmode' \notin {BeforeKickOff, TimeOver}
<1>1. /\ pm \in PlayMode /\ ~ isPenaltyShootOut(pm)
      /\ pm \notin {BeforeKickOff, TimeOver}
  BY FieldModes, Zenon
<1>2. pm.side \in Sides \cup {Neutral} /\ Opp(pm.side) \in Sides \cup {Neutral}
  BY <1>1 DEF PlayMode, Opp, Sides, Left, Right, Neutral
<1>3. PICK s \in Sides \cup {Neutral} : placeBall(pm, s)
  BY <1>2 DEF FieldCall
<1> QED  BY <1>1, <1>3, PlaceBall

\* Stadium::kickOff does nothing or sets a kick-off.
LEMMA KickOffMode ==
    ASSUME TypeOK, kickOff
    PROVE  /\ playmode' \in PlayMode
           /\ kickOffSide' \in Sides \cup {Neutral} /\ after' \in Nat
           /\ \/ playmode' = playmode
              \/ /\ ~ isPenaltyShootOut(playmode')
                 /\ playmode' \notin {BeforeKickOff, TimeOver}
<1>1. KickOffTeam \in Sides
  BY DEF KickOffTeam, Sides
<1>2. /\ PM("KickOff", KickOffTeam) \in PlayMode
      /\ ~ isPenaltyShootOut(PM("KickOff", KickOffTeam))
      /\ PM("KickOff", KickOffTeam) \notin {BeforeKickOff, TimeOver}
  BY <1>1, FieldModes
<1>3. CASE AtHalfBoundary
  BY <1>1, <1>2, <1>3, PlaceBall DEF kickOff
<1>4. CASE ~ AtHalfBoundary
  BY <1>4 DEF kickOff, TypeOK
<1> QED  BY <1>3, <1>4

\* PenaltyRef moves among the penalty modes or ends the match.
LEMMA ShootOutMode ==
    ASSUME TypeOK, ShootOutMove
    PROVE  /\ playmode' \in PlayMode
           /\ kickOffSide' \in Sides \cup {Neutral} /\ after' \in Nat
           /\ playmode' = TimeOver \/ isPenaltyShootOut(playmode')
<1>1. CASE changePlayMode(TimeOver)
  BY <1>1, ModeTypes, ChangeMode
<1>2. CASE \E k \in PenaltyKinds, s \in Sides : changePlayMode(PM(k, s))
  <2>1. PICK k \in PenaltyKinds, s \in Sides : changePlayMode(PM(k, s))
    BY <1>2
  <2>2. PM(k, s) \in PlayMode /\ isPenaltyShootOut(PM(k, s))
    BY DEF PM, PlayMode, SidedKinds, isPenaltyShootOut
  <2> QED  BY <2>1, <2>2, ChangeMode
<1> QED  BY <1>1, <1>2 DEF ShootOutMove

------------------------------------------------------------------------------
(* Types.                                                                   *)

\* Every step of the server keeps the variables in their types.
LEMMA TypeStep == TypeOK /\ [Next]_vars => TypeOK'
<1> SUFFICES ASSUME TypeOK, [Next]_vars PROVE TypeOK'
  OBVIOUS
<1> USE DEF TypeOK, matchVars, waitVars, teamVars
<1>1. CASE StepBegin
  BY <1>1 DEF StepBegin
<1>2. CASE TimeUp
  BY <1>2, ModeTypes, ChangeMode DEF TimeUp
<1>3. CASE HalfTimeUp
  <2>1. HalfStart(halfTimeCount + 1) \in Nat
    BY LengthsNat
  <2>2. HalfTimeSide(halfTimeCount + 1) \in Sides
    BY DEF HalfTimeSide, Sides
  <2> QED  BY <1>3, <2>1, <2>2, ModeTypes, PlaceBall DEF HalfTimeUp, callHalfTime
<1>4. CASE TimeGoesOn
  BY <1>4 DEF TimeGoesOn
<1>5. CASE FieldWait
  <2>1. CASE after + 1 > WaitOf(playmode)
    <3>1. PICK pm \in RestartsAfter(playmode) : placeBall(pm, pm.side)
      BY <1>5, <2>1 DEF FieldWait
    <3>2. pm \in PlayMode /\ pm.side \in Sides
      BY <1>5, FieldModes DEF FieldWait
    <3> QED  BY <1>5, <3>1, <3>2, PlaceBall DEF FieldWait
  <2>2. CASE ~ (after + 1 > WaitOf(playmode))
    BY <1>5, <2>2 DEF FieldWait
  <2> QED  BY <2>1, <2>2
<1>6. ASSUME NEW s \in Sides, FieldGoal(s) PROVE TypeOK'
  <2>1. Opp(s) \in Sides /\ TimeOver \in PlayMode /\ PM("AfterGoal", s) \in PlayMode
    BY ModeTypes, FieldModes
  <2>2. PICK pm \in PlayMode : placeBall(pm, Opp(s))
    BY <1>6, <2>1 DEF FieldGoal
  <2>3. point' \in [Sides -> Nat]
    BY <1>6 DEF FieldGoal
  <2> QED  BY <1>6, <2>1, <2>2, <2>3, PlaceBall DEF FieldGoal
<1>7. CASE FieldCalled
  <2>1. /\ playmode' \in PlayMode /\ kickOffSide' \in Sides \cup {Neutral}
        /\ after' \in Nat
    BY <1>7, FieldCallMode, ModeTypes, ChangeMode DEF FieldCalled
  <2> QED  BY <1>7, <2>1 DEF FieldCalled
<1>8. CASE FieldQuiet
  BY <1>8 DEF FieldQuiet
<1>9. CASE ShootOutStarts
  <2>1. PICK s \in Sides : changePlayMode(PM("PenaltySetup", s))
    BY <1>9 DEF ShootOutStarts
  <2>2. PM("PenaltySetup", s) \in PlayMode
    BY DEF PM, PlayMode, SidedKinds, PenaltyKinds
  <2> QED  BY <1>9, <2>1, <2>2, ChangeMode DEF ShootOutStarts
<1>10. CASE ShootOutGoesOn
  BY <1>10, ShootOutMode DEF ShootOutGoesOn
<1>11. CASE NoShootOut
  BY <1>11 DEF NoShootOut
<1>12. CASE StepEnd
  BY <1>12 DEF StepEnd
<1>13. CASE AutoModeOff
  BY <1>13 DEF AutoModeOff
<1>14. CASE AutoKickOff
  <2>1. /\ playmode' \in PlayMode /\ kickOffSide' \in Sides \cup {Neutral}
        /\ after' \in Nat
    BY <1>14, KickOffMode DEF AutoKickOff
  <2>2. kickOffWait' \in 0..KickOffWait /\ connectWait' \in 0..ConnectWait
    BY <1>14, ClockAssumption DEF AutoKickOff
  <2> QED  BY <1>14, <2>1, <2>2, ClockAssumption DEF AutoKickOff
<1>15. CASE AutoNothing
  BY <1>15, ClockAssumption DEF AutoNothing
<1>16. CASE AutoGameOver
  BY <1>16, ClockAssumption DEF AutoGameOver
<1>17. ASSUME NEW s \in Sides, TeamConnects(s) PROVE TypeOK'
  BY <1>17 DEF TeamConnects
<1>18. ASSUME NEW s \in Sides, DispFoul(s) PROVE TypeOK'
  BY <1>18, FieldModes, PlaceBall DEF DispFoul
<1>19. CASE SquadsChange
  BY <1>19 DEF SquadsChange
<1>20. CASE PlayerCommand
  <2>1. /\ playmode' \in PlayMode /\ kickOffSide' \in Sides \cup {Neutral}
        /\ after' \in Nat
    BY <1>20, FieldCallMode, ModeTypes, ChangeMode, ShootOutMode
    DEF PlayerCommand
  <2> QED  BY <1>20, <2>1 DEF PlayerCommand
<1>21. CASE DispStart
  BY <1>21, KickOffMode DEF DispStart
<1>22. CASE DispDropBall
  BY <1>22, ModeTypes DEF DispDropBall
<1>23. CASE StepTouch \/ FieldTouch
  <2>1. PICK pm \in FieldCalls : FieldCall(pm)
    BY <1>23 DEF StepTouch, FieldTouch
  <2>2. /\ playmode' \in PlayMode /\ kickOffSide' \in Sides \cup {Neutral}
        /\ after' \in Nat
    BY <2>1, FieldCallMode
  <2> QED  BY <1>23, <2>2 DEF StepTouch, FieldTouch
<1>24. CASE Exited \/ UNCHANGED vars
  BY <1>24 DEF Exited, vars
<1> QED
  BY <1>1, <1>2, <1>3, <1>4, <1>5, <1>6, <1>7, <1>8, <1>9, <1>10, <1>11,
     <1>12, <1>13, <1>14, <1>15, <1>16, <1>17, <1>18, <1>19, <1>20, <1>21,
     <1>22, <1>23, <1>24
  DEF Next, Cycle

\* The server starts in the types.
LEMMA TypeInit == Init => TypeOK
<1> SUFFICES ASSUME Init PROVE TypeOK
  OBVIOUS
<1>1. /\ enabled \in [Sides -> BOOLEAN] /\ full \in BOOLEAN
      /\ shootOut \in BOOLEAN /\ alive \in BOOLEAN
  BY Zenon DEF Init
<1>2. /\ KickOffWait \in 0..KickOffWait /\ ConnectWait \in 0..ConnectWait
      /\ GameOverWait \in 0..GameOverWait
  BY ClockAssumption
<1>3. point \in [Sides -> Nat] /\ kickOffSide \in Sides
  BY DEF Init, Sides
<1> QED  BY <1>1, <1>2, <1>3, ModeTypes DEF Init, TypeOK

\* The variables of the match clock always have their types: in particular the
\* clock is never negative and the waits of the auto mode never run below zero.
THEOREM TypeCorrect == Spec => []TypeOK
BY TypeInit, TypeStep, PTL DEF Spec

------------------------------------------------------------------------------
(* The clock, the halves and the shoot-out.                                 *)

\* Where the cycle stands: a step that began in a stop shows TimeRef a stop, and
\* does not reach a half time.
PhaseInv ==
    /\ pc = "time" => /\ playmode # TimeOver
                      /\ IsStopped(stepMode) => IsStopped(playmode)
    /\ pc \in {"field", "penalty", "end"} /\ IsStopped(stepMode)
         => playmode # BeforeKickOff

ClockRest == PhaseInv /\ ClockFollowsHalves /\ ShootOutOnlyWhenDrawn
ClockInv  == TypeOK /\ ClockRest

\* Every step keeps the clock, the count of halves and the shoot-out together.
LEMMA ClockStep == ClockInv /\ [Next]_vars => ClockInv'
<1> SUFFICES ASSUME TypeOK, TypeOK', ClockRest, [Next]_vars PROVE ClockRest'
  BY TypeStep DEF ClockInv
<1> USE DEF PhaseInv, ClockFollowsHalves, ShootOutOnlyWhenDrawn, InShootOut, Drawn
<1>a. ClockRest
  OBVIOUS
<1>b. playmode \in PlayMode /\ stepMode \in PlayMode /\ time \in Nat
      /\ halfTimeCount \in Nat /\ HalfStart(halfTimeCount) \in Nat
      /\ Maximum \in Nat
  BY LengthsNat DEF TypeOK
\* A step between two calls that touches neither the clock nor the score and
\* sets no half time and no shoot-out.
<1>c. ASSUME UNCHANGED <<time, halfTimeCount, point, shootOut, stepMode>>,
             pc' # "time",
             \/ playmode' = playmode
             \/ playmode' # BeforeKickOff /\ ~ isPenaltyShootOut(playmode'),
             pc' \in {"recv", "auto"} \/ pc \in {"field", "penalty", "end"}
      PROVE  ClockRest'
  BY <1>a, <1>b, <1>c DEF ClockRest
<1>1. CASE StepBegin
  BY <1>1, <1>a, <1>b, ModeClasses
  DEF ClockRest, StepBegin, ClockRuns
<1>2. CASE TimeUp
  <2>1. playmode' = TimeOver
    BY <1>2, ModeTypes, ChangeMode DEF TimeUp
  <2> QED
    BY <1>2, <1>a, <1>b, <2>1, ModeClasses, ModeTypes
    DEF ClockRest, TimeUp
<1>3. CASE HalfTimeUp
  <2>1. playmode' = BeforeKickOff /\ time' = HalfStart(halfTimeCount + 1)
    BY <1>3 DEF HalfTimeUp, callHalfTime, placeBall
  <2>2. ~ IsStopped(stepMode)
    BY <1>3, <1>a, <1>b, ModeClasses
    DEF ClockRest, HalfTimeUp, HalfIsUp, ClockRuns
  <2> QED
    BY <1>3, <1>b, <2>1, <2>2, ModeClasses, ModeTypes, LengthsNat
    DEF ClockRest, HalfTimeUp
<1>4. CASE TimeGoesOn
  BY <1>4, <1>a, <1>b, ModeClasses, ModeTypes
  DEF ClockRest, TimeGoesOn, matchVars
<1>5. CASE FieldWait
  <2>1. \/ playmode' = playmode
        \/ playmode' # BeforeKickOff /\ ~ isPenaltyShootOut(playmode')
    BY <1>5, <1>b, FieldModes DEF FieldWait, placeBall
  <2> QED  BY <1>5, <2>1, <1>c DEF FieldWait
<1>6. ASSUME NEW s \in Sides, FieldGoal(s) PROVE ClockRest'
  <2>1. playmode' \in {TimeOver, PM("AfterGoal", s)}
    BY <1>6 DEF FieldGoal, placeBall
  <2>2. playmode' # BeforeKickOff /\ ~ isPenaltyShootOut(playmode')
    BY <2>1, FieldModes, ModeTypes, ModeClasses
  <2> QED
    BY <1>6, <1>a, <1>b, <2>2
    DEF ClockRest, FieldGoal
<1>7. CASE FieldCalled
  <2>1. playmode' # BeforeKickOff /\ ~ isPenaltyShootOut(playmode')
    BY <1>7, FieldCallMode, FieldModes, ModeTypes, ChangeMode DEF FieldCalled
  <2> QED  BY <1>7, <2>1, <1>c DEF FieldCalled
<1>8. CASE FieldQuiet
  BY <1>8, <1>c DEF FieldQuiet, matchVars
<1>9. CASE ShootOutStarts
  <2>1. PICK s \in Sides : playmode' = PM("PenaltySetup", s)
    BY <1>9 DEF ShootOutStarts, changePlayMode
  <2>2. playmode' # BeforeKickOff
    BY <2>1 DEF PM, BeforeKickOff
  <2> QED
    BY <1>9, <1>a, <1>b, <2>2
    DEF ClockRest, ShootOutStarts, ShootOutDue
<1>10. CASE ShootOutGoesOn
  <2>1. playmode' # BeforeKickOff
    BY <1>10, ShootOutMode, ModeClasses, ModeTypes DEF ShootOutGoesOn
  <2> QED
    BY <1>10, <1>a, <1>b, <2>1
    DEF ClockRest, ShootOutGoesOn
<1>11. CASE NoShootOut
  BY <1>11, <1>c DEF NoShootOut, matchVars
<1>12. CASE StepEnd
  BY <1>12, <1>a, <1>b
  DEF ClockRest, StepEnd
<1>13. CASE AutoModeOff \/ AutoNothing \/ AutoGameOver
  BY <1>13, <1>c DEF AutoModeOff, AutoNothing, AutoGameOver, matchVars
<1>14. CASE AutoKickOff
  BY <1>14, <1>c, KickOffMode DEF AutoKickOff
<1>15. ASSUME NEW s \in Sides, TeamConnects(s) PROVE ClockRest'
  BY <1>15, <1>c DEF TeamConnects, matchVars
<1>16. ASSUME NEW s \in Sides, DispFoul(s) PROVE ClockRest'
  <2>1. playmode' # BeforeKickOff /\ ~ isPenaltyShootOut(playmode')
    BY <1>16, FieldModes DEF DispFoul, placeBall
  <2> QED  BY <1>16, <2>1, <1>c DEF DispFoul
<1>17. CASE SquadsChange
  BY <1>17, <1>c DEF SquadsChange, matchVars
<1>18. CASE PlayerCommand
  <2>1. CASE InShootOut /\ ShootOutMove
    <3>1. playmode' # BeforeKickOff
      BY <2>1, ShootOutMode, ModeClasses, ModeTypes
    <3> QED
      BY <1>18, <1>a, <1>b, <2>1, <3>1
      DEF ClockRest, PlayerCommand
  <2>2. CASE ~ (InShootOut /\ ShootOutMove)
    <3>1. playmode' # BeforeKickOff /\ ~ isPenaltyShootOut(playmode')
      BY <1>18, <2>2, FieldCallMode, FieldModes, ModeTypes, ChangeMode
      DEF PlayerCommand
    <3> QED  BY <1>18, <3>1, <1>c DEF PlayerCommand
  <2> QED  BY <2>1, <2>2
<1>19. CASE DispStart
  BY <1>19, <1>c, KickOffMode DEF DispStart
<1>20. CASE DispDropBall
  BY <1>20, <1>c, FieldModes DEF DispDropBall
<1>21. CASE FieldTouch
  <2>1. playmode' # BeforeKickOff /\ ~ isPenaltyShootOut(playmode')
    BY <1>21, FieldCallMode DEF FieldTouch
  <2> QED  BY <1>21, <2>1, <1>c DEF FieldTouch
<1>22. CASE StepTouch
  <2>1. PICK pm \in FieldCalls : TouchCalls(pm) /\ FieldCall(pm)
    BY <1>22 DEF StepTouch
  <2>2. /\ playmode' = pm /\ playmode' \notin {BeforeKickOff, TimeOver}
        /\ ~ isPenaltyShootOut(playmode')
    BY <2>1, FieldCallMode
  <2>3. IsStopped(playmode) => IsStopped(pm)
    BY <2>1, <1>b, ModeClasses, ModeTypes DEF TouchCalls, IsStopped, FaultKinds
  <2> QED
    BY <1>22, <1>a, <1>b, <2>2, <2>3 DEF ClockRest, StepTouch
<1>23. CASE Exited \/ UNCHANGED vars
  BY <1>23, <1>a
  DEF ClockRest, Exited, vars, matchVars
<1> QED
  BY <1>1, <1>2, <1>3, <1>4, <1>5, <1>6, <1>7, <1>8, <1>9, <1>10, <1>11,
     <1>12, <1>13, <1>14, <1>15, <1>16, <1>17, <1>18, <1>19, <1>20, <1>21,
     <1>22, <1>23
  DEF Next, Cycle

\* The invariant the theorems below rest on.
LEMMA ClockInvariant == Spec => []ClockInv
<1>1. Init => ClockInv
  <2>1. HalfStart(0) = 0
    BY ClockAssumption DEF HalfStart, Normal
  <2>2. Init => ClockRest
    BY <2>1, ModeTypes, ModeClasses
    DEF Init, ClockRest, PhaseInv, ClockFollowsHalves, ShootOutOnlyWhenDrawn,
        InShootOut
  <2> QED  BY <2>2, TypeInit DEF ClockInv
<1> QED  BY <1>1, ClockStep, PTL DEF Spec

\* The clock of Stadium and TimeRef's count of halves never drift apart, for
\* every number and length of halves, with an operator or without.
THEOREM ClockFollowsHalvesHolds == Spec => []ClockFollowsHalves
<1>1. ClockInv => ClockFollowsHalves
  BY DEF ClockInv, ClockRest
<1> QED  BY <1>1, ClockInvariant, PTL

\* A shoot-out is only ever held at full time and on a level score.
THEOREM ShootOutOnlyWhenDrawnHolds == Spec => []ShootOutOnlyWhenDrawn
<1>1. ClockInv => ShootOutOnlyWhenDrawn
  BY DEF ClockInv, ClockRest
<1> QED  BY <1>1, ClockInvariant, PTL

------------------------------------------------------------------------------
(* The end of the match.                                                    *)

\* When the field referees run in overtime with golden_goal, TimeRef has just
\* seen a level score.
LevelBeforeGoal ==
    pc = "field" /\ IsLive(playmode) /\ time >= Normal /\ GoldenGoal => Drawn

\* A match of two teams that ends before PenaltyRef runs leaves it no reason
\* for a shoot-out.
NoShootOutAfterEnd ==
    pc \in {"field", "penalty"} /\ playmode = TimeOver /\ BothEnabled
        => ~ PenaltyShootOuts \/ ~ Drawn \/ time < Maximum

\* Left to itself the server plays no extra half with golden_goal and a leader.
GoldenLevel ==
    ~ Operator /\ GoldenGoal /\ halfTimeCount >= NrNormalHalfs
        => Drawn \/ playmode = TimeOver

EndInv == LevelBeforeGoal /\ NoShootOutAfterEnd /\ GoldenLevel

\* Every step keeps the three facts.
LEMMA EndStep == ClockInv /\ EndInv /\ [Next]_vars => EndInv'
<1> SUFFICES ASSUME ClockInv, EndInv, [Next]_vars PROVE EndInv'
  OBVIOUS
<1> USE DEF LevelBeforeGoal, NoShootOutAfterEnd, GoldenLevel, Drawn, BothEnabled
<1>a. EndInv /\ TypeOK
  BY DEF ClockInv
<1>b. /\ playmode \in PlayMode /\ time \in Nat /\ halfTimeCount \in Nat
      /\ Normal \in Nat /\ Maximum \in Nat /\ Normal <= Maximum
      /\ NrNormalHalfs \in Nat
  <2>1. NrNormalHalfs \in Nat
    BY ClockAssumption
  <2> QED  BY <1>a, <2>1, LengthsNat DEF TypeOK
\* A step outside the referees, or one they take without a goal, that does not
\* leave TimeOver.
<1>c. ASSUME UNCHANGED <<halfTimeCount, point>>,
             \/ pc' \notin {"field", "penalty"}
             \/ pc = "field" /\ pc' = "penalty" /\ UNCHANGED <<time, enabled>>,
             playmode' = TimeOver => playmode = TimeOver \/ pc' # "penalty",
             playmode = TimeOver =>
                playmode' = TimeOver \/ Operator \/ Drawn
      PROVE  EndInv'
  BY <1>a, <1>b, <1>c DEF EndInv
<1>1. CASE StepBegin
  BY <1>1, <1>c DEF StepBegin
<1>2. CASE TimeUp
  <2>1. playmode' = TimeOver
    BY <1>2 DEF TimeUp, changePlayMode
  <2> QED
    BY <1>2, <1>a, <1>b, <2>1, ModeClasses, ModeTypes
    DEF EndInv, TimeUp, TimeIsUp, teamVars
<1>3. CASE HalfTimeUp
  <2>1. playmode' = BeforeKickOff
    BY <1>3 DEF HalfTimeUp, callHalfTime, placeBall
  <2>2. BeforeKickOff # TimeOver /\ ~ IsLive(BeforeKickOff) /\ playmode # TimeOver
    BY <1>3, <1>b, ModeClasses, ModeTypes
    DEF HalfTimeUp, HalfIsUp, ClockRuns, InShootOut
  <2>3. ASSUME GoldenGoal, halfTimeCount + 1 = NrNormalHalfs PROVE Drawn
    <3>1. Normal = HalfTime * (halfTimeCount + 1)
      BY <1>b, <2>3, LengthsNat
    <3> QED
      BY <1>3, <1>b, <2>3, <3>1 DEF HalfTimeUp, HalfIsUp, TimeIsUp
  <2> QED  BY <1>3, <1>a, <1>b, <2>1, <2>2, <2>3 DEF EndInv, HalfTimeUp
<1>4. CASE TimeGoesOn
  <2>1. playmode # TimeOver
    BY <1>4 DEF TimeGoesOn, ClockInv, ClockRest, PhaseInv
  <2>2. ASSUME IsLive(playmode), time >= Normal, GoldenGoal PROVE Drawn
    BY <1>4, <1>b, <2>2 DEF TimeGoesOn, TimeIsUp, ClockRuns
  <2> QED  BY <1>4, <1>a, <1>b, <2>1, <2>2 DEF EndInv, TimeGoesOn, matchVars
<1>5. CASE FieldWait
  <2>1. playmode # TimeOver /\ playmode' # TimeOver
    BY <1>5, <1>b, FieldModes, ModeClasses, ModeTypes DEF FieldWait, placeBall
  <2> QED  BY <1>5, <2>1, <1>c DEF FieldWait, teamVars
<1>6. ASSUME NEW s \in Sides, FieldGoal(s) PROVE EndInv'
  <2>1. GoldenGoal /\ time >= Normal => Drawn /\ playmode' = TimeOver
    BY <1>6, <1>a DEF EndInv, FieldGoal, placeBall
  <2>2. ASSUME ~ (GoldenGoal /\ time >= Normal)
        PROVE  playmode' = PM("AfterGoal", s) /\ playmode' # TimeOver
    BY <1>6, <2>2, FieldModes DEF FieldGoal, placeBall
  <2>3. halfTimeCount >= NrNormalHalfs => time >= Normal
    BY <1>b, LengthsNat DEF ClockInv, ClockRest, ClockFollowsHalves
  <2>4. ASSUME Drawn, BothEnabled PROVE point'[Left] # point'[Right]
    <3>1. point' = [point EXCEPT ![s] = @ + 1]
      BY <1>6, <2>4 DEF FieldGoal, Sides
    <3> QED  BY <1>a, <2>4, <3>1 DEF TypeOK, Sides, Left, Right
  <2> QED
    BY <1>6, <1>b, <2>1, <2>2, <2>3, <2>4 DEF EndInv, FieldGoal, teamVars
<1>7. CASE FieldCalled
  <2>1. playmode # TimeOver /\ playmode' # TimeOver
    BY <1>7, <1>a, <1>b, FieldCallMode, FieldModes, ChangeMode, ModeClasses,
       ModeTypes
    DEF FieldCalled
  <2> QED  BY <1>7, <2>1, <1>c DEF FieldCalled, teamVars
<1>8. CASE FieldQuiet
  BY <1>8, <1>c DEF FieldQuiet, matchVars, teamVars
<1>9. CASE ShootOutStarts
  BY <1>9, <1>c DEF ShootOutStarts, ShootOutDue
<1>10. CASE ShootOutGoesOn
  <2>1. playmode # TimeOver
    BY <1>10, <1>b, ModeClasses, ModeTypes DEF ShootOutGoesOn, InShootOut
  <2> QED  BY <1>10, <2>1, <1>c DEF ShootOutGoesOn
<1>11. CASE NoShootOut
  BY <1>11, <1>c DEF NoShootOut, matchVars
<1>12. CASE StepEnd
  BY <1>12, <1>c DEF StepEnd
<1>13. CASE AutoModeOff \/ AutoNothing \/ AutoGameOver
  BY <1>13, <1>c DEF AutoModeOff, AutoNothing, AutoGameOver, matchVars
<1>14. CASE AutoKickOff
  BY <1>14, <1>b, <1>c, ModeClasses DEF AutoKickOff
<1>15. ASSUME NEW s \in Sides, TeamConnects(s) PROVE EndInv'
  BY <1>15, <1>c DEF TeamConnects, matchVars
<1>16. ASSUME NEW s \in Sides, DispFoul(s) PROVE EndInv'
  BY <1>16, <1>c DEF DispFoul
<1>17. CASE SquadsChange
  BY <1>17, <1>c DEF SquadsChange, matchVars
<1>18. CASE PlayerCommand
  <2>1. playmode # TimeOver
    <3>1. TimeOver.kind \notin {"CatchFault", "Free_Kick_Fault"}
      BY DEF TimeOver, PM
    <3> QED
      BY <1>18, <1>b, <3>1, ModeClasses, ModeTypes
      DEF PlayerCommand, CausesCall, TouchCalls, InShootOut
  <2> QED  BY <1>18, <2>1, <1>c DEF PlayerCommand
<1>19. CASE DispStart
  BY <1>19, <1>c DEF DispStart
<1>20. CASE DispDropBall
  BY <1>20, <1>c DEF DispDropBall
<1>21. CASE StepTouch \/ FieldTouch
  <2>1. PICK pm \in FieldCalls : TouchCalls(pm) /\ FieldCall(pm)
    BY <1>21 DEF StepTouch, FieldTouch
  <2>2. playmode' # TimeOver
    BY <1>a, <2>1, FieldCallMode
  <2>3. playmode # TimeOver
    <3>1. TimeOver.kind # "Free_Kick_Fault"
      BY DEF TimeOver, PM
    <3> QED  BY <1>b, <2>1, <3>1, ModeClasses, ModeTypes DEF TouchCalls
  <2> QED  BY <1>21, <2>2, <2>3, <1>c DEF StepTouch, FieldTouch, teamVars
<1>22. CASE Exited \/ UNCHANGED vars
  BY <1>22, <1>a DEF EndInv, Exited, vars, matchVars, teamVars
<1> QED
  BY <1>1, <1>2, <1>3, <1>4, <1>5, <1>6, <1>7, <1>8, <1>9, <1>10, <1>11,
     <1>12, <1>13, <1>14, <1>15, <1>16, <1>17, <1>18, <1>19, <1>20, <1>21,
     <1>22
  DEF Next, Cycle

\* Both invariants hold of the server.
LEMMA EndInvariant == Spec => [](ClockInv /\ EndInv)
<1>1. Init => EndInv
  BY ModeTypes, ModeClasses
  DEF Init, EndInv, LevelBeforeGoal, NoShootOutAfterEnd, GoldenLevel, Drawn, Sides
<1> QED  BY <1>1, ClockInvariant, EndStep, PTL DEF Spec

\* The match of a server without an operator stops at a golden goal.
THEOREM GoldenGoalEndsMatchHolds ==
    ASSUME ~ Operator
    PROVE  Spec => []GoldenGoalEndsMatch
<1>1. ClockInv /\ EndInv => GoldenGoalEndsMatch
  BY ModeClasses, ModeTypes
  DEF EndInv, ClockInv, TypeOK, GoldenLevel, GoldenGoalEndsMatch
<1> QED  BY <1>1, EndInvariant, PTL

\* No match ends without a reason, whoever operates the server.
THEOREM EndIsJustifiedHolds == Spec => EndIsJustified
<1> DEFINE Justified ==
      playmode # TimeOver /\ playmode' = TimeOver =>
         /\ time >= Normal
         /\ \/ point'[Left] # point'[Right]
            \/ InShootOut
            \/ time >= Maximum /\ ~ PenaltyShootOuts
            \/ ~ BothEnabled
<1>1. ClockInv /\ EndInv /\ [Next]_vars => [Justified]_vars
  <2> SUFFICES ASSUME ClockInv, EndInv, Next,
                      playmode # TimeOver, playmode' = TimeOver
               PROVE  Justified
    BY DEF vars, matchVars
  <2>a. /\ TypeOK /\ playmode \in PlayMode /\ time \in Nat
        /\ Normal \in Nat /\ Maximum \in Nat /\ Normal <= Maximum
    BY LengthsNat DEF ClockInv, TypeOK
  <2>1. CASE TimeUp
    BY <2>1, <2>a DEF TimeUp, TimeIsUp, Drawn
  <2>2. ASSUME NEW s \in Sides, FieldGoal(s) PROVE Justified
    <3>1. GoldenGoal /\ time >= Normal
      BY <2>2, FieldModes DEF FieldGoal, placeBall
    <3>2. Drawn
      BY <2>2, <3>1 DEF EndInv, LevelBeforeGoal, FieldGoal
    <3>3. ASSUME BothEnabled PROVE point'[Left] # point'[Right]
      <4>1. point' = [point EXCEPT ![s] = @ + 1]
        BY <2>2, <3>3 DEF FieldGoal, BothEnabled, Sides
      <4> QED  BY <2>a, <3>2, <4>1 DEF TypeOK, Sides, Left, Right, Drawn
    <3> QED  BY <3>1, <3>3
  <2>3. CASE ShootOutGoesOn \/ (PlayerCommand /\ InShootOut)
    BY <2>3, <2>a
    DEF ShootOutGoesOn, ClockInv, ClockRest, ShootOutOnlyWhenDrawn
  <2>4. CASE FieldWait \/ FieldCalled \/ HalfTimeUp \/ ShootOutStarts
    <3>1. ~ FieldWait
      BY <2>a, FieldModes DEF FieldWait, placeBall
    <3>2. ~ FieldCalled
      BY <2>a, FieldCallMode, FieldModes, ChangeMode DEF FieldCalled
    <3>3. ~ HalfTimeUp
      BY <2>a, ModeClasses DEF HalfTimeUp, callHalfTime, placeBall
    <3>4. ~ ShootOutStarts
      BY DEF ShootOutStarts, changePlayMode, PM, TimeOver
    <3> QED  BY <2>4, <3>1, <3>2, <3>3, <3>4
  <2>5. CASE (PlayerCommand /\ ~ InShootOut) \/ StepTouch \/ FieldTouch
               \/ DispStart \/ DispDropBall \/ AutoKickOff
               \/ \E s \in Sides : DispFoul(s)
    <3>1. ~ (PlayerCommand /\ ~ InShootOut)
      BY <2>a, FieldCallMode, FieldModes, ChangeMode DEF PlayerCommand
    <3>2. ~ DispStart /\ ~ AutoKickOff
      BY <2>a, KickOffMode DEF DispStart, AutoKickOff
    <3>3. ~ DispDropBall
      BY FieldModes DEF DispDropBall
    <3>4. ASSUME NEW s \in Sides, DispFoul(s) PROVE FALSE
      BY <3>4, FieldModes DEF DispFoul, placeBall
    <3>5. ~ StepTouch /\ ~ FieldTouch
      BY <2>a, FieldCallMode DEF StepTouch, FieldTouch
    <3> QED  BY <2>5, <3>1, <3>2, <3>3, <3>4, <3>5
  <2>6. CASE playmode' = playmode
    BY <2>6
  <2> QED
    BY <2>1, <2>2, <2>3, <2>4, <2>5, <2>6
    DEF Next, Cycle, matchVars, vars, StepBegin, TimeGoesOn, FieldQuiet,
        NoShootOut, StepEnd, AutoModeOff, AutoNothing, AutoGameOver,
        TeamConnects, SquadsChange, Exited
<1> QED  BY <1>1, EndInvariant, PTL DEF Spec, EndIsJustified

\* Without an operator the end of a match of two teams is final: in particular
\* PenaltyRef, which runs after TimeRef and the goal in the same cycle, does not
\* open a shoot-out on a match that is already over.
THEOREM TimeOverIsFinalHolds ==
    ASSUME ~ Operator
    PROVE  Spec => TimeOverIsFinal
<1> DEFINE Final == playmode = TimeOver /\ BothEnabled => playmode' = TimeOver
<1>1. ClockInv /\ EndInv /\ [Next]_vars => [Final]_vars
  <2> SUFFICES ASSUME ClockInv, EndInv, Next, playmode = TimeOver, BothEnabled
               PROVE  playmode' = TimeOver
    BY DEF vars, matchVars
  <2>1. /\ ~ IsStopped(playmode) /\ ~ IsLive(playmode) /\ ~ InShootOut
        /\ playmode # BeforeKickOff
        /\ playmode.kind \notin {"CatchFault", "Free_Kick_Fault"}
    BY ModeClasses, ModeTypes DEF InShootOut, TimeOver, PM
  <2>2. ~ ShootOutStarts
    BY LengthsNat
    DEF EndInv, NoShootOutAfterEnd, ShootOutStarts, ShootOutDue, TypeOK, ClockInv
  <2>3. ~ HalfTimeUp
    BY <2>1 DEF HalfTimeUp, HalfIsUp, ClockRuns
  <2>4. ~ PlayerCommand /\ ~ StepTouch /\ ~ FieldTouch
    BY <2>1 DEF PlayerCommand, CausesCall, StepTouch, FieldTouch, TouchCalls
  <2> QED
    BY <2>1, <2>2, <2>3, <2>4
    DEF Next, Cycle, matchVars, vars, StepBegin, TimeUp, TimeGoesOn, TimeIsUp,
        ClockRuns, FieldWait, FieldGoal, FieldCalled, FieldQuiet,
        ShootOutGoesOn, NoShootOut, StepEnd, AutoModeOff, AutoKickOff,
        AutoNothing, AutoGameOver, TeamConnects, DispFoul, SquadsChange,
        DispStart, DispDropBall, Exited
<1> QED  BY <1>1, EndInvariant, PTL DEF Spec, TimeOverIsFinal


------------------------------------------------------------------------------
(* The side that kicks off.                                                 *)

\* A stretch of n halves of length a begins at a multiple of a, n of them in.
LEMMA Multiples ==
    ASSUME NEW a \in Nat \ {0}, NEW n \in Nat
    PROVE  (a * n) % a = 0 /\ (a * n) \div a = n
  OBVIOUS

\* More halves take longer.
LEMMA ProductMonotone ==
    ASSUME NEW a \in Nat, NEW m \in Nat, NEW n \in Nat, m <= n
    PROVE  a * m <= a * n
<1>1. PICK d \in Nat : n = m + d
  BY n - m \in Nat, n = m + (n - m)
<1>2. a * n = a * m + a * d
  BY <1>1
<1>3. a * m \in Nat /\ a * d \in Nat
  BY ProductNat
<1> QED  BY <1>2, <1>3

\* The side announced with a half time is the side of that half's number; and
\* extra halves of no length are never counted.
SideInv ==
    /\ playmode = BeforeKickOff => kickOffSide = HalfTimeSide(halfTimeCount)
    /\ ExtraHalfTime = 0 => halfTimeCount <= NrNormalHalfs

\* TimeRef announces a half together with its side, and nobody else sets
\* BeforeKickOff or moves the ball to a side during it.
LEMMA SideStep == ClockInv /\ SideInv /\ [Next]_vars => SideInv'
<1> SUFFICES ASSUME TypeOK, ClockInv, SideInv, [Next]_vars PROVE SideInv'
  BY DEF ClockInv
<1>b. playmode \in PlayMode /\ time \in Nat /\ halfTimeCount \in Nat
  BY DEF TypeOK
\* A step that sets no half time.
<1>c. ASSUME halfTimeCount' = halfTimeCount,
             \/ UNCHANGED <<playmode, kickOffSide>>
             \/ playmode' # BeforeKickOff
      PROVE  SideInv'
  BY <1>c DEF SideInv
<1>k. ASSUME kickOff
      PROVE  UNCHANGED <<playmode, kickOffSide>> \/ playmode' # BeforeKickOff
  <2>1. KickOffTeam \in Sides
    BY DEF KickOffTeam, Sides
  <2> QED  BY <1>k, <2>1, FieldModes DEF kickOff, placeBall
<1>1. CASE StepBegin
  BY <1>1, <1>c DEF StepBegin
<1>2. CASE TimeUp
  BY <1>2, <1>c, ModeTypes, ModeClasses DEF TimeUp, changePlayMode
<1>3. CASE HalfTimeUp
  <2>1. kickOffSide' = HalfTimeSide(halfTimeCount')
    BY <1>3
    DEF HalfTimeUp, callHalfTime, placeBall, KickOffSideAfter, RestartKinds,
        FreeKickKinds, BeforeKickOff, Drop_Ball, PM
  <2>2. ASSUME ExtraHalfTime = 0 PROVE halfTimeCount + 1 <= NrNormalHalfs
    <3>1. /\ HalfTime \in Nat /\ NrNormalHalfs \in Nat /\ NrExtraHalfs \in Nat
          /\ Normal \in Nat
      BY ClockAssumption, LengthsNat
    <3>2. Maximum = Normal
      BY <2>2, <3>1 DEF Maximum
    <3>3. HalfTime * (halfTimeCount + 1) < Normal
      <4>1. time < Normal
        BY <1>3, <3>2 DEF HalfTimeUp, HalfIsUp
      <4>2. HalfTime * (halfTimeCount + 1) <= time
        BY <1>3, <4>1, <1>b, <3>1 DEF HalfTimeUp, HalfIsUp
      <4> DEFINE start == HalfTime * (halfTimeCount + 1)
      <4>3. start \in Nat
        BY <1>b, <3>1, ProductNat
      <4> HIDE DEF start
      <4>4. start <= time
        BY <4>2 DEF start
      <4>5. start < Normal
        BY <4>1, <4>3, <4>4, <1>b, <3>1
      <4> QED  BY <4>5 DEF start
    <3>4. SUFFICES ASSUME NrNormalHalfs <= halfTimeCount + 1 PROVE FALSE
      BY <1>b, <3>1
    <3>5. Normal <= HalfTime * (halfTimeCount + 1)
      BY <3>1, <3>4, <1>b, ProductMonotone DEF Normal
    <3>6. HalfTime * (halfTimeCount + 1) \in Nat
      BY <1>b, <3>1, ProductNat
    <3> QED  BY <3>1, <3>3, <3>5, <3>6
  <2>3. halfTimeCount' = halfTimeCount + 1
    BY <1>3 DEF HalfTimeUp
  <2> QED  BY <2>1, <2>2, <2>3 DEF SideInv
<1>4. CASE TimeGoesOn
  BY <1>4, <1>c DEF TimeGoesOn, matchVars
<1>5. CASE FieldWait
  <2>1. UNCHANGED <<playmode, kickOffSide>> \/ playmode' # BeforeKickOff
    BY <1>5, <1>b, FieldModes DEF FieldWait, placeBall
  <2> QED  BY <1>5, <2>1, <1>c DEF FieldWait
<1>6. ASSUME NEW s \in Sides, FieldGoal(s) PROVE SideInv'
  <2>1. playmode' \in {TimeOver, PM("AfterGoal", s)}
    BY <1>6 DEF FieldGoal, placeBall
  <2>2. playmode' # BeforeKickOff
    BY <2>1, FieldModes, ModeTypes, ModeClasses
  <2> QED  BY <1>6, <2>2, <1>c DEF FieldGoal
<1>7. CASE FieldCalled
  <2>1. playmode' # BeforeKickOff
    BY <1>7, FieldCallMode, FieldModes, ModeTypes, ChangeMode DEF FieldCalled
  <2> QED  BY <1>7, <2>1, <1>c DEF FieldCalled
<1>8. CASE FieldQuiet \/ NoShootOut
  BY <1>8, <1>c DEF FieldQuiet, NoShootOut, matchVars
<1>9. CASE ShootOutStarts
  <2>1. PICK s \in Sides : playmode' = PM("PenaltySetup", s)
    BY <1>9 DEF ShootOutStarts, changePlayMode
  <2>2. playmode' # BeforeKickOff
    BY <2>1 DEF PM, BeforeKickOff
  <2> QED  BY <1>9, <2>2, <1>c DEF ShootOutStarts
<1>10. CASE ShootOutGoesOn
  <2>1. playmode' # BeforeKickOff
    BY <1>10, ShootOutMode, ModeClasses, ModeTypes DEF ShootOutGoesOn
  <2> QED  BY <1>10, <2>1, <1>c DEF ShootOutGoesOn
<1>11. CASE StepEnd
  BY <1>11, <1>c DEF StepEnd
<1>12. CASE AutoModeOff \/ AutoNothing \/ AutoGameOver
  BY <1>12, <1>c DEF AutoModeOff, AutoNothing, AutoGameOver, matchVars
<1>13. CASE AutoKickOff
  <2>1. kickOff \/ UNCHANGED <<playmode, kickOffSide>>
    BY <1>13 DEF AutoKickOff
  <2>2. halfTimeCount' = halfTimeCount
    BY <1>13 DEF AutoKickOff
  <2> QED  BY <2>1, <2>2, <1>c, <1>k
<1>14. ASSUME NEW s \in Sides, TeamConnects(s) PROVE SideInv'
  BY <1>14, <1>c DEF TeamConnects, matchVars
<1>15. ASSUME NEW s \in Sides, DispFoul(s) PROVE SideInv'
  <2>1. playmode' # BeforeKickOff
    BY <1>15, FieldModes DEF DispFoul, placeBall
  <2> QED  BY <1>15, <2>1, <1>c DEF DispFoul
<1>16. CASE SquadsChange
  BY <1>16, <1>c DEF SquadsChange, matchVars
<1>17. CASE PlayerCommand
  <2>1. playmode' # BeforeKickOff
    <3>1. CASE ShootOutMove
      BY <3>1, ShootOutMode, ModeClasses, ModeTypes
    <3>2. CASE ~ ShootOutMove
      BY <1>17, <3>2, FieldCallMode, FieldModes, ModeTypes, ChangeMode
      DEF PlayerCommand
    <3> QED  BY <3>1, <3>2
  <2> QED  BY <1>17, <2>1, <1>c DEF PlayerCommand
<1>18. CASE DispStart
  BY <1>18, <1>c, <1>k DEF DispStart
<1>19. CASE DispDropBall
  <2>1. playmode' # BeforeKickOff
    BY <1>19, <1>b, ModeClasses, FieldModes DEF DispDropBall, InShootOut
  <2> QED  BY <1>19, <2>1, <1>c DEF DispDropBall
<1>20. CASE FieldTouch \/ StepTouch
  <2>1. playmode' # BeforeKickOff
    BY <1>20, FieldCallMode DEF FieldTouch, StepTouch
  <2> QED  BY <1>20, <2>1, <1>c DEF FieldTouch, StepTouch
<1>21. CASE Exited \/ UNCHANGED vars
  BY <1>21, <1>c DEF Exited, vars, matchVars
<1> QED
  BY <1>1, <1>2, <1>3, <1>4, <1>5, <1>6, <1>7, <1>8, <1>9, <1>10, <1>11,
     <1>12, <1>13, <1>14, <1>15, <1>16, <1>17, <1>18, <1>19, <1>20, <1>21
  DEF Next, Cycle

\* With an even number of normal halves, as in the default of two, Stadium::kickOff
\* finds a half boundary whenever the stadium waits for a kick-off and computes
\* from the clock the side TimeRef announced from its count of halves.  (With an
\* odd number the two disagree in every extra half but the first: kickOff counts
\* those from the end of normal time, TimeRef from the start of the match.)
THEOREM KickOffSideAgreedHolds ==
    ASSUME NrNormalHalfs % 2 = 0
    PROVE  Spec => []KickOffSideAgreed
<1>1. Init => SideInv
  BY ClockAssumption DEF Init, SideInv, HalfTimeSide
<1>2. ClockInv /\ SideInv => KickOffSideAgreed
  <2> SUFFICES ASSUME ClockInv, SideInv, playmode = BeforeKickOff
               PROVE  AtHalfBoundary /\ kickOffSide = KickOffTeam
    BY DEF KickOffSideAgreed
  <2> DEFINE c == halfTimeCount
             extra == c - NrNormalHalfs
  <2>1. /\ HalfTime \in Nat \ {0} /\ NrNormalHalfs \in Nat
        /\ ExtraHalfTime \in Nat /\ Normal \in Nat
    BY ClockAssumption, LengthsNat
  <2>2. c \in Nat /\ time = HalfStart(c) /\ kickOffSide = HalfTimeSide(c)
    BY DEF ClockInv, ClockRest, ClockFollowsHalves, SideInv, TypeOK
  <2>3. CASE c <= NrNormalHalfs
    <3>1. time = HalfTime * c
      <4>1. CASE c < NrNormalHalfs
        BY <2>2, <4>1 DEF HalfStart
      <4>2. CASE c = NrNormalHalfs
        <5>1. ExtraHalfTime * (c - NrNormalHalfs) = 0
          BY <2>1, <2>2, <4>2
        <5> QED  BY <2>1, <2>2, <4>2, <5>1 DEF HalfStart, Normal
      <4> QED  BY <2>1, <2>2, <2>3, <4>1, <4>2
    <3>2. time <= Normal
      BY <3>1, <2>1, <2>2, <2>3, ProductMonotone DEF Normal
    <3>3. time % HalfTime = 0 /\ time \div HalfTime = c
      BY <3>1, <2>1, <2>2, Multiples
    <3>4. ~ (time > Normal)
      <4>1. time \in Nat
        BY DEF ClockInv, TypeOK
      <4> QED  BY <4>1, <3>2, <2>1
    <3> QED  BY <2>2, <3>2, <3>3, <3>4 DEF AtHalfBoundary, KickOffTeam, HalfTimeSide
  <2>4. CASE c > NrNormalHalfs
    <3>1. extra \in Nat \ {0} /\ ~ (c < NrNormalHalfs)
      BY <2>1, <2>2, <2>4
    <3>2. ExtraHalfTime \in Nat \ {0}
      BY <2>1, <2>2, <2>4 DEF SideInv
    <3>3. time = Normal + ExtraHalfTime * extra
      BY <2>2, <3>1 DEF HalfStart
    <3> DEFINE length == ExtraHalfTime * extra
    <3>4. length \in Nat /\ length > 0
      BY <3>1, <3>2
    <3>5. length % ExtraHalfTime = 0 /\ length \div ExtraHalfTime = extra
      BY <3>1, <3>2, Multiples
    <3> HIDE DEF length
    <3>6. time - Normal = length /\ time > Normal /\ ~ (time <= Normal)
      BY <3>3, <3>4, <2>1 DEF length
    <3>7. extra % 2 = c % 2
      BY <2>1, <2>2, <3>1
    <3>8. AtHalfBoundary
      BY <3>2, <3>5, <3>6 DEF AtHalfBoundary
    <3>9. KickOffTeam = IF extra % 2 = 0 THEN Left ELSE Right
      BY <3>5, <3>6 DEF KickOffTeam
    <3> QED  BY <2>2, <3>7, <3>8, <3>9 DEF HalfTimeSide
  <2> QED  BY <2>1, <2>2, <2>3, <2>4
<1> QED  BY <1>1, <1>2, SideStep, ClockInvariant, PTL DEF Spec
=============================================================================
