---------------------------- MODULE SetPlayProofs ----------------------------
(***************************************************************************)
(* Proofs about the field referees, for any players, waits and settings of *)
(* the rules.                                                              *)
(*                                                                         *)
(* A handler of a referee changes the fields of that referee and, by a     *)
(* call, the play mode.  So the fields fall into groups, and the lemma     *)
(* about a handler says what it makes of its own group and of the play,    *)
(* and which other groups it leaves as they are.                           *)
(***************************************************************************)
EXTENDS SetPlay, TLAPS

SamePlay(s, t) == t.mode = s.mode /\ t.moving = s.moving /\ t.catcher = s.catcher
SameKick(s, t) == t.taker = s.taker /\ t.timer = s.timer
SameKicker(s, t) == t.kicker = s.kicker /\ t.kickNow = s.kickNow
SameOffside(s, t) == t.cands = s.cands /\ SameKicker(s, t)
SameTouch(s, t) ==
    /\ t.touch = s.touch /\ t.strength = s.strength
    /\ t.indirect = s.indirect /\ t.indKicker = s.indKicker
SameCatch(s, t) ==
    /\ t.touched = s.touched /\ t.passNow = s.passNow
    /\ t.passer = s.passer /\ t.passer2 = s.passer2
SameDefense(s, t) == t.attacker = s.attacker /\ t.attackNow = s.attackNow

\* What a change of the play mode to pm makes of s, but for who took the kick.
ChangedTo(s, t, pm) ==
    /\ t \in State /\ t.mode = pm
    /\ t.cands = (IF pm = PlayOn THEN s.cands ELSE {})
    /\ t.timer = (IF pm.kind \in RestartKinds THEN DropTime ELSE -1)
    /\ t.touch = (IF pm = PlayOn THEN s.touch ELSE Neutral)
    /\ t.strength = s.strength
    /\ t.indirect = (IF KeepsIndirect(pm) THEN s.indirect ELSE pm.kind = "IndFreeKick")
    /\ t.indKicker = (IF KeepsIndirect(pm) THEN s.indKicker ELSE NoOne)
    /\ t.touched = s.touched /\ t.passNow = s.passNow
    /\ t.passer = (IF pm = PlayOn THEN s.passer ELSE NoOne)
    /\ t.passer2 = (IF pm = PlayOn THEN s.passer2 ELSE NoOne)
    /\ SameDefense(s, t)

TakerAfter(s, t, pm) == t.taker = (IF pm = PlayOn THEN s.taker ELSE NoOne)

\* A call: the ball is taken from everybody and placed.
CalledAs(s, t, pm) == ChangedTo(s, t, pm) /\ ~ t.moving /\ t.catcher = NoOne

------------------------------------------------------------------------------
(* Changes of the play mode.                                                *)

LEMMA Constants ==
    /\ DropTime \in Nat \ {0, 1} /\ Wait \in Nat /\ MaxGoalKicks \in Nat
    /\ IllegalDuration \in Nat \ {0}
    /\ Goalies \subseteq Players /\ Players \subseteq Sides \X Nat
    /\ UseOffside \in BOOLEAN /\ UseIllegalDefense \in BOOLEAN /\ FreeKickFaults \in BOOLEAN
    /\ ProperGoalKicks \in BOOLEAN /\ BackPasses \in BOOLEAN /\ Operator \in BOOLEAN
BY SetPlayAssumption

\* The fields of a state have their types.
LEMMA Fields ==
    ASSUME NEW s \in State
    PROVE  /\ s.mode \in PlayMode /\ s.moving \in BOOLEAN
           /\ s.catcher \in Goalies \cup {NoOne} /\ s.after \in 0..Wait
           /\ s.stuck \in 0 .. DropTime - 1
           /\ s.cands \subseteq Players /\ s.kicker \in Sides \cup {Neutral}
           /\ s.kickNow \in BOOLEAN
           /\ s.illegal \in [Sides -> 0 .. IllegalDuration - 1]
           /\ s.attacker \in Sides \cup {Neutral} /\ s.attackNow \in BOOLEAN
           /\ s.taker \in Players \cup {NoOne} /\ s.dashed \in BOOLEAN
           /\ s.goalKicks \in -1..MaxGoalKicks /\ s.timer \in -1..DropTime
           /\ s.touch \in Sides \cup {Neutral} /\ s.strength \in {"none", "soft", "hard"}
           /\ s.indirect \in BOOLEAN /\ s.indKicker \in Players \cup {NoOne}
           /\ s.touched \subseteq Sides /\ s.passNow \in BOOLEAN
           /\ s.passer \in Players \cup {NoOne} /\ s.passer2 \in Players \cup {NoOne}
BY DEF State

LEMMA KickTyped ==
    ASSUME NEW s \in State, NEW p \in Players \cup {NoOne}, NEW d \in BOOLEAN,
           NEW n \in -1..MaxGoalKicks, NEW m \in -1..DropTime,
           NEW g \in Goalies \cup {NoOne}
    PROVE  [s EXCEPT !.taker = p, !.dashed = d, !.goalKicks = n,
                     !.timer = m, !.catcher = g] \in State
BY ZenonT(60) DEF State

LEMMA TouchTyped ==
    ASSUME NEW s \in State, NEW x \in Sides \cup {Neutral}, NEW i \in BOOLEAN,
           NEW p \in Players \cup {NoOne}
    PROVE  [s EXCEPT !.touch = x, !.indirect = i, !.indKicker = p] \in State
BY ZenonT(60) DEF State

\* What every referee makes of a new play mode.
LEMMA ChangeResult ==
    ASSUME NEW s \in State, NEW pm \in PlayMode
    PROVE  LET t == changePlayMode(s, pm) IN
           /\ ChangedTo(s, t, pm) /\ TakerAfter(s, t, pm) /\ SameKicker(s, t)
           /\ t.moving = s.moving /\ t.after = 0
           /\ t.catcher = s.catcher \/ t.catcher = NoOne
<1> DEFINE a == [s EXCEPT !.mode = pm, !.after = 0]
           b == OffsideChange(a, pm)
           c == FreeKickChange(b, pm)
           d == TouchChange(c, pm)
           e == CatchChange(d, pm)
<1>0. /\ 0 \in 0..Wait /\ NoOne \in Goalies \cup {NoOne}
  BY Constants
<1>1. /\ a \in State /\ a.mode = pm /\ a.moving = s.moving /\ a.after = 0 /\ a.catcher = s.catcher
      /\ SameOffside(s, a) /\ SameKick(s, a) /\ SameTouch(s, a) /\ SameCatch(s, a)
      /\ SameDefense(s, a)
  <2>1. a \in State
    BY <1>0, ZenonT(60) DEF State
  <2>2. /\ a.mode = pm /\ a.moving = s.moving /\ a.after = 0 /\ a.catcher = s.catcher
        /\ SameOffside(s, a) /\ SameKick(s, a)
    BY DEF State, SameOffside, SameKicker, SameKick
  <2>3. SameTouch(s, a) /\ SameCatch(s, a) /\ SameDefense(s, a)
    BY DEF State, SameTouch, SameCatch, SameDefense
  <2> QED  BY <2>1, <2>2, <2>3
<1> HIDE DEF a
<1> DEFINE cands == IF pm = PlayOn THEN a.cands ELSE {}
<1>2. cands \subseteq Players
  BY <1>1, Fields
<1>3. b = [a EXCEPT !.cands = cands]
  BY <1>1 DEF OffsideChange
<1> HIDE DEF cands, b
<1>4. /\ b \in State /\ SamePlay(a, b) /\ b.after = a.after
      /\ b.cands = cands /\ b.kicker = a.kicker /\ b.kickNow = a.kickNow
      /\ SameKick(a, b) /\ SameTouch(a, b) /\ SameCatch(a, b) /\ SameDefense(a, b)
  BY <1>1, <1>2, <1>3 DEF State, SamePlay, SameKick, SameTouch, SameCatch, SameDefense
<1> DEFINE taker == IF pm = PlayOn THEN b.taker ELSE NoOne
           dashed == IF pm = PlayOn THEN b.dashed ELSE FALSE
           kicks == IF pm.kind # "GoalKick" THEN 0
                    ELSE IF b.goalKicks < MaxGoalKicks THEN b.goalKicks + 1 ELSE b.goalKicks
           timer == IF pm.kind \in RestartKinds THEN DropTime ELSE -1
           held == IF pm.kind = "Free_Kick_Fault" THEN NoOne ELSE b.catcher
<1>5. /\ taker \in Players \cup {NoOne} /\ dashed \in BOOLEAN
      /\ held \in Goalies \cup {NoOne} /\ timer \in -1..DropTime
  <2>1. -1 \in -1..DropTime /\ DropTime \in -1..DropTime
    BY Constants
  <2>2. /\ b.taker \in Players \cup {NoOne} /\ b.dashed \in BOOLEAN
        /\ b.catcher \in Goalies \cup {NoOne}
    BY <1>4, Fields
  <2> QED  BY <2>1, <2>2
<1>6. kicks \in -1..MaxGoalKicks
  <2>1. b.goalKicks \in -1..MaxGoalKicks /\ MaxGoalKicks \in Nat
    BY <1>4, Fields, Constants
  <2> QED  BY <2>1
<1>7. c = [b EXCEPT !.taker = taker, !.dashed = dashed, !.goalKicks = kicks,
                    !.timer = timer, !.catcher = held]
  BY <1>4 DEF FreeKickChange
<1>8. /\ held = b.catcher \/ held = NoOne
      /\ taker = (IF pm = PlayOn THEN b.taker ELSE NoOne)
      /\ timer = (IF pm.kind \in RestartKinds THEN DropTime ELSE -1)
      /\ cands = (IF pm = PlayOn THEN a.cands ELSE {})
  BY DEF cands
<1> HIDE DEF taker, dashed, kicks, timer, held, c
<1>9. /\ c \in State /\ c.mode = b.mode /\ c.moving = b.moving /\ c.catcher = held
      /\ c.after = b.after /\ c.taker = taker /\ c.timer = timer
      /\ SameOffside(b, c) /\ SameTouch(b, c) /\ SameCatch(b, c) /\ SameDefense(b, c)
  <2>0. b \in State
    BY <1>4
  <2>1. c \in State
    BY <2>0, <1>5, <1>6, <1>7, KickTyped
  <2>2. /\ c.mode = b.mode /\ c.moving = b.moving /\ c.catcher = held
        /\ c.after = b.after /\ c.taker = taker /\ c.timer = timer /\ SameOffside(b, c)
    BY <1>4, <1>7 DEF State, SameOffside, SameKicker
  <2>3. SameTouch(b, c) /\ SameCatch(b, c) /\ SameDefense(b, c)
    BY <1>4, <1>7 DEF State, SameTouch, SameCatch, SameDefense
  <2> QED  BY <2>1, <2>2, <2>3
<1> DEFINE touch == IF pm = PlayOn THEN c.touch ELSE Neutral
           indirect == IF KeepsIndirect(pm) THEN c.indirect ELSE pm.kind = "IndFreeKick"
           kicker == IF KeepsIndirect(pm) THEN c.indKicker ELSE NoOne
<1>10. /\ touch \in Sides \cup {Neutral} /\ indirect \in BOOLEAN
       /\ kicker \in Players \cup {NoOne}
  BY <1>9, Fields
<1>11. d = [c EXCEPT !.touch = touch, !.indirect = indirect, !.indKicker = kicker]
  BY <1>9 DEF TouchChange
<1>12. /\ touch = (IF pm = PlayOn THEN c.touch ELSE Neutral)
       /\ indirect = (IF KeepsIndirect(pm) THEN c.indirect ELSE pm.kind = "IndFreeKick")
       /\ kicker = (IF KeepsIndirect(pm) THEN c.indKicker ELSE NoOne)
  OBVIOUS
<1> HIDE DEF touch, indirect, kicker, d
<1>13. /\ d \in State /\ SamePlay(c, d) /\ d.after = c.after
       /\ SameOffside(c, d) /\ SameKick(c, d) /\ SameCatch(c, d) /\ SameDefense(c, d)
       /\ d.touch = touch /\ d.indirect = indirect /\ d.indKicker = kicker
       /\ d.strength = c.strength
  <2>0. c \in State
    BY <1>9
  <2>1. d \in State
    BY <2>0, <1>10, <1>11, TouchTyped
  <2>2. /\ SamePlay(c, d) /\ d.after = c.after /\ d.touch = touch
        /\ d.indirect = indirect /\ d.indKicker = kicker /\ d.strength = c.strength
    BY <1>9, <1>11 DEF State, SamePlay
  <2>3. SameOffside(c, d) /\ SameKick(c, d) /\ SameCatch(c, d) /\ SameDefense(c, d)
    BY <1>9, <1>11 DEF State, SameOffside, SameKicker, SameKick, SameCatch, SameDefense
  <2> QED  BY <2>1, <2>2, <2>3
<1> DEFINE passer == IF pm = PlayOn THEN d.passer ELSE NoOne
           passer2 == IF pm = PlayOn THEN d.passer2 ELSE NoOne
           keeps == IF pm \in {PM("Back_Pass", Left), PM("CatchFault", Left)}
                    THEN NoOne ELSE d.catcher
<1>14. /\ passer \in Players \cup {NoOne} /\ passer2 \in Players \cup {NoOne}
       /\ keeps \in Goalies \cup {NoOne}
  BY <1>13, Fields
<1>15. e = [d EXCEPT !.passer = passer, !.passer2 = passer2, !.catcher = keeps]
  BY <1>13 DEF CatchChange
<1>16. /\ passer = (IF pm = PlayOn THEN d.passer ELSE NoOne)
       /\ passer2 = (IF pm = PlayOn THEN d.passer2 ELSE NoOne)
       /\ keeps = d.catcher \/ keeps = NoOne
  OBVIOUS
<1>17. e = changePlayMode(s, pm)
  BY DEF changePlayMode, a, b, c, d
<1> HIDE DEF passer, passer2, keeps, e
<1>18. /\ e \in State /\ e.mode = d.mode /\ e.moving = d.moving /\ e.catcher = keeps
       /\ e.after = d.after
       /\ SameOffside(d, e) /\ SameKick(d, e) /\ SameTouch(d, e) /\ SameDefense(d, e)
       /\ e.touched = d.touched /\ e.passNow = d.passNow
       /\ e.passer = passer /\ e.passer2 = passer2
  <2>1. e \in State
    BY <1>13, <1>14, <1>15, ZenonT(60) DEF State
  <2>2. /\ e.mode = d.mode /\ e.moving = d.moving /\ e.catcher = keeps /\ e.after = d.after
        /\ e.touched = d.touched /\ e.passNow = d.passNow
        /\ e.passer = passer /\ e.passer2 = passer2
    BY <1>13, <1>15 DEF State
  <2>3. SameOffside(d, e) /\ SameKick(d, e) /\ SameTouch(d, e) /\ SameDefense(d, e)
    BY <1>13, <1>15 DEF State, SameOffside, SameKicker, SameKick, SameTouch, SameDefense
  <2> QED  BY <2>1, <2>2, <2>3
<1>19. ChangedTo(s, e, pm) /\ TakerAfter(s, e, pm) /\ SameKicker(s, e)
  BY <1>1, <1>4, <1>8, <1>9, <1>12, <1>13, <1>16, <1>18
  DEF ChangedTo, TakerAfter, SameKicker, SamePlay, SameOffside, SameKick, SameTouch, SameCatch, SameDefense
<1>20. /\ e.moving = s.moving /\ e.after = 0 /\ (e.catcher = s.catcher \/ e.catcher = NoOne)
  BY <1>1, <1>4, <1>8, <1>9, <1>13, <1>16, <1>18 DEF SamePlay
<1> QED  BY <1>17, <1>19, <1>20

\* What placing the ball and taking it from the goalie leave alone.
LEMMA HoldUpdate ==
    ASSUME NEW s \in State, NEW g \in Goalies \cup {NoOne}
    PROVE  LET t == [s EXCEPT !.catcher = g] IN
           /\ t \in State /\ t.mode = s.mode /\ t.moving = s.moving /\ t.catcher = g
           /\ t.after = s.after /\ SameKick(s, t) /\ SameOffside(s, t) /\ SameTouch(s, t)
           /\ SameCatch(s, t) /\ SameDefense(s, t)
<1> DEFINE t == [s EXCEPT !.catcher = g]
<1>1. t \in State
  BY DEF State
<1>2. /\ t.mode = s.mode /\ t.moving = s.moving /\ t.catcher = g /\ t.after = s.after
      /\ SameKick(s, t) /\ SameOffside(s, t)
  BY DEF State, SameKick, SameOffside, SameKicker
<1>3. SameTouch(s, t) /\ SameCatch(s, t) /\ SameDefense(s, t)
  BY DEF State, SameTouch, SameCatch, SameDefense
<1> QED  BY <1>1, <1>2, <1>3

LEMMA MoveUpdate ==
    ASSUME NEW s \in State, NEW m \in BOOLEAN
    PROVE  LET t == [s EXCEPT !.moving = m] IN
           /\ t \in State /\ t.mode = s.mode /\ t.moving = m /\ t.catcher = s.catcher
           /\ t.after = s.after /\ SameKick(s, t) /\ SameOffside(s, t) /\ SameTouch(s, t)
           /\ SameCatch(s, t) /\ SameDefense(s, t)
<1> DEFINE t == [s EXCEPT !.moving = m]
<1>1. t \in State
  BY DEF State
<1>2. /\ t.mode = s.mode /\ t.moving = m /\ t.catcher = s.catcher /\ t.after = s.after
      /\ SameKick(s, t) /\ SameOffside(s, t)
  BY DEF State, SameKick, SameOffside, SameKicker
<1>3. SameTouch(s, t) /\ SameCatch(s, t) /\ SameDefense(s, t)
  BY DEF State, SameTouch, SameCatch, SameDefense
<1> QED  BY <1>1, <1>2, <1>3

LEMMA PlaceResult ==
    ASSUME NEW s \in State, NEW pm \in PlayMode
    PROVE  LET t == placeBall(s, pm) IN
           /\ ChangedTo(s, t, pm) /\ TakerAfter(s, t, pm) /\ SameKicker(s, t)
           /\ ~ t.moving /\ t.after = 0
           /\ t.catcher = s.catcher \/ t.catcher = NoOne
<1> DEFINE a == [s EXCEPT !.moving = FALSE]
           t == changePlayMode(a, pm)
<1>1. /\ a \in State /\ ~ a.moving /\ a.catcher = s.catcher /\ SameKick(s, a)
      /\ SameOffside(s, a) /\ SameTouch(s, a) /\ SameCatch(s, a) /\ SameDefense(s, a)
  BY MoveUpdate
<1> HIDE DEF a
<1>2. /\ ChangedTo(a, t, pm) /\ TakerAfter(a, t, pm) /\ SameKicker(a, t)
      /\ t.moving = a.moving /\ t.after = 0
      /\ t.catcher = a.catcher \/ t.catcher = NoOne
  BY <1>1, ChangeResult
<1>3. t = placeBall(s, pm)
  BY DEF placeBall, a
<1> HIDE DEF t
<1>4. ChangedTo(s, t, pm) /\ TakerAfter(s, t, pm) /\ SameKicker(s, t)
  BY <1>1, <1>2 DEF ChangedTo, TakerAfter, SameKicker, SameKick, SameOffside, SameTouch,
                    SameCatch, SameDefense
<1> QED  BY <1>1, <1>2, <1>3, <1>4

LEMMA CallResult ==
    ASSUME NEW s \in State, NEW pm \in PlayMode
    PROVE  LET t == Call(s, pm) IN
           CalledAs(s, t, pm) /\ TakerAfter(s, t, pm) /\ SameKicker(s, t) /\ t.after = 0
<1> DEFINE a == [s EXCEPT !.catcher = NoOne]
           t == placeBall(a, pm)
<1>1. /\ a \in State /\ a.catcher = NoOne /\ SameKick(s, a)
      /\ SameOffside(s, a) /\ SameTouch(s, a) /\ SameCatch(s, a) /\ SameDefense(s, a)
  BY HoldUpdate
<1> HIDE DEF a
<1>2. /\ ChangedTo(a, t, pm) /\ TakerAfter(a, t, pm) /\ SameKicker(a, t)
      /\ ~ t.moving /\ t.after = 0 /\ t.catcher = NoOne
  BY <1>1, PlaceResult
<1>3. t = Call(s, pm)
  BY DEF Call, a
<1> HIDE DEF t
<1>4. ChangedTo(s, t, pm) /\ TakerAfter(s, t, pm) /\ SameKicker(s, t)
  BY <1>1, <1>2 DEF ChangedTo, TakerAfter, SameKicker, SameKick, SameOffside, SameTouch,
                    SameCatch, SameDefense
<1> QED  BY <1>2, <1>3, <1>4 DEF CalledAs

\* The ball is dropped: play goes on, and an indirect kick remains indirect.
LEMMA DropResult ==
    ASSUME NEW s \in State
    PROVE  LET t == awardDropBall(s) IN
           /\ t \in State /\ t.mode = PlayOn /\ ~ t.moving /\ t.catcher = NoOne
           /\ t.cands = {} /\ SameKicker(s, t)
           /\ t.taker = NoOne /\ t.timer = -1 /\ t.touch = Neutral /\ t.strength = s.strength
           /\ t.indirect = s.indirect /\ t.indKicker = s.indKicker
           /\ t.touched = s.touched /\ t.passNow = s.passNow
           /\ t.passer = NoOne /\ t.passer2 = NoOne /\ SameDefense(s, t)
<1> DEFINE a == Call(s, Drop_Ball)
           t == changePlayMode(a, PlayOn)
<1>0. /\ Drop_Ball \in PlayMode /\ PlayOn \in PlayMode /\ Drop_Ball # PlayOn
      /\ Drop_Ball.kind \notin RestartKinds /\ PlayOn.kind \notin RestartKinds
      /\ KeepsIndirect(Drop_Ball) /\ KeepsIndirect(PlayOn)
  BY DEF Drop_Ball, PlayOn, PlayMode, PM, NeutralKinds, RestartKinds, FreeKickKinds, KeepsIndirect
<1>1. CalledAs(s, a, Drop_Ball) /\ TakerAfter(s, a, Drop_Ball) /\ SameKicker(s, a)
  BY <1>0, CallResult
<1> HIDE DEF a
<1>2. a \in State
  BY <1>1 DEF CalledAs, ChangedTo
<1>3. /\ ChangedTo(a, t, PlayOn) /\ TakerAfter(a, t, PlayOn) /\ SameKicker(a, t)
      /\ t.moving = a.moving
      /\ t.catcher = a.catcher \/ t.catcher = NoOne
  BY <1>0, <1>2, ChangeResult
<1>4. t = awardDropBall(s)
  BY DEF awardDropBall, a
<1> HIDE DEF t
<1> QED  BY <1>0, <1>1, <1>3, <1>4 DEF CalledAs, ChangedTo, TakerAfter, SameKicker, SameDefense

------------------------------------------------------------------------------
(* Play modes.                                                              *)

LEMMA SidedMode ==
    ASSUME NEW k \in SidedKinds, NEW x \in Sides
    PROVE  /\ PM(k, x) \in PlayMode /\ PM(k, x).kind = k /\ PM(k, x).side = x
           /\ PM(k, x) # PlayOn /\ ~ KeepsIndirect(PM(k, x))
BY DEF SidedKinds, FaultKinds, RestartKinds, FreeKickKinds, PenaltyKinds, NeutralKinds, PM,
       PlayMode, PlayOn, Drop_Ball, KeepsIndirect

LEMMA ModeFields ==
    ASSUME NEW pm \in PlayMode
    PROVE  /\ pm = PM(pm.kind, pm.side)
           /\ pm.kind \in SidedKinds => pm.side \in Sides
           /\ pm.kind \notin SidedKinds => pm.side = Neutral
           /\ pm.kind = "PlayOn" <=> pm = PlayOn
           /\ pm.kind = "BeforeKickOff" <=> pm = BeforeKickOff
           /\ pm.kind = "Drop_Ball" <=> pm = Drop_Ball
           /\ pm.kind \in SidedKinds \cup NeutralKinds
<1>1. CASE pm \in [kind : NeutralKinds, side : {Neutral}]
  BY <1>1 DEF SidedKinds, FaultKinds, RestartKinds, FreeKickKinds, PenaltyKinds, NeutralKinds, PM,
       PlayOn, BeforeKickOff, Drop_Ball
<1>2. CASE pm \in [kind : SidedKinds, side : Sides]
  BY <1>2 DEF SidedKinds, FaultKinds, RestartKinds, FreeKickKinds, PenaltyKinds, NeutralKinds, PM,
       PlayOn, BeforeKickOff, Drop_Ball
<1> QED  BY <1>1, <1>2 DEF PlayMode

LEMMA NeutralModes ==
    /\ PlayOn \in PlayMode /\ BeforeKickOff \in PlayMode /\ Drop_Ball \in PlayMode
    /\ PlayOn.kind = "PlayOn" /\ BeforeKickOff.kind = "BeforeKickOff"
    /\ Drop_Ball.kind = "Drop_Ball"
    /\ PlayOn # BeforeKickOff /\ Drop_Ball # PlayOn
    /\ KeepsIndirect(PlayOn) /\ ~ KeepsIndirect(BeforeKickOff)
BY DEF PlayMode, PM, NeutralKinds, PlayOn, BeforeKickOff, Drop_Ball, KeepsIndirect

LEMMA Opponents ==
    /\ \A x \in Sides : Opp(x) \in Sides /\ Opp(x) # x /\ Opp(Opp(x)) = x
    /\ Neutral \notin Sides
BY DEF Opp, Sides, Left, Right, Neutral

LEMMA PlayerSides ==
    /\ \A p \in Players : Side(p) \in Sides /\ p # NoOne
    /\ Side(NoOne) = Neutral
<1>1. \A p \in Players : p \in Sides \X Nat
  BY Constants
<1>2. \A p \in Sides \X Nat : p[1] \in Sides
  OBVIOUS
<1>3. NoOne[1] = Neutral
  BY DEF NoOne
<1> QED  BY <1>1, <1>2, <1>3, Opponents DEF Side

------------------------------------------------------------------------------
(* The handlers of the referees when the ball is played.                    *)

\* Everything but the memory of OffsideRef, of FreeKickRef, ...
ButOffside(s, t) ==
    SamePlay(s, t) /\ SameKick(s, t) /\ SameTouch(s, t) /\ SameCatch(s, t) /\ SameDefense(s, t)
ButTouch(s, t) ==
    SamePlay(s, t) /\ SameKick(s, t) /\ SameOffside(s, t) /\ SameCatch(s, t) /\ SameDefense(s, t)
ButCatch(s, t) ==
    SamePlay(s, t) /\ SameKick(s, t) /\ SameOffside(s, t) /\ SameTouch(s, t) /\ SameDefense(s, t)
ButDefense(s, t) ==
    SamePlay(s, t) /\ SameKick(s, t) /\ SameOffside(s, t) /\ SameTouch(s, t) /\ SameCatch(s, t)

LEMMA KickerUpdate ==
    ASSUME NEW s \in State, NEW x \in Sides \cup {Neutral}
    PROVE  LET t == [s EXCEPT !.kickNow = TRUE, !.kicker = x] IN
           /\ t \in State /\ ButOffside(s, t) /\ t.kickNow /\ t.kicker = x /\ t.cands = s.cands
<1> DEFINE t == [s EXCEPT !.kickNow = TRUE, !.kicker = x]
<1>1. t \in State
  BY ZenonT(60) DEF State
<1>2. ButOffside(s, t) /\ t.kickNow /\ t.kicker = x /\ t.cands = s.cands
  BY DEF State, ButOffside, SamePlay, SameKick, SameTouch, SameCatch, SameDefense
<1> QED  BY <1>1, <1>2

LEMMA ForgetOffside ==
    ASSUME NEW s \in State
    PROVE  LET t == [s EXCEPT !.kicker = Neutral, !.cands = {}] IN
           /\ t \in State /\ ButOffside(s, t) /\ t.kickNow = s.kickNow /\ t.kicker = Neutral
           /\ t.cands = {}
<1> DEFINE t == [s EXCEPT !.kicker = Neutral, !.cands = {}]
<1>1. t \in State
  BY DEF State
<1>2. ButOffside(s, t) /\ t.kickNow = s.kickNow /\ t.kicker = Neutral /\ t.cands = {}
  BY DEF State, ButOffside, SamePlay, SameKick, SameTouch, SameCatch, SameDefense
<1> QED  BY <1>1, <1>2

LEMMA MarkUpdate ==
    ASSUME NEW s \in State, NEW m \in SUBSET Players
    PROVE  LET t == [s EXCEPT !.cands = m] IN
           t \in State /\ ButOffside(s, t) /\ SameKicker(s, t) /\ t.cands = m
<1> DEFINE t == [s EXCEPT !.cands = m]
<1>1. t \in State
  BY DEF State
<1>2. ButOffside(s, t) /\ SameKicker(s, t) /\ t.cands = m
  BY DEF State, ButOffside, SamePlay, SameKick, SameTouch, SameCatch, SameDefense, SameKicker
<1> QED  BY <1>1, <1>2

\* Offside is called against the side that OffsideRef has for the last kicker's.
LEMMA OffsideCall ==
    ASSUME NEW s \in State
    PROVE  LET t == callOffside(s) IN
           \/ s.kicker = Neutral /\ t = s
           \/ /\ s.kicker \in Sides /\ CalledAs(s, t, PM("OffSide", s.kicker))
              /\ t.taker = NoOne /\ SameKicker(s, t)
<1>1. CASE s.kicker = Neutral
  BY <1>1 DEF callOffside
<1>2. CASE s.kicker # Neutral
  <2>1. s.kicker \in Sides
    BY <1>2, Fields
  <2>2. PM("OffSide", s.kicker) \in PlayMode /\ PM("OffSide", s.kicker) # PlayOn
    BY <2>1, SidedMode DEF SidedKinds, FaultKinds
  <2>3. callOffside(s) = Call(s, PM("OffSide", s.kicker))
    BY <1>2 DEF callOffside
  <2> QED  BY <2>1, <2>2, <2>3, CallResult DEF TakerAfter
<1> QED  BY <1>1, <1>2

\* OffsideRef, when p plays the ball.
LEMMA OffsideMark ==
    ASSUME NEW s \in State, NEW p \in Players, NEW hard \in BOOLEAN, NEW marked \in SUBSET Players
    PROVE  LET t == setOffsideMark(s, p, hard, marked) IN
           /\ t \in State
           /\ t.kicker \in {s.kicker, Neutral} \/ (hard /\ t.kicker = Side(p))
           /\ \/ ButOffside(s, t)
              \/ /\ t.kicker \in Sides /\ CalledAs(s, t, PM("OffSide", t.kicker))
                 /\ t.taker = NoOne
<1> DEFINE x == IF hard THEN Side(p) ELSE s.kicker
           u == [s EXCEPT !.kickNow = TRUE, !.kicker = x]
           t == setOffsideMark(s, p, hard, marked)
           m == IF u.mode.kind \in NoOffsideKinds THEN {} ELSE marked
<1>0. /\ x \in Sides \cup {Neutral} /\ Neutral \in Sides \cup {Neutral}
      /\ {} \in SUBSET Players /\ m \in SUBSET Players /\ s.cands \in SUBSET Players
      /\ x = s.kicker \/ (hard /\ x = Side(p))
      /\ TRUE \in BOOLEAN /\ s.kickNow \in BOOLEAN
  BY PlayerSides, Fields
<1> HIDE DEF x
<1>1. CASE ~ UseOffside
  <2>1. t = s
    BY <1>1 DEF setOffsideMark
  <2> QED  BY <2>1 DEF ButOffside, SamePlay, SameKick, SameTouch, SameCatch, SameDefense
<1>2. CASE UseOffside /\ s.kickNow
  <2>1. t = [s EXCEPT !.kicker = Neutral, !.cands = {}]
    BY <1>2 DEF setOffsideMark
  <2>2. t \in State /\ ButOffside(s, t) /\ t.kicker = Neutral
    BY <2>1, ForgetOffside
  <2> QED  BY <2>2
<1>3. CASE UseOffside /\ ~ s.kickNow
  <2>1. t = IF p \in u.cands THEN callOffside(u) ELSE [u EXCEPT !.cands = m]
    BY <1>3 DEF setOffsideMark, x
  <2>2. u \in State /\ ButOffside(s, u) /\ u.kicker = x
    BY <1>0, KickerUpdate
  <2> HIDE DEF u, m
  <2>3. CASE p \in u.cands
    <3>1. t = callOffside(u)
      BY <2>1, <2>3
    <3>2. CASE t = u
      BY <3>2, <2>2, <1>0
    <3>3. CASE /\ u.kicker \in Sides /\ CalledAs(u, t, PM("OffSide", u.kicker))
               /\ t.taker = NoOne /\ SameKicker(u, t)
      <4> HIDE DEF t
      <4>1. t.kicker = u.kicker /\ t.kicker = x
        BY <3>3, <2>2 DEF SameKicker
      <4>2. CalledAs(s, t, PM("OffSide", t.kicker))
        <5>1. PM("OffSide", t.kicker) # PlayOn /\ ~ KeepsIndirect(PM("OffSide", t.kicker))
          BY <3>3, <4>1, SidedMode DEF SidedKinds, FaultKinds
        <5> QED  BY <3>3, <2>2, <4>1, <5>1 DEF CalledAs, ChangedTo, ButOffside, SameTouch,
                    SameCatch, SameDefense
      <4>3. t \in State
        BY <4>2 DEF CalledAs, ChangedTo
      <4> QED  BY <3>3, <4>1, <4>2, <4>3, <1>0 DEF t
    <3> QED  BY <3>1, <3>2, <3>3, <2>2, OffsideCall
  <2>4. CASE p \notin u.cands
    <3>1. t = [u EXCEPT !.cands = m]
      BY <2>1, <2>4
    <3>2. t \in State /\ ButOffside(u, t) /\ SameKicker(u, t)
      BY <1>0, <2>2, <3>1, MarkUpdate
    <3> HIDE DEF t
    <3>3. ButOffside(s, t) /\ t.kicker = x
      BY <2>2, <3>2 DEF ButOffside, SamePlay, SameKick, SameTouch, SameCatch, SameDefense, SameKicker
    <3> QED  BY <3>2, <3>3, <1>0 DEF t
  <2> QED  BY <2>3, <2>4
<1> QED  BY <1>1, <1>2, <1>3

\* Everything but who took the kick.
ButTaker(s, t) ==
    /\ SamePlay(s, t) /\ t.timer = s.timer /\ SameOffside(s, t) /\ SameTouch(s, t)
    /\ SameCatch(s, t) /\ SameDefense(s, t)

LEMMA TakerUpdate ==
    ASSUME NEW s \in State, NEW q \in Players \cup {NoOne}
    PROVE  LET t == [s EXCEPT !.taker = q, !.dashed = FALSE] IN
           t \in State /\ ButTaker(s, t) /\ t.taker = q
<1> DEFINE t == [s EXCEPT !.taker = q, !.dashed = FALSE]
<1>1. t \in State
  BY ZenonT(60) DEF State
<1>2. SamePlay(s, t) /\ t.timer = s.timer /\ SameOffside(s, t) /\ t.taker = q
  BY DEF State, SamePlay, SameOffside, SameKicker
<1>3. SameTouch(s, t) /\ SameCatch(s, t) /\ SameDefense(s, t)
  BY DEF State, SameTouch, SameCatch, SameDefense
<1> QED  BY <1>1, <1>2, <1>3 DEF ButTaker

LEMMA RetakeUpdate ==
    ASSUME NEW s \in State
    PROVE  LET t == [s EXCEPT !.goalKicks = -1, !.taker = NoOne] IN
           t \in State /\ ButTaker(s, t) /\ t.taker = NoOne
<1> DEFINE t == [s EXCEPT !.goalKicks = -1, !.taker = NoOne]
<1>0. -1 \in -1..MaxGoalKicks
  BY Constants
<1>1. t \in State
  BY <1>0 DEF State
<1>2. SamePlay(s, t) /\ t.timer = s.timer /\ SameOffside(s, t) /\ t.taker = NoOne
  BY DEF State, SamePlay, SameOffside, SameKicker
<1>3. SameTouch(s, t) /\ SameCatch(s, t) /\ SameDefense(s, t)
  BY DEF State, SameTouch, SameCatch, SameDefense
<1> QED  BY <1>1, <1>2, <1>3 DEF ButTaker

LEMMA CallKept ==
    ASSUME NEW s, NEW t, NEW u \in State, NEW pm, CalledAs(s, t, pm), ButTaker(t, u)
    PROVE  CalledAs(s, u, pm)
BY DEF CalledAs, ChangedTo, ButTaker, SamePlay, SameOffside, SameTouch, SameCatch, SameDefense

\* FreeKickRef, when p plays the ball: it changes no mode, has a goal kick taken
\* again, or calls a fault; ...
FreeKickOutcome(s, t, p) ==
    \/ /\ ButTaker(s, t)
       /\ t.taker # NoOne => s.mode = PlayOn \/ s.mode.kind = "GoalKick" \/ s.taker = t.taker
    \/ s.mode.kind = "GoalKick" /\ CalledAs(s, t, s.mode) /\ SameKicker(s, t)
    \/ /\ s.taker = p /\ CalledAs(s, t, PM("Free_Kick_Fault", Side(p))) /\ SameKicker(s, t)
       /\ t.taker # NoOne => s.mode.kind = "GoalKick"

\* ... or, when p kicks the ball, puts it in play.
PutsInPlay(s, t) ==
    /\ s.mode.kind \notin {"GoalKick", "OffSide", "PlayOn"}
    /\ t.mode = PlayOn /\ t.moving = s.moving /\ t.catcher \in {s.catcher, NoOne}
    /\ t.timer = -1 /\ SameOffside(s, t) /\ SameTouch(s, t) /\ SameCatch(s, t)
    /\ SameDefense(s, t)

LEMMA SameIsSame ==
    ASSUME NEW s
    PROVE  ButTaker(s, s) /\ ButOffside(s, s) /\ ButTouch(s, s) /\ ButCatch(s, s) /\ ButDefense(s, s)
BY DEF ButTaker, ButOffside, ButTouch, ButCatch, ButDefense, SamePlay, SameKick, SameOffside,
       SameKicker, SameTouch, SameCatch, SameDefense

LEMMA FaultCall ==
    ASSUME NEW s \in State, NEW p \in Players
    PROVE  LET t == callFreeKickFault(s, Side(p)) IN
           /\ t \in State /\ CalledAs(s, t, PM("Free_Kick_Fault", Side(p))) /\ t.taker = NoOne
           /\ SameKicker(s, t)
<1>1. PM("Free_Kick_Fault", Side(p)) \in PlayMode /\ PM("Free_Kick_Fault", Side(p)) # PlayOn
  BY PlayerSides, SidedMode DEF SidedKinds, FaultKinds
<1> QED  BY <1>1, CallResult DEF callFreeKickFault, TakerAfter, CalledAs, ChangedTo

LEMMA GoalKickCall ==
    ASSUME NEW s \in State, s.mode.kind = "GoalKick"
    PROVE  LET t == Call(s, s.mode) IN
           /\ t \in State /\ CalledAs(s, t, s.mode) /\ t.taker = NoOne /\ SameKicker(s, t)
<1>1. s.mode \in PlayMode /\ s.mode # PlayOn
  BY Fields, NeutralModes
<1> QED  BY <1>1, CallResult DEF TakerAfter, CalledAs, ChangedTo

LEMMA RetakeResult ==
    ASSUME NEW s \in State, s.mode.kind = "GoalKick"
    PROVE  LET t == RetakeGoalKick(s) IN
           /\ t \in State /\ CalledAs(s, t, s.mode) /\ t.taker = NoOne /\ SameKicker(s, t)
<1> DEFINE u == Call(s, s.mode)
           t == [u EXCEPT !.goalKicks = -1, !.taker = NoOne]
<1>1. u \in State /\ CalledAs(s, u, s.mode) /\ SameKicker(s, u)
  BY GoalKickCall
<1> HIDE DEF u
<1>2. t \in State /\ ButTaker(u, t) /\ t.taker = NoOne
  BY <1>1, RetakeUpdate
<1>3. t = RetakeGoalKick(s)
  BY DEF RetakeGoalKick, u
<1> HIDE DEF t
<1>4. CalledAs(s, t, s.mode) /\ SameKicker(s, t)
  BY <1>1, <1>2, CallKept DEF ButTaker, SameOffside, SameKicker
<1> QED  BY <1>2, <1>3, <1>4

LEMMA AgainResult ==
    ASSUME NEW s \in State, NEW p \in Players
    PROVE  LET t == TakerAgain(s, p) IN
           t \in State /\ FreeKickOutcome(s, t, p) /\ t.taker \in {p, NoOne}
<1> DEFINE t == TakerAgain(s, p)
<1>1. CASE s.taker = p /\ FreeKickFaults /\ s.dashed
  <2>1. t = callFreeKickFault(s, Side(p))
    BY <1>1 DEF TakerAgain
  <2> QED  BY <1>1, <2>1, FaultCall DEF FreeKickOutcome
<1>2. CASE s.taker = p /\ FreeKickFaults /\ ~ s.dashed
  <2>1. t = s
    BY <1>2 DEF TakerAgain
  <2> QED  BY <1>2, <2>1, SameIsSame DEF FreeKickOutcome
<1>3. CASE ~ (s.taker = p /\ FreeKickFaults)
  <2>1. t = [s EXCEPT !.taker = NoOne, !.dashed = FALSE]
    BY <1>3 DEF TakerAgain
  <2>2. t \in State /\ ButTaker(s, t) /\ t.taker = NoOne
    BY <2>1, TakerUpdate
  <2> QED  BY <2>2 DEF FreeKickOutcome
<1> QED  BY <1>1, <1>2, <1>3

LEMMA GoalKickResult ==
    ASSUME NEW s \in State, NEW p \in Players, s.mode.kind = "GoalKick"
    PROVE  LET t == GoalKickKick(s, p) IN
           t \in State /\ FreeKickOutcome(s, t, p) /\ t.taker = p
<1> DEFINE again == s.taker # NoOne /\ (s.taker # p \/ s.dashed)
           u == IF again /\ s.taker = p /\ FreeKickFaults THEN callFreeKickFault(s, Side(p))
                ELSE IF again /\ ProperGoalKicks THEN Call(s, s.mode)
                ELSE s
           t == [u EXCEPT !.taker = p, !.dashed = FALSE]
<1>1. t = GoalKickKick(s, p)
  BY DEF GoalKickKick
<1>2. /\ u \in State /\ SameKicker(s, u)
      /\ \/ s.taker = p /\ CalledAs(s, u, PM("Free_Kick_Fault", Side(p)))
         \/ CalledAs(s, u, s.mode)
         \/ u = s
  <2>1. CASE again /\ s.taker = p /\ FreeKickFaults
    BY <2>1, FaultCall
  <2>2. CASE ~ (again /\ s.taker = p /\ FreeKickFaults) /\ again /\ ProperGoalKicks
    <3>1. u = Call(s, s.mode)
      BY <2>2
    <3> HIDE DEF u, again
    <3> QED  BY <3>1, GoalKickCall
  <2>3. CASE ~ (again /\ s.taker = p /\ FreeKickFaults) /\ ~ (again /\ ProperGoalKicks)
    <3>1. u = s
      BY <2>3
    <3> HIDE DEF u, again
    <3> QED  BY <3>1 DEF SameKicker
  <2> QED  BY <2>1, <2>2, <2>3
<1> HIDE DEF u
<1>3. t \in State /\ ButTaker(u, t) /\ t.taker = p
  BY <1>2, TakerUpdate
<1> HIDE DEF t
<1>4. SameKicker(s, t)
  BY <1>2, <1>3 DEF ButTaker, SameOffside, SameKicker
<1>5. CASE s.taker = p /\ CalledAs(s, u, PM("Free_Kick_Fault", Side(p)))
  BY <1>1, <1>3, <1>4, <1>5, CallKept DEF FreeKickOutcome
<1>6. CASE CalledAs(s, u, s.mode)
  BY <1>1, <1>3, <1>4, <1>6, CallKept DEF FreeKickOutcome
<1>7. CASE u = s
  BY <1>1, <1>3, <1>7 DEF FreeKickOutcome
<1> QED  BY <1>2, <1>5, <1>6, <1>7

LEMMA FaultKind ==
    ASSUME NEW p \in Players
    PROVE  PM("Free_Kick_Fault", Side(p)).kind = "Free_Kick_Fault"
BY PlayerSides, SidedMode DEF SidedKinds, FaultKinds

LEMMA KickResult ==
    ASSUME NEW s \in State, NEW p \in Players
    PROVE  LET t == FreeKickKick(s, p) IN
           /\ t \in State /\ (FreeKickOutcome(s, t, p) \/ PutsInPlay(s, t))
           /\ t.taker \in {p, NoOne} \/ (s.mode.kind = "OffSide" /\ t = s)
           /\ t.mode.kind \in {"GoalKick", "OffSide", "PlayOn", "Free_Kick_Fault"}
<1> DEFINE t == FreeKickKick(s, p)
           u == [s EXCEPT !.taker = p, !.dashed = FALSE]
<1>0. s.mode \in PlayMode
  BY Fields
<1>1. CASE s.mode.kind = "GoalKick" /\ Side(p) # s.mode.side
  <2>1. t = RetakeGoalKick(s)
    BY <1>1 DEF FreeKickKick
  <2>2. t \in State /\ CalledAs(s, t, s.mode) /\ t.taker = NoOne /\ SameKicker(s, t)
    BY <1>1, <2>1, RetakeResult
  <2>3. t.mode = s.mode
    BY <2>2 DEF CalledAs, ChangedTo
  <2> QED  BY <1>1, <2>2, <2>3 DEF FreeKickOutcome
<1>2. CASE s.mode.kind = "GoalKick" /\ Side(p) = s.mode.side
  <2>1. t = GoalKickKick(s, p)
    BY <1>2 DEF FreeKickKick
  <2>2. t \in State /\ FreeKickOutcome(s, t, p) /\ t.taker = p
    BY <1>2, <2>1, GoalKickResult
  <2>3. t.mode = s.mode \/ t.mode = PM("Free_Kick_Fault", Side(p))
    BY <2>2 DEF FreeKickOutcome, ButTaker, SamePlay, CalledAs, ChangedTo
  <2> QED  BY <1>2, <2>2, <2>3, FaultKind
<1>3. CASE s.mode.kind = "OffSide"
  <2>1. t = s
    BY <1>3 DEF FreeKickKick
  <2> QED  BY <1>3, <2>1, SameIsSame DEF FreeKickOutcome
<1>4. CASE s.mode.kind \notin {"GoalKick", "OffSide"} /\ s.mode # PlayOn
  <2>1. t = changePlayMode(u, PlayOn)
    BY <1>4 DEF FreeKickKick
  <2>2. u \in State /\ ButTaker(s, u) /\ u.taker = p
    BY TakerUpdate
  <2> HIDE DEF u
  <2>3. /\ ChangedTo(u, t, PlayOn) /\ TakerAfter(u, t, PlayOn) /\ SameKicker(u, t)
        /\ t.moving = u.moving /\ t.catcher \in {u.catcher, NoOne}
    BY <2>1, <2>2, ChangeResult, NeutralModes
  <2> HIDE DEF t
  <2>4. t \in State /\ t.mode = PlayOn /\ t.taker = p
    BY <2>2, <2>3 DEF ChangedTo, TakerAfter
  <2>5. t.timer = -1
    BY <2>3, NeutralModes DEF ChangedTo, RestartKinds, FreeKickKinds
  <2>6. /\ t.moving = s.moving /\ t.catcher \in {s.catcher, NoOne}
        /\ SameOffside(s, t) /\ SameTouch(s, t) /\ SameCatch(s, t) /\ SameDefense(s, t)
    BY <2>2, <2>3, NeutralModes DEF ChangedTo, ButTaker, SamePlay, SameOffside, SameKicker,
        SameTouch, SameCatch, SameDefense
  <2>7. s.mode.kind # "PlayOn"
    BY <1>0, <1>4, ModeFields
  <2>8. PutsInPlay(s, t)
    BY <1>4, <2>4, <2>5, <2>6, <2>7 DEF PutsInPlay
  <2> QED  BY <2>4, <2>8, NeutralModes DEF t
<1>5. CASE s.mode = PlayOn /\ s.taker # NoOne
  <2>1. t = TakerAgain(s, p)
    BY <1>5, NeutralModes DEF FreeKickKick
  <2>2. t \in State /\ FreeKickOutcome(s, t, p) /\ t.taker \in {p, NoOne}
    BY <2>1, AgainResult
  <2>3. t.mode = s.mode \/ t.mode = PM("Free_Kick_Fault", Side(p))
    BY <2>2 DEF FreeKickOutcome, ButTaker, SamePlay, CalledAs, ChangedTo
  <2> QED  BY <1>5, <2>2, <2>3, FaultKind, NeutralModes
<1>6. CASE s.mode = PlayOn /\ s.taker = NoOne
  <2>1. t = s
    BY <1>6, NeutralModes DEF FreeKickKick
  <2> QED  BY <1>6, <2>1, SameIsSame, NeutralModes DEF FreeKickOutcome
<1> QED  BY <1>1, <1>2, <1>3, <1>4, <1>5, <1>6

LEMMA TouchedResult ==
    ASSUME NEW s \in State, NEW p \in Players
    PROVE  LET t == FreeKickTouch(s, p) IN
           /\ t \in State /\ FreeKickOutcome(s, t, p) /\ t.taker \in {p, NoOne}
<1> DEFINE t == FreeKickTouch(s, p)
<1>1. CASE s.mode.kind = "GoalKick" /\ Side(p) # s.mode.side
  <2>1. t = RetakeGoalKick(s)
    BY <1>1 DEF FreeKickTouch
  <2> QED  BY <1>1, <2>1, RetakeResult DEF FreeKickOutcome
<1>2. CASE ~ (s.mode.kind = "GoalKick" /\ Side(p) # s.mode.side) /\ s.taker # NoOne
  <2>1. t = TakerAgain(s, p)
    BY <1>2 DEF FreeKickTouch
  <2> QED  BY <2>1, AgainResult
<1>3. CASE ~ (s.mode.kind = "GoalKick" /\ Side(p) # s.mode.side) /\ s.taker = NoOne
  <2>1. t = s
    BY <1>3 DEF FreeKickTouch
  <2> QED  BY <1>3, <2>1, SameIsSame DEF FreeKickOutcome
<1> QED  BY <1>1, <1>2, <1>3

LEMMA PowerTyped ==
    ASSUME NEW s \in State, NEW k \in Players \cup {NoOne}, NEW x \in Sides \cup {Neutral},
           NEW y \in {"none", "soft", "hard"}
    PROVE  [s EXCEPT !.indKicker = k, !.touch = x, !.strength = y] \in State
BY ZenonT(60) DEF State

\* TouchRef: an indirect kick remains indirect as long as the player that took it
\* is the only one to play the ball.
LEMMA TouchResult ==
    ASSUME NEW s \in State, NEW p \in Players, NEW power \in {"none", "less", "most"}
    PROVE  LET t == TouchTouch(s, p, power) IN
           /\ t \in State /\ ButTouch(s, t)
           /\ s.mode.kind # "AfterGoal" =>
                /\ t.indirect <=> (s.indirect /\ (s.mode # PlayOn \/ s.indKicker \in {NoOne, p}))
                /\ t.indKicker = (IF t.indirect THEN p ELSE NoOne)
                /\ t.touch = (IF s.strength # "hard" \/ power = "most" THEN Side(p) ELSE s.touch)
                /\ t.strength = (IF ~ (s.strength # "hard" \/ power = "most") THEN s.strength
                                 ELSE IF power = "none" THEN "soft" ELSE "hard")
<1> DEFINE second == s.mode = PlayOn /\ s.indKicker \notin {NoOne, p}
           counts == s.strength # "hard" \/ power = "most"
           i == s.indirect /\ ~ second
           k == IF i THEN p ELSE NoOne
           x == IF counts THEN Side(p) ELSE s.touch
           y == IF ~ counts THEN s.strength ELSE IF power = "none" THEN "soft" ELSE "hard"
           u == [s EXCEPT !.indirect = i]
           t == [u EXCEPT !.indKicker = k, !.touch = x, !.strength = y]
<1>1. CASE s.mode.kind = "AfterGoal"
  <2>1. TouchTouch(s, p, power) = s
    BY <1>1 DEF TouchTouch
  <2> QED  BY <1>1, <2>1, SameIsSame
<1>2. CASE s.mode.kind # "AfterGoal"
  <2>1. i \in BOOLEAN /\ k \in Players \cup {NoOne} /\ x \in Sides \cup {Neutral}
        /\ y \in {"none", "soft", "hard"}
    BY Fields, PlayerSides
  <2>2. /\ i <=> (s.indirect /\ (s.mode # PlayOn \/ s.indKicker \in {NoOne, p}))
        /\ k = (IF i THEN p ELSE NoOne) /\ x = (IF counts THEN Side(p) ELSE s.touch)
        /\ y = (IF ~ counts THEN s.strength ELSE IF power = "none" THEN "soft" ELSE "hard")
    OBVIOUS
  <2>3. u.indirect = i /\ u.touch = s.touch /\ u.strength = s.strength /\ u.indKicker = s.indKicker
    BY DEF State
  <2>4. t = TouchTouch(s, p, power)
    BY <1>2, <2>3 DEF TouchTouch
  <2> HIDE DEF i, k, x, y
  <2>5. u \in State
    BY <2>1 DEF State
  <2>6. ButTouch(s, u)
    BY <2>1 DEF State, ButTouch, SamePlay, SameKick, SameOffside, SameKicker, SameCatch, SameDefense
  <2> HIDE DEF u
  <2>7. t \in State
    BY <2>1, <2>5, PowerTyped
  <2>8. ButTouch(u, t) /\ t.indirect = u.indirect /\ t.indKicker = k /\ t.touch = x /\ t.strength = y
    BY <2>5 DEF State, ButTouch, SamePlay, SameKick, SameOffside, SameKicker, SameCatch, SameDefense
  <2> HIDE DEF t
  <2>9. ButTouch(s, t)
    BY <2>6, <2>8 DEF ButTouch, SamePlay, SameKick, SameOffside, SameKicker, SameCatch, SameDefense
  <2> QED  BY <2>2, <2>3, <2>4, <2>7, <2>8, <2>9
<1> QED  BY <1>1, <1>2

LEMMA PassersTyped ==
    ASSUME NEW s \in State, NEW z \in SUBSET Sides, NEW a \in Players \cup {NoOne},
           NEW b \in Players \cup {NoOne}
    PROVE  [s EXCEPT !.touched = z, !.passer = a, !.passer2 = b] \in State
<1>1. ASSUME NEW r \in State PROVE [r EXCEPT !.touched = z] \in State
  BY DEF State
<1>2. ASSUME NEW r \in State PROVE [r EXCEPT !.passer = a] \in State
  BY DEF State
<1>3. ASSUME NEW r \in State PROVE [r EXCEPT !.passer2 = b] \in State
  BY DEF State
<1>4. [[[s EXCEPT !.touched = z] EXCEPT !.passer = a] EXCEPT !.passer2 = b] \in State
  BY <1>1, <1>2, <1>3, Zenon
<1> QED  BY <1>4

LEMMA CatchTouchResult ==
    ASSUME NEW s \in State, NEW p \in Players
    PROVE  LET t == CatchTouch(s, p) IN t \in State /\ ButCatch(s, t)
<1> DEFINE both == s.touched \cup {Side(p)} = Sides
           z == s.touched \cup {Side(p)}
           a == IF both THEN NoOne ELSE s.passer
           b == IF both THEN NoOne ELSE s.passer2
           t == [s EXCEPT !.touched = z, !.passer = a, !.passer2 = b]
<1>1. z \in SUBSET Sides /\ a \in Players \cup {NoOne} /\ b \in Players \cup {NoOne}
  BY Fields, PlayerSides
<1>2. t = CatchTouch(s, p)
  BY DEF CatchTouch
<1> HIDE DEF z, a, b
<1>3. t \in State
  BY <1>1, PassersTyped
<1>4. ButCatch(s, t)
  BY DEF State, ButCatch, SamePlay, SameKick, SameOffside, SameKicker, SameTouch, SameDefense
<1> QED  BY <1>2, <1>3, <1>4

LEMMA CatchKickResult ==
    ASSUME NEW s \in State, NEW p \in Players
    PROVE  LET t == CatchKick(s, p) IN t \in State /\ ButCatch(s, t)
<1> DEFINE u == CatchTouch(s, p)
           b == IF u.passer = p THEN u.passer2 ELSE u.passer
           t == [u EXCEPT !.passNow = TRUE, !.passer2 = b, !.passer = p]
<1>1. u \in State /\ ButCatch(s, u)
  BY CatchTouchResult
<1>2. b \in Players \cup {NoOne} /\ p \in Players \cup {NoOne}
  BY <1>1, Fields
<1>3. CatchKick(s, p) = IF u.touched = Sides THEN u ELSE t
  BY DEF CatchKick
<1> HIDE DEF u, b
<1>4. t \in State
  BY <1>1, <1>2, ZenonT(60) DEF State
<1>5. ButCatch(u, t)
  BY <1>1 DEF State, ButCatch, SamePlay, SameKick, SameOffside, SameKicker, SameTouch, SameDefense
<1> HIDE DEF t
<1>6. ButCatch(s, t)
  BY <1>1, <1>5 DEF ButCatch, SamePlay, SameKick, SameOffside, SameKicker, SameTouch, SameDefense
<1> QED  BY <1>1, <1>3, <1>4, <1>6

LEMMA DefenseKickResult ==
    ASSUME NEW s \in State, NEW p \in Players
    PROVE  LET t == IllegalDefenseKick(s, p) IN t \in State /\ ButDefense(s, t)
<1> DEFINE u == [s EXCEPT !.attacker = Neutral]
           t == [s EXCEPT !.attackNow = TRUE, !.attacker = Side(p)]
<1>1. Side(p) \in Sides \cup {Neutral} /\ Neutral \in Sides \cup {Neutral}
  BY PlayerSides
<1>2. u \in State
  BY <1>1 DEF State
<1>3. t \in State
  BY <1>1 DEF State
<1>4. ButDefense(s, u)
  BY DEF State, ButDefense, SamePlay, SameKick, SameOffside, SameKicker, SameTouch, SameCatch
<1>5. ButDefense(s, t)
  BY DEF State, ButDefense, SamePlay, SameKick, SameOffside, SameKicker, SameTouch, SameCatch
<1>6. IllegalDefenseKick(s, p) \in {s, u, t}
  BY DEF IllegalDefenseKick
<1> HIDE DEF u, t
<1> QED  BY <1>2, <1>3, <1>4, <1>5, <1>6, SameIsSame

------------------------------------------------------------------------------
(* The events in which p plays the ball.                                    *)

\* An indirect kick that was taken by p, or by nobody yet, remains indirect.
IndirectAfter(s, t, p) ==
    s.mode.kind # "AfterGoal" =>
        /\ t.indirect <=> (s.indirect /\ (t.mode # PlayOn \/ s.indKicker \in {NoOne, p}))
        /\ t.indKicker = (IF t.indirect THEN p ELSE NoOne)

Placed(t) == ~ t.moving /\ t.catcher = NoOne

\* What a play of the ball may lead to: the mode remains, a goal kick is taken
\* again, offside or a fault is called, ...
PlayOutcome(s, t, p) ==
    \/ /\ SamePlay(s, t) /\ t.timer = s.timer /\ IndirectAfter(s, t, p)
       /\ t.taker # NoOne => s.mode = PlayOn \/ s.mode.kind = "GoalKick" \/ s.taker = t.taker
    \/ s.mode.kind = "GoalKick" /\ t.mode = s.mode /\ Placed(t)
    \/ t.kicker \in Sides /\ t.mode = PM("OffSide", t.kicker) /\ Placed(t) /\ t.taker = NoOne
    \/ s.taker = p /\ t.mode = PM("Free_Kick_Fault", Side(p)) /\ Placed(t)

\* ... or the ball is put in play.
InPlayOutcome(s, t, p) ==
    /\ s.mode.kind \notin {"GoalKick", "OffSide", "PlayOn"}
    /\ t.mode = PlayOn /\ t.moving = s.moving /\ t.catcher \in {s.catcher, NoOne}
    /\ t.timer = -1 /\ IndirectAfter(s, t, p)

OffsideOutcome(s, a) ==
    \/ ButOffside(s, a)
    \/ a.kicker \in Sides /\ CalledAs(s, a, PM("OffSide", a.kicker)) /\ a.taker = NoOne

LEMMA RefereesInTurn ==
    ASSUME NEW s \in State, NEW a \in State, NEW b \in State, NEW t \in State,
           NEW p \in Players,
           OffsideOutcome(s, a), FreeKickOutcome(a, b, p) \/ PutsInPlay(a, b),
           b.taker \in {p, NoOne} \/ (a.mode.kind = "OffSide" /\ b = a),
           SamePlay(b, t), SameKick(b, t), SameOffside(b, t), IndirectAfter(b, t, p),
           s.mode.kind = "OffSide" => s.taker = NoOne
    PROVE  /\ t.taker \in {p, NoOne} /\ t.kicker = a.kicker
           /\ PlayOutcome(s, t, p) \/ InPlayOutcome(s, t, p)
           /\ FreeKickOutcome(a, b, p) => PlayOutcome(s, t, p)
<1>1. t.mode = b.mode /\ t.moving = b.moving /\ t.catcher = b.catcher
      /\ t.taker = b.taker /\ t.timer = b.timer /\ t.kicker = b.kicker
  BY DEF SamePlay, SameKick, SameOffside, SameKicker
<1>2. CASE ButOffside(s, a)
  <2>1. /\ a.mode = s.mode /\ a.moving = s.moving /\ a.catcher = s.catcher
        /\ a.taker = s.taker /\ a.timer = s.timer
        /\ a.indirect = s.indirect /\ a.indKicker = s.indKicker
    BY <1>2 DEF ButOffside, SamePlay, SameKick, SameTouch
  <2>2. t.taker \in {p, NoOne}
    BY <1>1, <2>1
  <2>3. CASE /\ ButTaker(a, b)
             /\ b.taker # NoOne => a.mode = PlayOn \/ a.mode.kind = "GoalKick" \/ a.taker = b.taker
    <3>1. /\ b.mode = s.mode /\ b.moving = s.moving /\ b.catcher = s.catcher
          /\ b.timer = s.timer /\ b.kicker = a.kicker
          /\ b.indirect = s.indirect /\ b.indKicker = s.indKicker
      BY <2>1, <2>3 DEF ButTaker, SamePlay, SameOffside, SameKicker, SameTouch
    <3>2. IndirectAfter(s, t, p)
      BY <1>1, <3>1 DEF IndirectAfter
    <3> QED  BY <1>1, <2>1, <2>2, <2>3, <3>1, <3>2 DEF PlayOutcome, SamePlay
  <2>4. CASE a.mode.kind = "GoalKick" /\ CalledAs(a, b, a.mode) /\ SameKicker(a, b)
    BY <1>1, <2>1, <2>2, <2>4 DEF PlayOutcome, CalledAs, ChangedTo, SameKicker, Placed
  <2>5. CASE /\ a.taker = p /\ CalledAs(a, b, PM("Free_Kick_Fault", Side(p)))
             /\ SameKicker(a, b)
    BY <1>1, <2>1, <2>2, <2>5 DEF PlayOutcome, CalledAs, ChangedTo, SameKicker, Placed
  <2>6. CASE PutsInPlay(a, b)
    <3>1. /\ b.mode = PlayOn /\ b.moving = s.moving /\ b.catcher \in {s.catcher, NoOne}
          /\ b.timer = -1 /\ b.kicker = a.kicker
          /\ b.indirect = s.indirect /\ b.indKicker = s.indKicker
          /\ s.mode.kind \notin {"GoalKick", "OffSide", "PlayOn"}
      BY <2>1, <2>6 DEF PutsInPlay, SameOffside, SameKicker, SameTouch
    <3>2. IndirectAfter(s, t, p)
      BY <1>1, <3>1, NeutralModes DEF IndirectAfter
    <3>3. InPlayOutcome(s, t, p)
      BY <1>1, <3>1, <3>2 DEF InPlayOutcome
    <3>4. ~ FreeKickOutcome(a, b, p)
      <4>1. b.mode # a.mode
        BY <2>1, <3>1, NeutralModes
      <4>2. b.mode # PM("Free_Kick_Fault", Side(p))
        BY <3>1, FaultKind, NeutralModes
      <4> QED  BY <4>1, <4>2 DEF FreeKickOutcome, ButTaker, SamePlay, CalledAs, ChangedTo
    <3> QED  BY <1>1, <2>2, <3>1, <3>3, <3>4
  <2> QED  BY <2>3, <2>4, <2>5, <2>6 DEF FreeKickOutcome
<1>3. CASE a.kicker \in Sides /\ CalledAs(s, a, PM("OffSide", a.kicker)) /\ a.taker = NoOne
  <2>1. a.mode = PM("OffSide", a.kicker) /\ a.mode.kind = "OffSide" /\ Placed(a)
    BY <1>3, SidedMode DEF CalledAs, ChangedTo, Placed, SidedKinds, FaultKinds
  <2>2. ~ PutsInPlay(a, b)
    BY <2>1 DEF PutsInPlay
  <2>3. ButTaker(a, b) /\ (b.taker # NoOne => a.mode = PlayOn \/ b.taker = a.taker)
    BY <1>3, <2>1, <2>2, PlayerSides DEF FreeKickOutcome
  <2>4. b.mode = a.mode /\ Placed(b) /\ b.kicker = a.kicker
    BY <2>1, <2>3 DEF ButTaker, SamePlay, SameOffside, SameKicker, Placed
  <2>5. b.taker = NoOne
    BY <1>3, <2>1, <2>3, NeutralModes
  <2> QED  BY <1>1, <1>3, <2>1, <2>4, <2>5 DEF PlayOutcome, Placed
<1> QED  BY <1>2, <1>3 DEF OffsideOutcome

\* The ball touches p.
LEMMA TouchedOutcome ==
    ASSUME NEW s \in State, NEW p \in Players, NEW marked \in SUBSET Players,
           s.mode.kind = "OffSide" => s.taker = NoOne
    PROVE  LET t == ballTouched(s, p, marked) IN
           /\ t \in State /\ t.taker \in {p, NoOne} /\ t.kicker \in {s.kicker, Neutral}
           /\ \E u \in State : /\ PlayOutcome(s, u, p) /\ t.mode = u.mode
                               /\ t.moving = (u.moving \/ t.mode = PlayOn)
                               /\ t.catcher = u.catcher /\ SameKick(u, t)
                               /\ SameOffside(u, t) /\ SameTouch(u, t)
<1> DEFINE a == setOffsideMark(s, p, FALSE, marked)
           b == FreeKickTouch(a, p)
           c == TouchTouch(b, p, "none")
           u == CatchTouch(c, p)
           t == [u EXCEPT !.moving = u.moving \/ u.mode = PlayOn]
<1>1. a \in State /\ OffsideOutcome(s, a) /\ a.kicker \in {s.kicker, Neutral}
  BY OffsideMark DEF OffsideOutcome
<1> HIDE DEF a
<1>2. b \in State /\ FreeKickOutcome(a, b, p) /\ b.taker \in {p, NoOne}
  BY <1>1, TouchedResult
<1> HIDE DEF b
<1>3. c \in State /\ ButTouch(b, c) /\ IndirectAfter(b, c, p)
  <2>1. c \in State /\ ButTouch(b, c)
        /\ (b.mode.kind # "AfterGoal" =>
             /\ c.indirect <=> (b.indirect /\ (b.mode # PlayOn \/ b.indKicker \in {NoOne, p}))
             /\ c.indKicker = (IF c.indirect THEN p ELSE NoOne))
    BY <1>2, TouchResult
  <2> QED  BY <2>1 DEF IndirectAfter, ButTouch, SamePlay
<1> HIDE DEF c
<1>4. u \in State /\ ButCatch(c, u)
  BY <1>3, CatchTouchResult
<1> HIDE DEF u
<1>5. SamePlay(b, u) /\ SameKick(b, u) /\ SameOffside(b, u) /\ IndirectAfter(b, u, p)
  BY <1>3, <1>4 DEF ButTouch, ButCatch, SamePlay, SameKick, SameOffside, SameKicker, SameTouch,
      IndirectAfter
<1>6. u.taker \in {p, NoOne} /\ u.kicker = a.kicker /\ PlayOutcome(s, u, p)
  BY <1>1, <1>2, <1>4, <1>5, RefereesInTurn
<1>7. (u.moving \/ u.mode = PlayOn) \in BOOLEAN
  BY <1>4, Fields
<1>8. /\ t \in State /\ t.mode = u.mode /\ t.moving = (u.moving \/ u.mode = PlayOn)
      /\ t.catcher = u.catcher /\ SameKick(u, t) /\ SameOffside(u, t) /\ SameTouch(u, t)
  BY <1>4, <1>7, MoveUpdate
<1>9. t = ballTouched(s, p, marked)
  BY DEF ballTouched, a, b, c, u
<1> HIDE DEF t
<1>10. t.taker \in {p, NoOne} /\ t.kicker \in {s.kicker, Neutral}
  BY <1>1, <1>6, <1>8 DEF SameKick, SameOffside, SameKicker
<1> QED  BY <1>4, <1>6, <1>8, <1>9, <1>10

\* p kicks or tackles the ball.
LEMMA KickedOutcome ==
    ASSUME NEW s \in State, NEW p \in Players, NEW marked \in SUBSET Players,
           NEW power \in {"none", "less", "most"},
           s.mode.kind = "OffSide" => s.taker = NoOne
    PROVE  LET t == kickTaken(s, p, power, marked) IN
           /\ t \in State /\ t.taker \in {p, NoOne}
           /\ t.mode.kind \in {"GoalKick", "OffSide", "PlayOn", "Free_Kick_Fault"}
           /\ \E u \in State : /\ u.mode = s.mode /\ u.catcher = NoOne /\ SameKick(s, u)
                               /\ SameOffside(s, u) /\ SameTouch(s, u)
                               /\ PlayOutcome(u, t, p) \/ InPlayOutcome(u, t, p)
<1> DEFINE m == s.moving \/ power # "none"
           r == [s EXCEPT !.catcher = NoOne]
           u == [r EXCEPT !.moving = m]
           hard == (power = "most")
           a == setOffsideMark(u, p, hard, marked)
           b == FreeKickKick(a, p)
           c == TouchTouch(b, p, power)
           d == CatchKick(c, p)
           t == IllegalDefenseKick(d, p)
<1>0. m \in BOOLEAN /\ hard \in BOOLEAN
  BY Fields
<1>1. r \in State /\ r.mode = s.mode /\ r.catcher = NoOne /\ r.moving = s.moving /\ SameKick(s, r)
      /\ SameOffside(s, r) /\ SameTouch(s, r)
  BY HoldUpdate
<1>2. u = [s EXCEPT !.catcher = NoOne, !.moving = @ \/ power # "none"]
  BY <1>1
<1>3. t = kickTaken(s, p, power, marked)
  BY <1>2 DEF kickTaken
<1> HIDE DEF r, m
<1>4. u \in State /\ u.mode = r.mode /\ u.catcher = r.catcher /\ SameKick(r, u)
      /\ SameOffside(r, u) /\ SameTouch(r, u)
  BY <1>0, <1>1, MoveUpdate
<1> HIDE DEF u
<1>5. u \in State /\ u.mode = s.mode /\ u.catcher = NoOne /\ SameKick(s, u)
      /\ SameOffside(s, u) /\ SameTouch(s, u)
  BY <1>1, <1>4 DEF SameKick, SameOffside, SameKicker, SameTouch
<1> HIDE DEF hard
<1>6. a \in State /\ OffsideOutcome(u, a)
  BY <1>0, <1>5, OffsideMark DEF OffsideOutcome
<1> HIDE DEF a
<1>7. /\ b \in State /\ (FreeKickOutcome(a, b, p) \/ PutsInPlay(a, b))
      /\ b.taker \in {p, NoOne} \/ (a.mode.kind = "OffSide" /\ b = a)
      /\ b.mode.kind \in {"GoalKick", "OffSide", "PlayOn", "Free_Kick_Fault"}
  BY <1>6, KickResult
<1> HIDE DEF b
<1>8. c \in State /\ ButTouch(b, c) /\ IndirectAfter(b, c, p)
  <2>1. c \in State /\ ButTouch(b, c)
        /\ (b.mode.kind # "AfterGoal" =>
             /\ c.indirect <=> (b.indirect /\ (b.mode # PlayOn \/ b.indKicker \in {NoOne, p}))
             /\ c.indKicker = (IF c.indirect THEN p ELSE NoOne))
    BY <1>7, TouchResult
  <2> QED  BY <2>1 DEF IndirectAfter, ButTouch, SamePlay
<1> HIDE DEF c
<1>9. d \in State /\ ButCatch(c, d)
  BY <1>8, CatchKickResult
<1> HIDE DEF d
<1>10. t \in State /\ ButDefense(d, t)
  BY <1>9, DefenseKickResult
<1> HIDE DEF t
<1>11. SamePlay(b, t) /\ SameKick(b, t) /\ SameOffside(b, t) /\ IndirectAfter(b, t, p)
  BY <1>8, <1>9, <1>10 DEF ButTouch, ButCatch, ButDefense, SamePlay, SameKick, SameOffside,
      SameKicker, SameTouch, IndirectAfter
<1>12. u.mode.kind = "OffSide" => u.taker = NoOne
  BY <1>5 DEF SameKick
<1>13. t.taker \in {p, NoOne} /\ (PlayOutcome(u, t, p) \/ InPlayOutcome(u, t, p))
  BY <1>5, <1>6, <1>7, <1>10, <1>11, <1>12, RefereesInTurn
<1>14. t.mode.kind \in {"GoalKick", "OffSide", "PlayOn", "Free_Kick_Fault"}
  BY <1>7, <1>11 DEF SamePlay
<1> QED  BY <1>3, <1>5, <1>10, <1>13, <1>14

------------------------------------------------------------------------------
(* The core of the inductive invariant, on the state of the referees.       *)

\* A goalie holds the ball only in its free kick, or after a goal.
Held(s) ==
    s.catcher # NoOne =>
        s.mode = PM("FreeKick", Side(s.catcher)) \/ s.mode.kind = "AfterGoal"

\* The ball moves only in play, or in a goal kick.
Rolls(s) == s.moving => s.mode.kind \in {"PlayOn", "GoalKick"}

\* A kick is remembered until the mode changes.  (A fault in a goal kick is
\* called before its taker is recorded anew.)
Taken(s) ==
    s.taker # NoOne =>
        \/ s.mode = PlayOn \/ s.mode.kind = "GoalKick"
        \/ s.mode = PM("Free_Kick_Fault", Side(s.taker))

\* OffsideRef does not change its mind while the ball is placed.
OneOffender(s) == s.mode.kind = "OffSide" => s.kicker \in {s.mode.side, Neutral}

Core(s) == Held(s) /\ Rolls(s) /\ Taken(s) /\ OneOffender(s)

ModeMoves(m, n) == n = m \/ n \in MovesOf(m)

\* The timer of the waiting kick.
TimerAfter(s, t) ==
    t.mode.kind \in FreeKickKinds => t.timer = (IF t.mode = s.mode THEN s.timer ELSE DropTime)

\* As long as p alone plays the ball, an indirect kick is indirect.
Indirect(pm) == pm.kind \in {"IndFreeKick", "PlayOn"}
IndirectKept(s, t, p) ==
    Indirect(s.mode) /\ Indirect(t.mode) /\ s.indirect /\ s.indKicker \in {NoOne, p} =>
        t.indirect /\ t.indKicker = p

\* A play of p is a fault only if p took the kick, and is never a goal.
FaultOf(s, t, p) ==
    /\ t.mode.kind = "Free_Kick_Fault" /\ s.mode.kind # "Free_Kick_Fault" => s.taker = p
    /\ t.mode.kind = "AfterGoal" => s.mode.kind = "AfterGoal"

\* What every play of the ball by p preserves and obeys.
Sound(s, t, p) ==
    /\ t \in State /\ Core(t) /\ t.taker \in {p, NoOne} /\ ModeMoves(s.mode, t.mode)
    /\ TimerAfter(s, t) /\ IndirectKept(s, t, p) /\ FaultOf(s, t, p)

LEMMA OffsideMoves ==
    ASSUME NEW pm \in PlayMode, pm.kind # "OffSide", NEW x \in Sides
    PROVE  PM("OffSide", x) \in MovesOf(pm)
BY DEF MovesOf, FieldCalls, FaultKinds, If

LEMMA LiveMoves ==
    ASSUME NEW pm \in PlayMode, IsLive(pm)
    PROVE  /\ MovesOf(pm) = FieldCalls \cup {PlayOn, BeforeKickOff}
                              \cup {PM("AfterGoal", x) : x \in Sides}
           /\ \A x \in Sides : \A k \in {"FreeKick", "KickIn", "CornerKick", "GoalKick"}
                                          \cup (FaultKinds \ {"Foul_Push"}) :
                 PM(k, x) \in MovesOf(pm)
<1>1. pm # BeforeKickOff
  BY NeutralModes DEF IsLive, RestartKinds, FreeKickKinds
<1> QED  BY <1>1 DEF MovesOf, FieldCalls

\* The kinds of the modes that the referees call.
LEMMA CallKinds ==
    ASSUME NEW k \in FaultKinds \cup RestartKinds \cup {"AfterGoal"}, NEW x \in Sides
    PROVE  /\ PM(k, x) \in PlayMode /\ PM(k, x).kind = k /\ PM(k, x).side = x
           /\ PM(k, x) # PlayOn /\ ~ KeepsIndirect(PM(k, x))
BY SidedMode DEF SidedKinds

LEMMA OffsideTaker ==
    ASSUME NEW s \in State, Core(s), s.mode.kind = "OffSide"
    PROVE  s.taker = NoOne
<1>1. s.taker \in Players => PM("Free_Kick_Fault", Side(s.taker)).kind = "Free_Kick_Fault"
  BY FaultKind
<1> QED  BY <1>1, Fields, NeutralModes DEF Core, Taken

LEMMA TouchSound ==
    ASSUME NEW s \in State, Core(s), NEW p \in Players, NEW marked \in SUBSET Players
    PROVE  Sound(s, ballTouched(s, p, marked), p)
<1> DEFINE t == ballTouched(s, p, marked)
<1> SUFFICES Sound(s, t, p)
  OBVIOUS
<1>0. s.mode.kind = "OffSide" => s.taker = NoOne
  BY OffsideTaker
<1>1. /\ t \in State /\ t.taker \in {p, NoOne} /\ t.kicker \in {s.kicker, Neutral}
      /\ \E u \in State : /\ PlayOutcome(s, u, p) /\ t.mode = u.mode
                          /\ t.moving = (u.moving \/ t.mode = PlayOn)
                          /\ t.catcher = u.catcher /\ SameKick(u, t)
                          /\ SameOffside(u, t) /\ SameTouch(u, t)
  BY <1>0, TouchedOutcome
<1> HIDE DEF t
<1>2. PICK u \in State : /\ PlayOutcome(s, u, p) /\ t.mode = u.mode
                         /\ t.moving = (u.moving \/ t.mode = PlayOn)
                         /\ t.catcher = u.catcher /\ SameKick(u, t)
                         /\ SameOffside(u, t) /\ SameTouch(u, t)
  BY <1>1
<1>3. /\ t.taker = u.taker /\ t.timer = u.timer /\ t.kicker = u.kicker
      /\ t.indirect = u.indirect /\ t.indKicker = u.indKicker
      /\ t.mode \in PlayMode /\ s.mode \in PlayMode
      /\ u.moving \in BOOLEAN /\ t.moving \in BOOLEAN
  BY <1>1, <1>2, Fields DEF SameKick, SameOffside, SameKicker, SameTouch
<1>4. CASE /\ SamePlay(s, u) /\ u.timer = s.timer /\ IndirectAfter(s, u, p)
           /\ u.taker # NoOne => s.mode = PlayOn \/ s.mode.kind = "GoalKick" \/ s.taker = u.taker
  <2>1. t.mode = s.mode /\ t.catcher = s.catcher /\ t.timer = s.timer /\ u.moving = s.moving
    BY <1>2, <1>3, <1>4 DEF SamePlay
  <2>2. Held(t) /\ Rolls(t)
    BY <1>2, <2>1, NeutralModes DEF Core, Held, Rolls
  <2>3. Taken(t) /\ OneOffender(t)
    BY <1>1, <1>3, <1>4, <2>1 DEF Core, Taken, OneOffender
  <2>4. IndirectKept(s, t, p)
    BY <1>2, <1>3, <1>4 DEF IndirectKept, Indirect, IndirectAfter
  <2>5. TimerAfter(s, t) /\ FaultOf(s, t, p) /\ ModeMoves(s.mode, t.mode)
    BY <2>1 DEF TimerAfter, FaultOf, ModeMoves
  <2> QED  BY <1>1, <2>2, <2>3, <2>4, <2>5 DEF Sound, Core
<1>5. CASE s.mode.kind = "GoalKick" /\ u.mode = s.mode /\ Placed(u)
  <2>1. t.mode = s.mode /\ t.mode.kind = "GoalKick" /\ t.mode # PlayOn /\ t.catcher = NoOne
    BY <1>2, <1>5, NeutralModes DEF Placed
  <2>2. Core(t)
    BY <2>1 DEF Core, Held, Rolls, Taken, OneOffender
  <2>3. /\ ModeMoves(s.mode, t.mode) /\ TimerAfter(s, t) /\ IndirectKept(s, t, p)
        /\ FaultOf(s, t, p)
    BY <2>1 DEF ModeMoves, TimerAfter, IndirectKept, Indirect, FaultOf, FreeKickKinds
  <2> QED  BY <1>1, <2>2, <2>3 DEF Sound
<1>6. CASE /\ u.kicker \in Sides /\ u.mode = PM("OffSide", u.kicker) /\ Placed(u)
           /\ u.taker = NoOne
  <2>1. /\ t.mode = PM("OffSide", t.kicker) /\ t.mode.kind = "OffSide" /\ t.mode # PlayOn
        /\ t.mode.side = t.kicker /\ t.catcher = NoOne /\ ~ t.moving /\ t.taker = NoOne
        /\ t.kicker = s.kicker /\ t.kicker \in Sides
    BY <1>1, <1>2, <1>3, <1>6, CallKinds, Opponents DEF Placed, FaultKinds
  <2>2. Core(t)
    BY <2>1 DEF Core, Held, Rolls, Taken, OneOffender
  <2>3. TimerAfter(s, t) /\ IndirectKept(s, t, p) /\ FaultOf(s, t, p)
    BY <2>1 DEF TimerAfter, IndirectKept, Indirect, FaultOf, FreeKickKinds
  <2>4. CASE s.mode.kind # "OffSide"
    BY <1>1, <1>3, <2>1, <2>2, <2>3, <2>4, OffsideMoves DEF ModeMoves, Sound
  <2>5. CASE s.mode.kind = "OffSide"
    <3>1. s.kicker = s.mode.side
      BY <2>1, <2>5, Opponents DEF Core, OneOffender
    <3>2. t.mode = s.mode
      BY <1>3, <2>1, <2>5, <3>1, ModeFields
    <3> QED  BY <1>1, <2>2, <2>3, <3>2 DEF ModeMoves, Sound
  <2> QED  BY <2>4, <2>5
<1>7. CASE s.taker = p /\ u.mode = PM("Free_Kick_Fault", Side(p)) /\ Placed(u)
  <2>0. Side(p) \in Sides
    BY PlayerSides
  <2>1. /\ t.mode = PM("Free_Kick_Fault", Side(p)) /\ t.mode.kind = "Free_Kick_Fault"
        /\ t.mode # PlayOn /\ t.catcher = NoOne /\ ~ t.moving
    BY <1>2, <1>3, <1>7, <2>0, CallKinds DEF Placed, FaultKinds
  <2>2. Core(t)
    BY <1>1, <2>1 DEF Core, Held, Rolls, Taken, OneOffender
  <2>3. TimerAfter(s, t) /\ IndirectKept(s, t, p) /\ FaultOf(s, t, p)
    BY <1>7, <2>1 DEF TimerAfter, IndirectKept, Indirect, FaultOf, FreeKickKinds
  <2>4. \/ IsLive(s.mode) \/ s.mode = t.mode
    BY <1>7, <2>1, PlayerSides, NeutralModes DEF Core, Taken, IsLive, RestartKinds
  <2>5. ModeMoves(s.mode, t.mode)
    BY <1>3, <2>0, <2>1, <2>4, LiveMoves DEF ModeMoves, FaultKinds
  <2> QED  BY <1>1, <2>2, <2>3, <2>5 DEF Sound
<1> QED  BY <1>2, <1>4, <1>5, <1>6, <1>7 DEF PlayOutcome

LEMMA KickSound ==
    ASSUME NEW s \in State, Core(s), NEW p \in Players, NEW marked \in SUBSET Players,
           NEW power \in {"none", "less", "most"},
           IsLive(s.mode) \/ s.mode.kind = "CatchFault"
    PROVE  Sound(s, kickTaken(s, p, power, marked), p)
<1> DEFINE t == kickTaken(s, p, power, marked)
<1> SUFFICES Sound(s, t, p)
  OBVIOUS
<1>0. s.mode.kind = "OffSide" => s.taker = NoOne
  BY OffsideTaker
<1>1. /\ t \in State /\ t.taker \in {p, NoOne}
      /\ t.mode.kind \in {"GoalKick", "OffSide", "PlayOn", "Free_Kick_Fault"}
      /\ \E u \in State : /\ u.mode = s.mode /\ u.catcher = NoOne /\ SameKick(s, u)
                          /\ SameOffside(s, u) /\ SameTouch(s, u)
                          /\ PlayOutcome(u, t, p) \/ InPlayOutcome(u, t, p)
  BY <1>0, KickedOutcome
<1> HIDE DEF t
<1>2. PICK u \in State : /\ u.mode = s.mode /\ u.catcher = NoOne /\ SameKick(s, u)
                         /\ SameOffside(s, u) /\ SameTouch(s, u)
                         /\ PlayOutcome(u, t, p) \/ InPlayOutcome(u, t, p)
  BY <1>1
<1>3. /\ u.taker = s.taker /\ u.indirect = s.indirect /\ u.indKicker = s.indKicker
      /\ t.mode \in PlayMode /\ s.mode \in PlayMode
      /\ s.mode.kind \notin {"OffSide", "Free_Kick_Fault", "AfterGoal"}
  BY <1>1, <1>2, Fields DEF SameKick, SameTouch, IsLive, RestartKinds, FreeKickKinds
<1>4. TimerAfter(s, t)
  BY <1>1 DEF TimerAfter, FreeKickKinds
<1>5. CASE /\ SamePlay(u, t) /\ t.timer = u.timer /\ IndirectAfter(u, t, p)
           /\ t.taker # NoOne => u.mode = PlayOn \/ u.mode.kind = "GoalKick" \/ u.taker = t.taker
  <2>1. t.mode = s.mode /\ t.catcher = NoOne /\ t.mode.kind \in {"GoalKick", "PlayOn"}
    BY <1>1, <1>2, <1>3, <1>5 DEF SamePlay
  <2>2. Core(t)
    BY <1>3, <2>1, ModeFields DEF Core, Held, Rolls, Taken, OneOffender
  <2>3. IndirectKept(s, t, p) /\ FaultOf(s, t, p) /\ ModeMoves(s.mode, t.mode)
    BY <1>2, <1>3, <1>5, <2>1 DEF IndirectKept, Indirect, IndirectAfter, FaultOf, ModeMoves
  <2> QED  BY <1>1, <1>4, <2>2, <2>3 DEF Sound
<1>6. CASE u.mode.kind = "GoalKick" /\ t.mode = u.mode /\ Placed(t)
  <2>1. Core(t)
    BY <1>2, <1>6 DEF Core, Held, Rolls, Taken, OneOffender, Placed
  <2>2. IndirectKept(s, t, p) /\ FaultOf(s, t, p) /\ ModeMoves(s.mode, t.mode)
    BY <1>2, <1>6 DEF IndirectKept, Indirect, FaultOf, ModeMoves
  <2> QED  BY <1>1, <1>4, <2>1, <2>2 DEF Sound
<1>7. CASE /\ t.kicker \in Sides /\ t.mode = PM("OffSide", t.kicker) /\ Placed(t)
           /\ t.taker = NoOne
  <2>1. t.mode.kind = "OffSide" /\ t.mode.side = t.kicker
    BY <1>7, CallKinds DEF FaultKinds
  <2>2. Core(t)
    BY <1>7, <2>1 DEF Core, Held, Rolls, Taken, OneOffender, Placed
  <2>3. IndirectKept(s, t, p) /\ FaultOf(s, t, p)
    BY <2>1 DEF IndirectKept, Indirect, FaultOf
  <2>4. ModeMoves(s.mode, t.mode)
    BY <1>3, <1>7, OffsideMoves DEF ModeMoves
  <2> QED  BY <1>1, <1>4, <2>2, <2>3, <2>4 DEF Sound
<1>8. CASE u.taker = p /\ t.mode = PM("Free_Kick_Fault", Side(p)) /\ Placed(t)
  <2>0. Side(p) \in Sides /\ p # NoOne
    BY PlayerSides
  <2>1. t.mode.kind = "Free_Kick_Fault"
    BY <1>8, FaultKind
  <2>2. Core(t)
    BY <1>1, <1>8, <2>1 DEF Core, Held, Rolls, Taken, OneOffender, Placed
  <2>3. IndirectKept(s, t, p) /\ FaultOf(s, t, p)
    BY <1>3, <1>8, <2>1 DEF IndirectKept, Indirect, FaultOf
  <2>4. IsLive(s.mode)
    BY <1>3, <1>8, <2>0, <2>1, NeutralModes DEF Core, Taken, IsLive, RestartKinds
  <2>5. ModeMoves(s.mode, t.mode)
    BY <1>3, <1>8, <2>0, <2>4, LiveMoves DEF ModeMoves, FaultKinds
  <2> QED  BY <1>1, <1>4, <2>2, <2>3, <2>5 DEF Sound
<1>9. CASE InPlayOutcome(u, t, p)
  <2>1. t.mode = PlayOn /\ t.mode.kind = "PlayOn" /\ t.catcher = NoOne
    BY <1>2, <1>9, NeutralModes DEF InPlayOutcome
  <2>2. Core(t)
    BY <2>1 DEF Core, Held, Rolls, Taken, OneOffender
  <2>3. IndirectKept(s, t, p) /\ FaultOf(s, t, p)
    BY <1>2, <1>3, <1>9, <2>1 DEF IndirectKept, Indirect, FaultOf, InPlayOutcome, IndirectAfter
  <2>4. ModeMoves(s.mode, t.mode)
    <3>1. CASE IsLive(s.mode)
      BY <1>3, <2>1, <3>1, LiveMoves DEF ModeMoves
    <3>2. CASE s.mode.kind = "CatchFault"
      BY <2>1, <3>2, NeutralModes DEF ModeMoves, MovesOf, IsLive, RestartKinds, FreeKickKinds, If
    <3> QED  BY <3>1, <3>2
  <2> QED  BY <1>1, <1>4, <2>2, <2>3, <2>4 DEF Sound
<1> QED  BY <1>2, <1>5, <1>6, <1>7, <1>8, <1>9 DEF PlayOutcome

LEMMA PasserUpdate ==
    ASSUME NEW s \in State
    PROVE  LET t == [s EXCEPT !.passer = NoOne, !.passer2 = NoOne] IN
           t \in State /\ ButCatch(s, t)
<1> DEFINE t == [s EXCEPT !.passer = NoOne, !.passer2 = NoOne]
<1>1. t \in State
  BY DEF State
<1>2. ButCatch(s, t)
  BY DEF State, ButCatch, SamePlay, SameKick, SameOffside, SameKicker, SameTouch, SameDefense
<1> QED  BY <1>1, <1>2

\* A call of an offence of side x, which overrules whatever was before.
LEMMA CallSound ==
    ASSUME NEW r \in State, NEW x \in Sides,
           NEW k \in {"Foul_Charge", "CatchFault", "Back_Pass", "CornerKick", "GoalKick",
                      "KickIn", "Illegal_Defense"}
    PROVE  LET t == Call(r, PM(k, x)) IN
           /\ t \in State /\ Core(t) /\ t.mode = PM(k, x) /\ t.mode.kind = k
           /\ t.taker = NoOne /\ Placed(t)
           /\ t.mode.kind \in RestartKinds => t.timer = DropTime
<1> DEFINE t == Call(r, PM(k, x))
<1>1. /\ PM(k, x) \in PlayMode /\ PM(k, x).kind = k /\ PM(k, x) # PlayOn
  BY CallKinds DEF FaultKinds, RestartKinds, FreeKickKinds
<1>2. CalledAs(r, t, PM(k, x)) /\ TakerAfter(r, t, PM(k, x))
  BY <1>1, CallResult
<1> HIDE DEF t
<1>3. t \in State /\ t.mode = PM(k, x) /\ t.mode.kind = k /\ t.taker = NoOne /\ Placed(t)
  BY <1>1, <1>2 DEF CalledAs, ChangedTo, TakerAfter, Placed
<1>4. Core(t)
  BY <1>3 DEF Core, Held, Rolls, Taken, OneOffender, Placed
<1>5. t.mode.kind \in RestartKinds => t.timer = DropTime
  BY <1>2, <1>3 DEF CalledAs, ChangedTo
<1> QED  BY <1>3, <1>4, <1>5 DEF t

LEMMA TackleSound ==
    ASSUME NEW s \in State, Core(s), NEW p \in Players, NEW marked \in SUBSET Players,
           NEW power \in {"none", "less", "most"}, NEW charge \in BOOLEAN,
           IsLive(s.mode) \/ s.mode.kind = "CatchFault"
    PROVE  Sound(s, tackleTaken(s, p, power, marked, charge), p)
<1> DEFINE u == kickTaken(s, p, power, marked)
           t == Call(u, PM("Foul_Charge", Side(p)))
<1>1. Sound(s, u, p)
  BY KickSound
<1>2. tackleTaken(s, p, power, marked, charge) = IF charge THEN t ELSE u
  BY DEF tackleTaken
<1>3. u \in State /\ Side(p) \in Sides /\ s.mode \in PlayMode
  BY <1>1, PlayerSides, Fields DEF Sound
<1> HIDE DEF u
<1>4. /\ t \in State /\ Core(t) /\ t.mode = PM("Foul_Charge", Side(p))
      /\ t.mode.kind = "Foul_Charge" /\ t.taker = NoOne
  BY <1>3, CallSound
<1> HIDE DEF t
<1>5. TimerAfter(s, t) /\ IndirectKept(s, t, p) /\ FaultOf(s, t, p)
  BY <1>4 DEF TimerAfter, IndirectKept, Indirect, FaultOf, FreeKickKinds
<1>6. ModeMoves(s.mode, t.mode)
  <2>1. CASE IsLive(s.mode)
    BY <1>3, <1>4, <2>1, LiveMoves DEF ModeMoves, FaultKinds
  <2>2. CASE s.mode.kind = "CatchFault"
    BY <1>3, <1>4, <2>2, NeutralModes
    DEF ModeMoves, MovesOf, IsLive, RestartKinds, FreeKickKinds, If
  <2> QED  BY <2>1, <2>2
<1>7. Sound(s, t, p)
  BY <1>4, <1>5, <1>6 DEF Sound
<1> QED  BY <1>1, <1>2, <1>7

\* The award of the free kick leaves the ball to the goalie.
LEMMA AwardResult ==
    ASSUME NEW r \in State, NEW x \in Sides
    PROVE  LET t == awardFreeKick(r, x) IN
           /\ t \in State /\ t.mode = PM("FreeKick", x) /\ t.mode.kind = "FreeKick"
           /\ t.taker = NoOne /\ ~ t.moving /\ t.timer = DropTime
           /\ t.catcher \in {r.catcher, NoOne}
<1> DEFINE t == placeBall(r, PM("FreeKick", x))
<1>1. /\ PM("FreeKick", x) \in PlayMode /\ PM("FreeKick", x).kind = "FreeKick"
      /\ PM("FreeKick", x) # PlayOn
  BY CallKinds DEF RestartKinds, FreeKickKinds
<1>2. /\ ChangedTo(r, t, PM("FreeKick", x)) /\ TakerAfter(r, t, PM("FreeKick", x))
      /\ ~ t.moving /\ t.catcher \in {r.catcher, NoOne}
  BY <1>1, PlaceResult
<1>3. t = awardFreeKick(r, x)
  BY DEF awardFreeKick
<1> HIDE DEF t
<1> QED  BY <1>1, <1>2, <1>3 DEF ChangedTo, TakerAfter, RestartKinds, FreeKickKinds

\* CatchRef's decision on a catch.
LEMMA CaughtResult ==
    ASSUME NEW u \in State, NEW p \in Goalies, NEW inside \in BOOLEAN
    PROVE  LET v == CatchCaught(u, p, inside) IN
           /\ v \in State /\ v.taker = NoOne /\ ~ v.moving
           /\ v.mode \in {PM(k, Side(p)) : k \in {"CatchFault", "Back_Pass", "FreeKick"}}
           /\ v.mode.kind \in {"CatchFault", "Back_Pass", "FreeKick"}
           /\ v.mode.kind = "FreeKick" => v.timer = DropTime
           /\ v.mode.kind # "FreeKick" => v.catcher = NoOne
<1> DEFINE v == CatchCaught(u, p, inside)
           a == Call(u, PM("CatchFault", Side(p)))
           b == Call(u, PM("Back_Pass", Side(p)))
           c == awardFreeKick(u, Side(p))
<1>0. Side(p) \in Sides
  BY PlayerSides, Constants
<1>1. v \in {a, b, c}
  BY DEF CatchCaught, callCatchFault
<1> HIDE DEF v
<1>2. CASE v = a
  <2>1. /\ a \in State /\ a.mode = PM("CatchFault", Side(p)) /\ a.mode.kind = "CatchFault"
        /\ a.taker = NoOne /\ Placed(a)
    BY <1>0, CallSound
  <2> QED  BY <1>2, <2>1 DEF Placed, v
<1>3. CASE v = b
  <2>1. /\ b \in State /\ b.mode = PM("Back_Pass", Side(p)) /\ b.mode.kind = "Back_Pass"
        /\ b.taker = NoOne /\ Placed(b)
    BY <1>0, CallSound
  <2> QED  BY <1>3, <2>1 DEF Placed, v
<1>4. CASE v = c
  BY <1>0, <1>4, AwardResult DEF v
<1> QED  BY <1>1, <1>2, <1>3, <1>4

LEMMA CatchSound ==
    ASSUME NEW s \in State, Core(s), NEW p \in Goalies, NEW marked \in SUBSET Players,
           NEW inArea \in BOOLEAN, NEW q \in Players \cup {NoOne}, s.mode = PlayOn
    PROVE  LET t == ballCaught(s, p, marked, inArea, q) IN
           Sound(s, t, p) /\ t.mode.kind \in {"CatchFault", "Back_Pass", "FreeKick"}
<1> DEFINE a == IF q = NoOne THEN s ELSE ballTouched(s, q, {})
           u == ballTouched(a, p, marked)
           called == u.mode # a.mode \/ (a.mode # s.mode /\ Side(q) = Side(p))
           inside == inArea /\ ~ called
           v == CatchCaught(u, p, inside)
           w == [v EXCEPT !.catcher = p]
           t == IF v.mode.kind = "FreeKick" THEN w ELSE v
<1>0. p \in Players /\ p \in Goalies \cup {NoOne} /\ {} \in SUBSET Players /\ Side(p) \in Sides
  BY PlayerSides, Constants
<1>1. a \in State /\ Core(a)
  BY <1>0, TouchSound DEF Sound
<1>2. t = ballCaught(s, p, marked, inArea, q)
  BY DEF ballCaught
<1> HIDE DEF a
<1>3. u \in State
  BY <1>0, <1>1, TouchSound DEF Sound
<1>4. inside \in BOOLEAN
  OBVIOUS
<1> HIDE DEF u, inside
<1>5. /\ v \in State /\ v.taker = NoOne /\ ~ v.moving
      /\ v.mode \in {PM(k, Side(p)) : k \in {"CatchFault", "Back_Pass", "FreeKick"}}
      /\ v.mode.kind \in {"CatchFault", "Back_Pass", "FreeKick"}
      /\ v.mode.kind = "FreeKick" => v.timer = DropTime
      /\ v.mode.kind # "FreeKick" => v.catcher = NoOne
  BY <1>3, <1>4, CaughtResult
<1> HIDE DEF v
<1>6. /\ w \in State /\ w.mode = v.mode /\ w.moving = v.moving /\ w.catcher = p /\ SameKick(v, w)
  BY <1>0, <1>5, HoldUpdate
<1> HIDE DEF w
<1>7. /\ t \in State /\ t.mode = v.mode /\ t.moving = v.moving /\ t.taker = NoOne
      /\ t.timer = v.timer
      /\ t.catcher = IF v.mode.kind = "FreeKick" THEN p ELSE NoOne
  BY <1>5, <1>6 DEF SameKick
<1> HIDE DEF t
<1>8. v.mode.kind = "FreeKick" => v.mode = PM("FreeKick", Side(p))
  <2>1. PICK k \in {"CatchFault", "Back_Pass", "FreeKick"} : v.mode = PM(k, Side(p))
    BY <1>5
  <2>2. PM(k, Side(p)).kind = k
    BY <1>0, CallKinds DEF FaultKinds, RestartKinds, FreeKickKinds
  <2> QED  BY <2>1, <2>2
<1>9. Core(t)
  BY <1>5, <1>7, <1>8 DEF Core, Held, Rolls, Taken, OneOffender
<1>10. TimerAfter(s, t)
  BY <1>5, <1>7, NeutralModes DEF TimerAfter, FreeKickKinds
<1>11. IndirectKept(s, t, p) /\ FaultOf(s, t, p)
  BY <1>5, <1>7 DEF IndirectKept, Indirect, FaultOf
<1>12. ModeMoves(s.mode, t.mode)
  <2>1. IsLive(s.mode) /\ s.mode \in PlayMode
    BY NeutralModes DEF IsLive
  <2> QED  BY <1>0, <1>5, <1>7, <2>1, LiveMoves DEF ModeMoves, FaultKinds
<1>13. Sound(s, t, p) /\ t.mode.kind \in {"CatchFault", "Back_Pass", "FreeKick"}
  BY <1>5, <1>7, <1>9, <1>10, <1>11, <1>12 DEF Sound
<1> QED  BY <1>2, <1>13

LEMMA PunchSound ==
    ASSUME NEW s \in State, Core(s), NEW p \in Goalies, NEW marked \in SUBSET Players,
           NEW inArea \in BOOLEAN, s.mode = PlayOn
    PROVE  Sound(s, ballPunched(s, p, marked, inArea), p)
<1> DEFINE u == ballTouched(s, p, marked)
           inside == inArea /\ u.mode = s.mode
           a == Call(u, PM("CatchFault", Side(p)))
           b == Call(u, PM("Back_Pass", Side(p)))
           c == [u EXCEPT !.passer = NoOne, !.passer2 = NoOne]
           t == CatchPunched(u, p, inside)
<1> SUFFICES Sound(s, t, p)
  BY DEF ballPunched
<1>0. p \in Players /\ Side(p) \in Sides /\ IsLive(s.mode) /\ s.mode \in PlayMode
  BY PlayerSides, Constants, NeutralModes DEF IsLive
<1>1. Sound(s, u, p)
  BY <1>0, TouchSound
<1>2. t \in {a, b, c, u}
  BY DEF CatchPunched, callCatchFault
<1> HIDE DEF u, t
<1>3. u \in State
  BY <1>1 DEF Sound
<1>4. CASE t = a
  <2>1. /\ a \in State /\ Core(a) /\ a.mode = PM("CatchFault", Side(p))
        /\ a.mode.kind = "CatchFault" /\ a.taker = NoOne
    BY <1>0, <1>3, CallSound
  <2>2. TimerAfter(s, a) /\ IndirectKept(s, a, p) /\ FaultOf(s, a, p)
    BY <2>1 DEF TimerAfter, IndirectKept, Indirect, FaultOf, FreeKickKinds
  <2>3. ModeMoves(s.mode, a.mode)
    BY <1>0, <2>1, LiveMoves DEF ModeMoves, FaultKinds
  <2> QED  BY <1>4, <2>1, <2>2, <2>3 DEF Sound
<1>5. CASE t = b
  <2>1. /\ b \in State /\ Core(b) /\ b.mode = PM("Back_Pass", Side(p))
        /\ b.mode.kind = "Back_Pass" /\ b.taker = NoOne
    BY <1>0, <1>3, CallSound
  <2>2. TimerAfter(s, b) /\ IndirectKept(s, b, p) /\ FaultOf(s, b, p)
    BY <2>1 DEF TimerAfter, IndirectKept, Indirect, FaultOf, FreeKickKinds
  <2>3. ModeMoves(s.mode, b.mode)
    BY <1>0, <2>1, LiveMoves DEF ModeMoves, FaultKinds
  <2> QED  BY <1>5, <2>1, <2>2, <2>3 DEF Sound
<1>6. CASE t = c
  <2>1. c \in State /\ ButCatch(u, c)
    BY <1>3, PasserUpdate
  <2> HIDE DEF c
  <2>2. /\ c.mode = u.mode /\ c.moving = u.moving /\ c.catcher = u.catcher /\ c.taker = u.taker
        /\ c.timer = u.timer /\ c.kicker = u.kicker /\ c.indirect = u.indirect
        /\ c.indKicker = u.indKicker
    BY <2>1 DEF ButCatch, SamePlay, SameKick, SameOffside, SameKicker, SameTouch
  <2> QED  BY <1>1, <1>6, <2>1, <2>2 DEF Sound, Core, Held, Rolls, Taken, OneOffender,
               TimerAfter, IndirectKept, FaultOf
<1>7. CASE t = u
  BY <1>1, <1>7
<1> QED  BY <1>2, <1>4, <1>5, <1>6, <1>7

------------------------------------------------------------------------------
(* The analysis of a cycle: one referee after the other.                    *)

\* A referee has nothing to call.
Idle(x, y) ==
    /\ SamePlay(x, y) /\ SameKick(x, y) /\ y.kicker = x.kicker
    /\ y.indirect = x.indirect /\ y.indKicker = x.indKicker

\* The ball is placed for a kick, or for the cycles that an offence is shown.
Restarted(y, pm) ==
    /\ y.mode = pm /\ Placed(y) /\ y.taker = NoOne
    /\ pm.kind \in RestartKinds => y.timer = DropTime
    /\ y.indirect = (pm.kind = "IndFreeKick") /\ y.indKicker = NoOne

\* The ball is dropped.
Dropped(x, y) ==
    /\ y.mode = PlayOn /\ Placed(y) /\ y.taker = NoOne
    /\ y.indirect = x.indirect /\ y.indKicker = x.indKicker

LEMMA IdleCore ==
    ASSUME NEW x, NEW y, Core(x), Idle(x, y)
    PROVE  Core(y)
BY DEF Idle, SamePlay, SameKick, Core, Held, Rolls, Taken, OneOffender

LEMMA IdleSelf ==
    ASSUME NEW x
    PROVE  Idle(x, x)
BY DEF Idle, SamePlay, SameKick

LEMMA AfterUpdate ==
    ASSUME NEW s \in State, NEW n \in 0..Wait
    PROVE  LET t == [s EXCEPT !.after = n] IN t \in State /\ Idle(s, t)
<1> DEFINE t == [s EXCEPT !.after = n]
<1>1. t \in State
  BY DEF State
<1>2. Idle(s, t)
  BY DEF State, Idle, SamePlay, SameKick
<1> QED  BY <1>1, <1>2

LEMMA StuckUpdate ==
    ASSUME NEW s \in State, NEW n \in 0 .. DropTime - 1
    PROVE  LET t == [s EXCEPT !.stuck = n] IN t \in State /\ Idle(s, t)
<1> DEFINE t == [s EXCEPT !.stuck = n]
<1>1. t \in State
  BY DEF State
<1>2. Idle(s, t)
  BY DEF State, Idle, SamePlay, SameKick
<1> QED  BY <1>1, <1>2

LEMMA CallRestarts ==
    ASSUME NEW x \in State, NEW pm \in PlayMode, ~ KeepsIndirect(pm)
    PROVE  Call(x, pm) \in State /\ Restarted(Call(x, pm), pm)
<1>1. CalledAs(x, Call(x, pm), pm) /\ TakerAfter(x, Call(x, pm), pm)
  BY CallResult
<1>2. pm # PlayOn
  BY DEF KeepsIndirect
<1> QED  BY <1>1, <1>2 DEF CalledAs, ChangedTo, TakerAfter, Restarted, Placed

LEMMA DropDrops ==
    ASSUME NEW x \in State
    PROVE  awardDropBall(x) \in State /\ Dropped(x, awardDropBall(x))
BY DropResult DEF Dropped, Placed

\* In a mode that shows an offence the ball is placed and nobody holds it.
LEMMA OffenceIsPlaced ==
    ASSUME NEW x \in State, Core(x), x.mode.kind \in FaultKinds
    PROVE  Placed(x) /\ x.mode.side \in Sides /\ Opp(x.mode.side) \in Sides
<1>1. x.catcher = NoOne
  <2>1. x.catcher \in Players => Side(x.catcher) \in Sides
    BY PlayerSides
  <2>2. x.catcher \in Goalies \cup {NoOne} /\ Goalies \subseteq Players
    BY Fields, Constants
  <2>3. x.catcher \in Players => PM("FreeKick", Side(x.catcher)).kind = "FreeKick"
    BY <2>1, CallKinds DEF RestartKinds, FreeKickKinds
  <2> QED  BY <2>2, <2>3 DEF Core, Held, FaultKinds
<1>2. ~ x.moving
  BY DEF Core, Rolls, FaultKinds
<1>3. x.mode.side \in Sides
  BY Fields, ModeFields DEF SidedKinds
<1> QED  BY <1>1, <1>2, <1>3, Opponents DEF Placed

\* The wait of a stop ends with the kick of the other side.
LEMMA WaitResult ==
    ASSUME NEW x \in State, Core(x), Placed(x), NEW k \in RestartKinds, NEW z \in Sides
    PROVE  LET y == WaitThen(x, PM(k, z)) IN
           y \in State /\ (Idle(x, y) \/ Restarted(y, PM(k, z)))
<1> DEFINE pm == PM(k, z)
           n == x.after + 1
           a == changePlayMode(x, pm)
           b == [x EXCEPT !.after = n]
<1>1. pm \in PlayMode /\ pm # PlayOn /\ ~ KeepsIndirect(pm)
  BY CallKinds
<1>2. WaitThen(x, pm) = IF n > Wait THEN a ELSE b
  BY DEF WaitThen
<1> HIDE DEF pm
<1>3. /\ ChangedTo(x, a, pm) /\ TakerAfter(x, a, pm) /\ a.moving = x.moving
      /\ a.catcher \in {x.catcher, NoOne}
  BY <1>1, ChangeResult
<1>4. a \in State /\ Restarted(a, pm)
  BY <1>1, <1>3 DEF ChangedTo, TakerAfter, Restarted, Placed
<1>5. ~ (n > Wait) => b \in State /\ Idle(x, b)
  <2>1. x.after \in 0..Wait /\ Wait \in Nat
    BY Fields, Constants
  <2>2. ~ (n > Wait) => n \in 0..Wait
    BY <2>1
  <2> HIDE DEF n
  <2> QED  BY <2>2, AfterUpdate
<1> HIDE DEF a, b
<1> QED  BY <1>2, <1>4, <1>5 DEF pm

LEMMA StuckResult ==
    ASSUME NEW x \in State, NEW near \in BOOLEAN
    PROVE  LET y == BallStuckAnalyse(x, near) IN
           y \in State /\ (Idle(x, y) \/ (x.mode = PlayOn /\ Dropped(x, y)))
<1> DEFINE y == BallStuckAnalyse(x, near)
           a == [x EXCEPT !.stuck = 0]
           n == x.stuck + 1
           b == [x EXCEPT !.stuck = n]
<1>0. 0 \in 0 .. DropTime - 1 /\ x.stuck \in 0 .. DropTime - 1 /\ DropTime \in Nat
  BY Constants, Fields
<1>1. y = IF x.mode # PlayOn \/ ~ near THEN a
          ELSE IF n >= DropTime THEN awardDropBall(a) ELSE b
  BY DEF BallStuckAnalyse
<1>2. a \in State /\ Idle(x, a)
  BY <1>0, StuckUpdate
<1>3. ~ (n >= DropTime) => b \in State /\ Idle(x, b)
  <2>1. ~ (n >= DropTime) => n \in 0 .. DropTime - 1
    BY <1>0
  <2> HIDE DEF n
  <2> QED  BY <2>1, StuckUpdate
<1> HIDE DEF a, b, n
<1>4. awardDropBall(a) \in State /\ Dropped(x, awardDropBall(a))
  BY <1>2, DropDrops DEF Dropped, Idle
<1> QED  BY <1>1, <1>2, <1>3, <1>4

LEMMA OffsideResult ==
    ASSUME NEW x \in State, Core(x)
    PROVE  LET y == OffsideAnalyse(x) IN
           /\ y \in State
           /\ \/ Idle(x, y)
              \/ x.mode.kind = "OffSide" /\ Restarted(y, PM("FreeKick", Opp(x.mode.side)))
<1> DEFINE y == OffsideAnalyse(x)
           a == [x EXCEPT !.cands = {}]
<1>1. CASE ~ UseOffside \/ x.mode.kind \in {"BeforeKickOff", "KickOff", "PlayOn"}
  <2>1. y = x
    BY <1>1 DEF OffsideAnalyse
  <2> QED  BY <2>1, IdleSelf
<1>2. CASE UseOffside /\ x.mode.kind = "OffSide"
  <2>1. y = WaitThen(x, PM("FreeKick", Opp(x.mode.side)))
    BY <1>2 DEF OffsideAnalyse
  <2>2. Placed(x) /\ Opp(x.mode.side) \in Sides
    BY <1>2, OffenceIsPlaced DEF FaultKinds
  <2> QED  BY <1>2, <2>1, <2>2, WaitResult DEF RestartKinds, FreeKickKinds
<1>3. CASE UseOffside /\ x.mode.kind \notin {"BeforeKickOff", "KickOff", "PlayOn", "OffSide"}
  <2>1. y = a
    BY <1>3 DEF OffsideAnalyse
  <2>2. a \in State /\ ButOffside(x, a) /\ SameKicker(x, a)
    BY MarkUpdate
  <2> HIDE DEF a
  <2>3. Idle(x, a)
    BY <2>2 DEF Idle, ButOffside, SameKicker, SameTouch
  <2> QED  BY <2>1, <2>2, <2>3
<1> QED  BY <1>1, <1>2, <1>3

LEMMA IdleTrans ==
    ASSUME NEW x, NEW y, NEW z, Idle(x, y), Idle(y, z)
    PROVE  Idle(x, z)
BY DEF Idle, SamePlay, SameKick

LEMMA HolderKinds ==
    ASSUME NEW x \in State, Core(x), x.catcher # NoOne
    PROVE  /\ x.mode.kind \in {"FreeKick", "AfterGoal"}
           /\ x.catcher \in Players /\ Side(x.catcher) \in Sides
<1>1. x.catcher \in Players /\ Side(x.catcher) \in Sides
  BY Fields, Constants, PlayerSides
<1>2. PM("FreeKick", Side(x.catcher)).kind = "FreeKick"
  BY <1>1, CallKinds DEF RestartKinds, FreeKickKinds
<1> QED  BY <1>1, <1>2 DEF Core, Held

\* A cycle of waiting for a kick.
Ticked(x, y) ==
    /\ SamePlay(x, y) /\ y.taker = x.taker /\ y.kicker = x.kicker
    /\ y.indirect = x.indirect /\ y.indKicker = x.indKicker
    /\ y.timer = (IF x.timer > -1 THEN x.timer - 1 ELSE x.timer) /\ y.timer # 0

LEMMA CountResult ==
    ASSUME NEW x \in State
    PROVE  LET y == CountDown(x) IN
           y \in State /\ (Ticked(x, y) \/ (x.timer = 1 /\ Dropped(x, y)))
<1> DEFINE n == IF x.timer > -1 THEN x.timer - 1 ELSE x.timer
           t == [x EXCEPT !.timer = n]
<1>0. x.timer \in -1..DropTime /\ DropTime \in Nat
  BY Fields, Constants
<1>1. n \in -1..DropTime /\ (n = 0 => x.timer = 1)
  BY <1>0
<1>2. CountDown(x) = IF t.timer = 0 THEN awardDropBall(t) ELSE t
  BY DEF CountDown
<1>3. n = (IF x.timer > -1 THEN x.timer - 1 ELSE x.timer)
  OBVIOUS
<1> HIDE DEF n
<1>4. t \in State
  BY <1>1 DEF State
<1>5. /\ t.timer = n /\ SamePlay(x, t) /\ t.taker = x.taker /\ t.kicker = x.kicker
      /\ t.indirect = x.indirect /\ t.indKicker = x.indKicker
  BY DEF State, SamePlay
<1> HIDE DEF t
<1>6. awardDropBall(t) \in State /\ Dropped(x, awardDropBall(t))
  BY <1>4, <1>5, DropDrops DEF Dropped
<1> QED  BY <1>1, <1>2, <1>3, <1>4, <1>5, <1>6 DEF Ticked

\* A goal kick leaves the area: play goes on, with the ball as it is.
RollsOn(x, y) ==
    /\ x.mode.kind = "GoalKick" /\ y.mode = PlayOn /\ y.catcher = NoOne
    /\ y.taker = x.taker /\ y.indirect = x.indirect /\ y.indKicker = x.indKicker

FreeKickAnalysed(x, y) ==
    \/ Idle(x, y) /\ x.mode.kind \notin FreeKickKinds
    \/ x.mode.kind \in RestartKinds /\ Ticked(x, y)
    \/ x.mode.kind \in RestartKinds /\ x.timer = 1 /\ Dropped(x, y)
    \/ RollsOn(x, y)
    \/ /\ x.mode.kind = "GoalKick"
       /\ \E z \in Sides, k \in {"FreeKick", "GoalKick"} : Restarted(y, PM(k, z))
    \/ x.mode.kind = "Free_Kick_Fault" /\ Restarted(y, PM("FreeKick", Opp(x.mode.side)))

LEMMA GoalKickFails ==
    ASSUME NEW x \in State, Core(x), x.mode.kind = "GoalKick", x.taker # NoOne
    PROVE  LET y == GoalKickFailed(x) IN
           /\ y \in State
           /\ \E z \in Sides, k \in {"FreeKick", "GoalKick"} : Restarted(y, PM(k, z))
<1> DEFINE z == Side(x.taker)
           a == awardFreeKick(x, Opp(z))
           b == Call(x, PM("GoalKick", z))
<1>0. z \in Sides /\ Opp(z) \in Sides
  BY Fields, PlayerSides, Opponents
<1>1. GoalKickFailed(x) \in {a, b}
  BY DEF GoalKickFailed
<1> HIDE DEF z
<1>2. a \in State /\ Restarted(a, PM("FreeKick", Opp(z)))
  <2>1. /\ PM("FreeKick", Opp(z)) \in PlayMode /\ PM("FreeKick", Opp(z)).kind = "FreeKick"
        /\ PM("FreeKick", Opp(z)) # PlayOn /\ ~ KeepsIndirect(PM("FreeKick", Opp(z)))
    BY <1>0, CallKinds DEF RestartKinds, FreeKickKinds
  <2>2. /\ ChangedTo(x, a, PM("FreeKick", Opp(z))) /\ TakerAfter(x, a, PM("FreeKick", Opp(z)))
        /\ ~ a.moving /\ a.catcher \in {x.catcher, NoOne}
    BY <2>1, PlaceResult DEF awardFreeKick
  <2>3. x.catcher = NoOne
    BY HolderKinds
  <2> HIDE DEF a
  <2> QED  BY <2>1, <2>2, <2>3 DEF ChangedTo, TakerAfter, Restarted, Placed
<1>3. b \in State /\ Restarted(b, PM("GoalKick", z))
  BY <1>0, CallRestarts, CallKinds DEF RestartKinds
<1> HIDE DEF a, b
<1> QED  BY <1>0, <1>1, <1>2, <1>3

LEMMA FreeKickResult ==
    ASSUME NEW x \in State, Core(x), NEW inArea \in BOOLEAN, NEW rests \in BOOLEAN
    PROVE  LET y == FreeKickAnalyse(x, inArea, rests) IN
           y \in State /\ FreeKickAnalysed(x, y)
<1> DEFINE y == FreeKickAnalyse(x, inArea, rests)
<1>1. CASE x.mode.kind = "Free_Kick_Fault"
  <2>1. y = WaitThen(x, PM("FreeKick", Opp(x.mode.side)))
    BY <1>1 DEF FreeKickAnalyse
  <2>2. Placed(x) /\ Opp(x.mode.side) \in Sides
    BY <1>1, OffenceIsPlaced DEF FaultKinds
  <2>3. y \in State /\ (Idle(x, y) \/ Restarted(y, PM("FreeKick", Opp(x.mode.side))))
    BY <2>1, <2>2, WaitResult DEF RestartKinds, FreeKickKinds
  <2> QED  BY <1>1, <2>3 DEF FreeKickAnalysed, FreeKickKinds
<1>2. CASE x.mode.kind = "GoalKick" /\ x.moving /\ ~ inArea
  <2>1. y = changePlayMode(x, PlayOn)
    BY <1>2 DEF FreeKickAnalyse
  <2>2. /\ ChangedTo(x, y, PlayOn) /\ TakerAfter(x, y, PlayOn)
        /\ y.catcher \in {x.catcher, NoOne}
    BY <2>1, ChangeResult, NeutralModes
  <2>3. x.catcher = NoOne
    BY <1>2, HolderKinds
  <2> HIDE DEF y
  <2>4. y \in State /\ RollsOn(x, y)
    BY <1>2, <2>2, <2>3, NeutralModes DEF ChangedTo, TakerAfter, RollsOn
  <2> QED  BY <2>4 DEF FreeKickAnalysed, y
<1>3. CASE /\ x.mode.kind = "GoalKick" /\ ~ (x.moving /\ ~ inArea)
           /\ x.taker # NoOne /\ ProperGoalKicks /\ x.moving /\ ~ rests
  <2>1. y = x
    BY <1>3 DEF FreeKickAnalyse
  <2> QED  BY <1>3, <2>1, IdleSelf DEF FreeKickAnalysed, FreeKickKinds
<1>4. CASE /\ x.mode.kind = "GoalKick" /\ ~ (x.moving /\ ~ inArea)
           /\ x.taker # NoOne /\ ProperGoalKicks /\ ~ (x.moving /\ ~ rests)
  <2>1. y = GoalKickFailed(x)
    BY <1>4 DEF FreeKickAnalyse
  <2> QED  BY <1>4, <2>1, GoalKickFails DEF FreeKickAnalysed
<1>5. CASE /\ x.mode.kind = "GoalKick" /\ ~ (x.moving /\ ~ inArea)
           /\ ~ (x.taker # NoOne /\ ProperGoalKicks)
  <2>1. y = CountDown(x)
    BY <1>5 DEF FreeKickAnalyse
  <2> QED  BY <1>5, <2>1, CountResult DEF FreeKickAnalysed, RestartKinds
<1>6. CASE x.mode.kind \in FreeKickKinds
  <2>1. ~ x.moving
    BY <1>6 DEF Core, Rolls, FreeKickKinds
  <2>2. y = CountDown(x)
    BY <1>6, <2>1 DEF FreeKickAnalyse, FreeKickKinds
  <2> QED  BY <1>6, <2>2, CountResult DEF FreeKickAnalysed, RestartKinds
<1>7. CASE x.mode.kind \notin FreeKickKinds \cup {"GoalKick", "Free_Kick_Fault"}
  <2>1. y = x
    BY <1>7 DEF FreeKickAnalyse
  <2> QED  BY <1>7, <2>1, IdleSelf DEF FreeKickAnalysed
<1> QED  BY <1>1, <1>2, <1>3, <1>4, <1>5, <1>6, <1>7

\* TouchRef calls something only if the ball moves or a goalie carries it.
TouchAnalysed(x, y) ==
    \/ Idle(x, y)
    \/ x.mode.kind = "AfterGoal" /\ Restarted(y, PM("KickOff", Opp(x.mode.side)))
    \/ /\ x.mode.kind # "AfterGoal" /\ (x.moving \/ x.catcher # NoOne)
       /\ \/ /\ ~ x.indirect /\ ~ y.moving /\ y.taker = NoOne
             /\ y.mode \in {PM("AfterGoal", z) : z \in Sides}
          \/ \E z \in Sides, k \in {"CornerKick", "GoalKick", "KickIn"} : Restarted(y, PM(k, z))
          \/ Dropped(x, y)

LEMMA TouchAnalysis ==
    ASSUME NEW x \in State, Core(x), x.mode.kind = "AfterGoal" => x.catcher = NoOne,
           NEW seen \in {OnPitch} \cup Outs
    PROVE  LET y == TouchAnalyse(x, seen) IN y \in State /\ TouchAnalysed(x, y)
<1> DEFINE y == TouchAnalyse(x, seen)
           out == IF x.moving \/ x.catcher # NoOne THEN seen ELSE OnPitch
<1>0. /\ out.place \in {"goal", "behind"} => out.end \in Sides /\ Opp(out.end) \in Sides
      /\ out.place # "pitch" => x.moving \/ x.catcher # NoOne
      /\ out.place \in {"pitch", "goal", "behind", "beside"}
  <2>1. seen = OnPitch \/ seen = [place |-> "beside", end |-> Neutral]
          \/ seen \in [place : {"goal", "behind"}, end : Sides]
    BY DEF Outs
  <2>2. OnPitch.place = "pitch"
    BY DEF OnPitch
  <2>3. seen \in [place : {"goal", "behind"}, end : Sides] =>
          seen.place \in {"goal", "behind"} /\ seen.end \in Sides
    OBVIOUS
  <2> QED  BY <2>1, <2>2, <2>3, Opponents
<1>1. CASE x.mode.kind = "AfterGoal"
  <2>1. x.mode.side \in Sides /\ Opp(x.mode.side) \in Sides
    BY <1>1, Fields, ModeFields, Opponents DEF SidedKinds
  <2> DEFINE pm == PM("KickOff", Opp(x.mode.side))
             n == x.after + 1
             a == placeBall(x, pm)
             b == [x EXCEPT !.after = n]
  <2>2. y = IF n > Wait THEN a ELSE b
    BY <1>1 DEF TouchAnalyse
  <2>3. /\ pm \in PlayMode /\ pm # PlayOn /\ ~ KeepsIndirect(pm)
    BY <2>1, CallKinds DEF RestartKinds, FreeKickKinds
  <2> HIDE DEF pm
  <2>4. /\ ChangedTo(x, a, pm) /\ TakerAfter(x, a, pm) /\ ~ a.moving /\ a.catcher \in {x.catcher, NoOne}
    BY <2>3, PlaceResult
  <2>5. a \in State /\ Restarted(a, pm)
    BY <1>1, <2>3, <2>4 DEF ChangedTo, TakerAfter, Restarted, Placed
  <2>6. ~ (n > Wait) => b \in State /\ Idle(x, b)
    <3>1. x.after \in 0..Wait /\ Wait \in Nat
      BY Fields, Constants
    <3>2. ~ (n > Wait) => n \in 0..Wait
      BY <3>1
    <3> HIDE DEF n
    <3> QED  BY <3>2, AfterUpdate
  <2> HIDE DEF a, b, n, y
  <2>7. y \in State /\ TouchAnalysed(x, y)
    BY <1>1, <2>2, <2>5, <2>6 DEF TouchAnalysed, pm
  <2> QED  BY <2>7 DEF y
<1>2. CASE x.mode.kind # "AfterGoal" /\ Goal(x, out)
  <2> DEFINE pm == PM("AfterGoal", Opp(out.end))
  <2>1. y = placeBall(x, pm)
    BY <1>2 DEF TouchAnalyse
  <2>2. out.place = "goal" /\ ~ x.indirect
    BY <1>2 DEF Goal
  <2> HIDE DEF out
  <2>3. pm \in PlayMode /\ pm # PlayOn /\ pm \in {PM("AfterGoal", z) : z \in Sides}
    BY <1>0, <2>2, CallKinds
  <2> HIDE DEF pm
  <2>4. ChangedTo(x, y, pm) /\ TakerAfter(x, y, pm) /\ ~ y.moving
    BY <2>1, <2>3, PlaceResult
  <2> HIDE DEF y
  <2>5. y \in State /\ y.mode = pm /\ y.taker = NoOne
    BY <2>3, <2>4 DEF ChangedTo, TakerAfter
  <2>6. TouchAnalysed(x, y)
    BY <1>0, <1>2, <2>2, <2>3, <2>4, <2>5 DEF TouchAnalysed
  <2> QED  BY <2>5, <2>6 DEF y
<1>3. CASE /\ x.mode.kind # "AfterGoal" /\ ~ Goal(x, out)
           /\ out.place \in {"goal", "behind"}
  <2> DEFINE a == Call(x, PM("CornerKick", Opp(out.end)))
             b == Call(x, PM("GoalKick", out.end))
  <2>1. y \in {a, b, x}
    BY <1>3 DEF TouchAnalyse
  <2>2. a \in State /\ Restarted(a, PM("CornerKick", Opp(out.end)))
    BY <1>0, <1>3, CallRestarts, CallKinds DEF RestartKinds, FreeKickKinds
  <2>3. b \in State /\ Restarted(b, PM("GoalKick", out.end))
    BY <1>0, <1>3, CallRestarts, CallKinds DEF RestartKinds
  <2> HIDE DEF a, b, y, out
  <2>4. y \in State /\ TouchAnalysed(x, y)
    BY <1>0, <1>3, <2>1, <2>2, <2>3, IdleSelf DEF TouchAnalysed
  <2> QED  BY <2>4 DEF y
<1>4. CASE /\ x.mode.kind # "AfterGoal" /\ out.place = "beside"
  <2> DEFINE a == awardDropBall(x)
             b == Call(x, PM("KickIn", Opp(x.touch)))
  <2>1. y = IF x.touch = Neutral THEN a ELSE b
    BY <1>4 DEF TouchAnalyse, Goal
  <2>2. a \in State /\ Dropped(x, a)
    BY DropDrops
  <2>3. x.touch # Neutral => Opp(x.touch) \in Sides
    BY Fields, Opponents
  <2>4. x.touch # Neutral => b \in State /\ Restarted(b, PM("KickIn", Opp(x.touch)))
    BY <2>3, CallRestarts, CallKinds DEF RestartKinds, FreeKickKinds
  <2> HIDE DEF a, b, y, out
  <2>5. y \in State /\ TouchAnalysed(x, y)
    BY <1>0, <1>4, <2>1, <2>2, <2>3, <2>4 DEF TouchAnalysed
  <2> QED  BY <2>5 DEF y
<1>5. CASE x.mode.kind # "AfterGoal" /\ out.place = "pitch"
  <2>1. y = x
    BY <1>5 DEF TouchAnalyse, Goal
  <2> QED  BY <2>1, IdleSelf DEF TouchAnalysed
<1> QED  BY <1>0, <1>1, <1>2, <1>3, <1>4, <1>5

LEMMA TouchedUpdate ==
    ASSUME NEW s \in State
    PROVE  LET t == [s EXCEPT !.touched = {}] IN t \in State /\ Idle(s, t)
<1> DEFINE t == [s EXCEPT !.touched = {}]
<1>1. t \in State
  BY DEF State
<1>2. Idle(s, t)
  BY DEF State, Idle, SamePlay, SameKick
<1> QED  BY <1>1, <1>2

CatchAnalysed(x, y) ==
    \/ Idle(x, y)
    \/ x.mode.kind = "Back_Pass" /\ Restarted(y, PM("IndFreeKick", Opp(x.mode.side)))
    \/ x.mode.kind = "CatchFault" /\ Restarted(y, PM("FreeKick", Opp(x.mode.side)))
    \/ /\ x.catcher # NoOne /\ x.mode.kind # "AfterGoal"
       /\ \E z \in Sides : Restarted(y, PM("CatchFault", z))

LEMMA CatchAnalysis ==
    ASSUME NEW x \in State, Core(x), NEW carried \in BOOLEAN
    PROVE  LET y == CatchAnalyse(x, carried) IN y \in State /\ CatchAnalysed(x, y)
<1> DEFINE y == CatchAnalyse(x, carried)
           t == [x EXCEPT !.touched = {}]
           z == Opp(x.mode.side)
<1>1. t \in State /\ Idle(x, t)
  BY TouchedUpdate
<1>2. y = IF x.mode.kind = "Back_Pass" THEN WaitThen(t, PM("IndFreeKick", z))
          ELSE IF x.mode.kind = "CatchFault" THEN WaitThen(t, PM("FreeKick", z))
          ELSE IF x.catcher # NoOne /\ x.mode.kind # "AfterGoal" /\ carried
               THEN Call(t, PM("CatchFault", Side(x.catcher)))
          ELSE t
  BY DEF CatchAnalyse, callCatchFault
<1> HIDE DEF t, y
<1>3. Core(t) /\ t.moving = x.moving /\ t.catcher = x.catcher
  BY <1>1, IdleCore DEF Idle, SamePlay
<1>4. x.mode.kind \in {"Back_Pass", "CatchFault"} => Placed(t) /\ z \in Sides
  BY <1>3, OffenceIsPlaced DEF FaultKinds, Placed
<1> HIDE DEF z
<1>5. CASE x.mode.kind = "Back_Pass"
  <2>1. y \in State /\ (Idle(t, y) \/ Restarted(y, PM("IndFreeKick", z)))
    BY <1>1, <1>2, <1>3, <1>4, <1>5, WaitResult DEF RestartKinds, FreeKickKinds
  <2>2. Idle(t, y) => Idle(x, y)
    BY <1>1, IdleTrans
  <2> QED  BY <1>5, <2>1, <2>2 DEF CatchAnalysed, y, z
<1>6. CASE x.mode.kind = "CatchFault"
  <2>1. y \in State /\ (Idle(t, y) \/ Restarted(y, PM("FreeKick", z)))
    BY <1>1, <1>2, <1>3, <1>4, <1>6, WaitResult DEF RestartKinds, FreeKickKinds
  <2>2. Idle(t, y) => Idle(x, y)
    BY <1>1, IdleTrans
  <2> QED  BY <1>6, <2>1, <2>2 DEF CatchAnalysed, y, z
<1>7. CASE x.mode.kind \notin {"Back_Pass", "CatchFault"}
  <2>1. CASE x.catcher # NoOne /\ x.mode.kind # "AfterGoal" /\ carried
    <3>1. y = Call(t, PM("CatchFault", Side(x.catcher)))
      BY <1>2, <1>7, <2>1
    <3>2. Side(x.catcher) \in Sides
      BY <2>1, HolderKinds
    <3>3. y \in State /\ Restarted(y, PM("CatchFault", Side(x.catcher)))
      BY <1>1, <3>1, <3>2, CallRestarts, CallKinds DEF FaultKinds
    <3> QED  BY <2>1, <3>2, <3>3 DEF CatchAnalysed, y
  <2>2. CASE ~ (x.catcher # NoOne /\ x.mode.kind # "AfterGoal" /\ carried)
    <3>1. y = t
      BY <1>2, <1>7, <2>2
    <3> QED  BY <1>1, <3>1 DEF CatchAnalysed, y
  <2> QED  BY <2>1, <2>2
<1> QED  BY <1>5, <1>6, <1>7

FoulAnalysed(x, y) ==
    \/ Idle(x, y)
    \/ /\ x.mode.kind = "Foul_Charge"
       /\ \E k \in {"FreeKick", "IndFreeKick"} : Restarted(y, PM(k, Opp(x.mode.side)))

LEMMA FoulAnalysis ==
    ASSUME NEW x \in State, Core(x), NEW inOwnArea \in BOOLEAN
    PROVE  LET y == FoulAnalyse(x, inOwnArea) IN y \in State /\ FoulAnalysed(x, y)
<1> DEFINE y == FoulAnalyse(x, inOwnArea)
           k == IF inOwnArea THEN "IndFreeKick" ELSE "FreeKick"
<1>1. CASE x.mode.kind # "Foul_Charge"
  <2>1. y = x
    BY <1>1 DEF FoulAnalyse
  <2> QED  BY <2>1, IdleSelf DEF FoulAnalysed
<1>2. CASE x.mode.kind = "Foul_Charge"
  <2>1. y = WaitThen(x, PM(k, Opp(x.mode.side)))
    BY <1>2 DEF FoulAnalyse
  <2>2. Placed(x) /\ Opp(x.mode.side) \in Sides
    BY <1>2, OffenceIsPlaced DEF FaultKinds
  <2>3. k \in {"FreeKick", "IndFreeKick"}
    OBVIOUS
  <2> HIDE DEF k, y
  <2>4. y \in State /\ (Idle(x, y) \/ Restarted(y, PM(k, Opp(x.mode.side))))
    BY <2>1, <2>2, <2>3, WaitResult DEF RestartKinds, FreeKickKinds
  <2> QED  BY <1>2, <2>3, <2>4 DEF FoulAnalysed, y
<1> QED  BY <1>1, <1>2

DefenseAnalysed(x, y) ==
    \/ Idle(x, y)
    \/ x.mode.kind = "Illegal_Defense" /\ Restarted(y, PM("FreeKick", Opp(x.mode.side)))
    \/ /\ x.mode = PlayOn
       /\ \E z \in Sides : Restarted(y, PM("Illegal_Defense", z))

LEMMA DefenseUpdate ==
    ASSUME NEW s \in State, NEW f \in [Sides -> 0 .. IllegalDuration - 1]
    PROVE  LET t == [s EXCEPT !.illegal = f] IN t \in State /\ Idle(s, t)
<1> DEFINE t == [s EXCEPT !.illegal = f]
<1>1. t \in State
  BY DEF State
<1>2. Idle(s, t)
  BY DEF State, Idle, SamePlay, SameKick
<1> QED  BY <1>1, <1>2

LEMMA DefenseAnalysis ==
    ASSUME NEW x \in State, Core(x), NEW crowd \in Sides \cup {Neutral}
    PROVE  LET y == IllegalDefenseAnalyse(x, crowd) IN y \in State /\ DefenseAnalysed(x, y)
<1> DEFINE y == IllegalDefenseAnalyse(x, crowd)
           counter == [w \in Sides |-> IF w = crowd /\ x.attacker = Opp(w)
                                       THEN x.illegal[w] + 1 ELSE 0]
           caught == {w \in Sides : counter[w] >= IllegalDuration}
           none == [w \in Sides |-> 0]
           a == [x EXCEPT !.illegal = counter]
           b == [x EXCEPT !.illegal = none]
<1>0. IllegalDuration \in Nat \ {0} /\ x.illegal \in [Sides -> 0 .. IllegalDuration - 1]
  BY Constants, Fields
<1>1. y = IF ~ UseIllegalDefense THEN x
          ELSE IF x.mode.kind = "Illegal_Defense"
               THEN WaitThen(x, PM("FreeKick", Opp(x.mode.side)))
          ELSE IF x.mode # PlayOn THEN x
          ELSE IF caught = {} THEN a
          ELSE Call(b, PM("Illegal_Defense", crowd))
  BY DEF IllegalDefenseAnalyse
<1>2. caught = {} => counter \in [Sides -> 0 .. IllegalDuration - 1]
  <2>1. \A w \in Sides : x.illegal[w] \in 0 .. IllegalDuration - 1
    BY <1>0
  <2>2. \A w \in Sides : x.illegal[w] \in Nat
    BY <2>1, <1>0
  <2>3. \A w \in Sides : counter[w] \in Nat
    BY <2>2
  <2>4. caught = {} => \A w \in Sides : ~ (counter[w] >= IllegalDuration)
    OBVIOUS
  <2>5. counter = [w \in Sides |-> counter[w]]
    OBVIOUS
  <2> HIDE DEF counter, caught
  <2>6. caught = {} => \A w \in Sides : counter[w] \in 0 .. IllegalDuration - 1
    BY <1>0, <2>3, <2>4
  <2> QED  BY <2>5, <2>6
<1>3. caught # {} => crowd \in Sides
  <2>1. \A w \in Sides : w # crowd => ~ (counter[w] >= IllegalDuration)
    BY <1>0
  <2> QED  BY <2>1
<1>4. none \in [Sides -> 0 .. IllegalDuration - 1]
  BY <1>0
<1> HIDE DEF counter, caught, none
<1>5. caught = {} => a \in State /\ Idle(x, a)
  BY <1>2, DefenseUpdate
<1>6. b \in State
  BY <1>4, DefenseUpdate
<1> HIDE DEF a, b, y
<1>7. CASE ~ UseIllegalDefense \/ (x.mode.kind # "Illegal_Defense" /\ x.mode # PlayOn)
  <2>1. y = x
    BY <1>1, <1>7
  <2> QED  BY <2>1, IdleSelf DEF DefenseAnalysed, y
<1>8. CASE UseIllegalDefense /\ x.mode.kind = "Illegal_Defense"
  <2>1. y = WaitThen(x, PM("FreeKick", Opp(x.mode.side)))
    BY <1>1, <1>8
  <2>2. Placed(x) /\ Opp(x.mode.side) \in Sides
    BY <1>8, OffenceIsPlaced DEF FaultKinds
  <2>3. y \in State /\ (Idle(x, y) \/ Restarted(y, PM("FreeKick", Opp(x.mode.side))))
    BY <2>1, <2>2, WaitResult DEF RestartKinds, FreeKickKinds
  <2> QED  BY <1>8, <2>3 DEF DefenseAnalysed, y
<1>9. CASE UseIllegalDefense /\ x.mode = PlayOn
  <2>0. x.mode.kind # "Illegal_Defense"
    BY <1>9, NeutralModes
  <2>1. CASE caught = {}
    <3>1. y = a
      BY <1>1, <1>9, <2>0, <2>1
    <3> QED  BY <1>5, <2>1, <3>1 DEF DefenseAnalysed, y
  <2>2. CASE caught # {}
    <3>1. y = Call(b, PM("Illegal_Defense", crowd))
      BY <1>1, <1>9, <2>0, <2>2
    <3>2. y \in State /\ Restarted(y, PM("Illegal_Defense", crowd))
      BY <1>3, <1>6, <2>2, <3>1, CallRestarts, CallKinds DEF FaultKinds
    <3> QED  BY <1>3, <1>9, <2>2, <3>2 DEF DefenseAnalysed, y
  <2> QED  BY <2>1, <2>2
<1> QED  BY <1>7, <1>8, <1>9

\* What the referees may have called so far in a cycle: up to FreeKickRef, up to
\* TouchRef, up to FoulRef, and in all.
Called0 == {"BeforeKickOff", "PlayOn", "FreeKick", "GoalKick"}
Called1 == Called0 \cup {"AfterGoal", "KickOff", "CornerKick", "KickIn"}
Called2 == Called1 \cup {"CatchFault", "IndFreeKick"}
Called3 == Called2 \cup {"Illegal_Defense"}

\* Nothing was called, and the kick that is waited for has come closer.
Waiting(s, t) ==
    /\ SamePlay(s, t) /\ t.taker = s.taker /\ t.kicker = s.kicker
    /\ t.indirect = s.indirect /\ t.indKicker = s.indKicker
    /\ s.mode.kind \in FreeKickKinds => t.timer = s.timer - 1 /\ t.timer # 0

\* Something of the kinds K was called, last t.mode.
Moved(s, t, K) ==
    /\ t.mode \in MovesOf(s.mode) /\ t.mode.kind \in K
    /\ ~ t.moving /\ t.taker = NoOne /\ (t.catcher = NoOne \/ t.mode.kind = "AfterGoal")
    /\ t.mode.kind \in FreeKickKinds => t.mode # s.mode /\ t.timer \in {DropTime - 1, DropTime}
    /\ t.mode.kind = "PlayOn" =>
         /\ IsLive(s.mode) /\ t.indirect = s.indirect /\ t.indKicker = s.indKicker
         /\ s.mode.kind \in FreeKickKinds => s.timer = 1 \/ s.catcher # NoOne
    /\ t.mode.kind = "IndFreeKick" =>
         s.mode.kind # "IndFreeKick" /\ t.indirect /\ t.indKicker = NoOne
    /\ t.mode.kind = "AfterGoal" => ~ s.indirect

Analysed(s, t, K) == Waiting(s, t) \/ Moved(s, t, K) \/ RollsOn(s, t)

\* The state at the start of an analysis.
Ready(s) ==
    /\ s \in State /\ Core(s)
    /\ IsStopped(s.mode) => s.catcher = NoOne
    /\ s.mode.kind \in FreeKickKinds => s.timer >= 1

LEMMA AnalysedCore ==
    ASSUME NEW s, NEW t \in State, NEW K \in SUBSET Called3, Core(s), Analysed(s, t, K)
    PROVE  Core(t)
<1>0. t.mode \in PlayMode
  BY Fields
<1>1. CASE Waiting(s, t)
  BY <1>1 DEF Waiting, SamePlay, Core, Held, Rolls, Taken, OneOffender
<1>2. CASE Moved(s, t, K)
  <2>1. t.mode.kind \in Called3
    BY <1>2 DEF Moved
  <2> QED  BY <1>2, <2>1 DEF Moved, Core, Held, Rolls, Taken, OneOffender, Called3, Called2,
               Called1, Called0
<1>3. CASE RollsOn(s, t)
  BY <1>3, NeutralModes DEF RollsOn, Core, Held, Rolls, Taken, OneOffender
<1> QED  BY <1>1, <1>2, <1>3 DEF Analysed

LEMMA AnalysedIdle ==
    ASSUME NEW s, NEW x, NEW y, NEW K, NEW L, K \subseteq L, Analysed(s, x, K), Idle(x, y)
    PROVE  Analysed(s, y, L)
<1>1. /\ y.mode = x.mode /\ y.moving = x.moving /\ y.catcher = x.catcher /\ y.taker = x.taker
      /\ y.timer = x.timer /\ y.kicker = x.kicker /\ y.indirect = x.indirect
      /\ y.indKicker = x.indKicker
  BY DEF Idle, SamePlay, SameKick
<1>2. CASE Waiting(s, x)
  BY <1>1, <1>2 DEF Analysed, Waiting, SamePlay
<1>3. CASE Moved(s, x, K)
  BY <1>1, <1>3 DEF Analysed, Moved
<1>4. CASE RollsOn(s, x)
  BY <1>1, <1>4 DEF Analysed, RollsOn
<1> QED  BY <1>2, <1>3, <1>4 DEF Analysed

LEMMA StopMoves ==
    ASSUME NEW pm \in PlayMode, pm.kind \in FaultKinds \cup {"AfterGoal"}
    PROVE  RestartsAfter(pm) \subseteq MovesOf(pm)
<1>1. pm # BeforeKickOff /\ ~ IsLive(pm)
  BY NeutralModes DEF IsLive, FaultKinds, RestartKinds, FreeKickKinds
<1> QED  BY <1>1 DEF MovesOf

\* A restart or a call that MatchClock allows.
LEMMA RestartMoves ==
    ASSUME NEW s, NEW y, NEW k, NEW z \in Sides, NEW K \in SUBSET Called3,
           k \in K, k \in FaultKinds \cup RestartKinds,
           Restarted(y, PM(k, z)), PM(k, z) \in MovesOf(s.mode),
           k \in FreeKickKinds => s.mode.kind # k
    PROVE  Moved(s, y, K)
<1>1. PM(k, z).kind = k
  BY CallKinds
<1>2. k \notin {"PlayOn", "AfterGoal"}
  BY DEF FaultKinds, RestartKinds, FreeKickKinds
<1>3. k \in FreeKickKinds => y.timer = DropTime
  BY <1>1 DEF Restarted, RestartKinds
<1>4. k = "IndFreeKick" => y.indirect /\ y.indKicker = NoOne /\ s.mode.kind # "IndFreeKick"
  BY <1>1 DEF Restarted, FreeKickKinds
<1> QED  BY <1>1, <1>2, <1>3, <1>4 DEF Moved, Restarted, Placed

\* TimeRef, BallStuckRef and OffsideRef.
FirstOutcome(s, c) ==
    \/ Idle(s, c)
    \/ IsLive(s.mode) /\ Restarted(c, BeforeKickOff)
    \/ s.mode = PlayOn /\ Dropped(s, c)
    \/ s.mode.kind = "OffSide" /\ Restarted(c, PM("FreeKick", Opp(s.mode.side)))

LEMMA IdleRestarted ==
    ASSUME NEW s, NEW x, NEW y, Idle(x, y)
    PROVE  /\ \A pm : Restarted(x, pm) => Restarted(y, pm)
           /\ Dropped(s, x) => Dropped(s, y)
BY DEF Idle, SamePlay, SameKick, Restarted, Dropped, Placed

LEMMA FirstReferees ==
    ASSUME NEW s, Ready(s), NEW half \in {"no", "up", "back"}, NEW near \in BOOLEAN,
           half # "no" => IsLive(s.mode)
    PROVE  LET c == OffsideAnalyse(BallStuckAnalyse(TimeAnalyse(s, half), near)) IN
           c \in State /\ Core(c) /\ FirstOutcome(s, c)
<1> DEFINE a == TimeAnalyse(s, half)
           b == BallStuckAnalyse(a, near)
           c == OffsideAnalyse(b)
<1> SUFFICES c \in State /\ Core(c) /\ FirstOutcome(s, c)
  OBVIOUS
<1>0. s \in State /\ Core(s) /\ s.mode \in PlayMode
  BY Fields DEF Ready
<1>1. CASE half # "no"
  <2>1. a \in State /\ Restarted(a, BeforeKickOff)
    BY <1>0, <1>1, CallRestarts, NeutralModes DEF TimeAnalyse
  <2> HIDE DEF a
  <2>2. a.mode = BeforeKickOff /\ a.mode # PlayOn
    BY <2>1, NeutralModes DEF Restarted
  <2>3. b \in State /\ Idle(a, b)
    BY <2>1, <2>2, StuckResult
  <2> HIDE DEF b
  <2>4. Restarted(b, BeforeKickOff)
    BY <2>1, <2>3, IdleRestarted
  <2>5. Core(b) /\ b.mode.kind = "BeforeKickOff"
    BY <2>4, NeutralModes DEF Restarted, Placed, Core, Held, Rolls, Taken, OneOffender
  <2>6. c \in State /\ Idle(b, c)
    BY <2>3, <2>5, OffsideResult
  <2> HIDE DEF c
  <2>7. Core(c) /\ Restarted(c, BeforeKickOff)
    BY <2>4, <2>5, <2>6, IdleCore, IdleRestarted
  <2> QED  BY <1>1, <2>6, <2>7 DEF FirstOutcome
<1>2. CASE half = "no"
  <2>1. a = s
    BY <1>2 DEF TimeAnalyse
  <2>2. b \in State /\ (Idle(s, b) \/ (s.mode = PlayOn /\ Dropped(s, b)))
    BY <1>0, <2>1, StuckResult
  <2> HIDE DEF b
  <2>3. CASE Idle(s, b)
    <3>1. Core(b) /\ b.mode = s.mode
      BY <1>0, <2>3, IdleCore DEF Idle, SamePlay
    <3>2. /\ c \in State
          /\ \/ Idle(b, c)
             \/ s.mode.kind = "OffSide" /\ Restarted(c, PM("FreeKick", Opp(s.mode.side)))
      BY <2>2, <3>1, OffsideResult
    <3> HIDE DEF c
    <3>3. CASE Idle(b, c)
      BY <2>3, <3>1, <3>2, <3>3, IdleTrans, IdleCore DEF FirstOutcome
    <3>4. CASE s.mode.kind = "OffSide" /\ Restarted(c, PM("FreeKick", Opp(s.mode.side)))
      <4>1. PM("FreeKick", Opp(s.mode.side)).kind = "FreeKick"
        BY <1>0, <3>4, OffenceIsPlaced, CallKinds DEF FaultKinds, RestartKinds, FreeKickKinds
      <4>2. Core(c)
        BY <3>4, <4>1 DEF Restarted, Placed, Core, Held, Rolls, Taken, OneOffender
      <4> QED  BY <3>2, <3>4, <4>2 DEF FirstOutcome
    <3> QED  BY <3>2, <3>3, <3>4
  <2>4. CASE s.mode = PlayOn /\ Dropped(s, b)
    <3>1. b.mode.kind = "PlayOn" /\ Core(b)
      BY <2>4, NeutralModes DEF Dropped, Placed, Core, Held, Rolls, Taken, OneOffender
    <3>2. c \in State /\ Idle(b, c)
      BY <2>2, <3>1, OffsideResult
    <3> HIDE DEF c
    <3>3. Core(c) /\ Dropped(s, c)
      BY <2>4, <3>1, <3>2, IdleCore, IdleRestarted
    <3> QED  BY <2>4, <3>2, <3>3 DEF FirstOutcome
  <2> QED  BY <2>2, <2>3, <2>4
<1> QED  BY <1>1, <1>2

LEMMA FourthReferee ==
    ASSUME NEW s, Ready(s), NEW c \in State, NEW d \in State, FirstOutcome(s, c),
           FreeKickAnalysed(c, d)
    PROVE  Analysed(s, d, Called0)
<1>0. s \in State /\ Core(s) /\ s.mode \in PlayMode
  BY Fields DEF Ready
<1>t. /\ s.timer \in Int /\ DropTime \in Int /\ DropTime >= 2
      /\ s.mode.kind \in FreeKickKinds => s.timer >= 1
  <2>1. s.timer \in -1..DropTime /\ DropTime \in Nat \ {0, 1}
    BY <1>0, Fields, Constants
  <2> QED  BY <2>1 DEF Ready
<1>1. CASE Idle(s, c)
  <2>1. /\ c.mode = s.mode /\ c.moving = s.moving /\ c.catcher = s.catcher /\ c.taker = s.taker
        /\ c.timer = s.timer /\ c.kicker = s.kicker /\ c.indirect = s.indirect
        /\ c.indKicker = s.indKicker
    BY <1>1 DEF Idle, SamePlay, SameKick
  <2>2. CASE Idle(c, d) /\ c.mode.kind \notin FreeKickKinds
    BY <2>1, <2>2 DEF Analysed, Waiting, Idle, SamePlay, SameKick
  <2>3. CASE c.mode.kind \in RestartKinds /\ Ticked(c, d)
    <3>1. s.mode.kind \in FreeKickKinds => d.timer = s.timer - 1 /\ d.timer # 0
      BY <1>t, <2>1, <2>3 DEF Ticked
    <3> QED  BY <2>1, <2>3, <3>1 DEF Analysed, Waiting, Ticked, SamePlay
  <2>4. CASE c.mode.kind \in RestartKinds /\ c.timer = 1 /\ Dropped(c, d)
    <3>1. IsLive(s.mode) /\ PlayOn \in MovesOf(s.mode)
      BY <1>0, <2>1, <2>4, LiveMoves DEF IsLive
    <3>2. d.mode.kind = "PlayOn"
      BY <2>4, NeutralModes DEF Dropped
    <3> QED  BY <2>1, <2>4, <3>1, <3>2 DEF Analysed, Moved, Dropped, Placed, Called0, FreeKickKinds
  <2>5. CASE RollsOn(c, d)
    BY <2>1, <2>5 DEF Analysed, RollsOn
  <2>6. CASE /\ c.mode.kind = "GoalKick"
             /\ \E z \in Sides, k \in {"FreeKick", "GoalKick"} : Restarted(d, PM(k, z))
    <3>1. PICK z \in Sides, k \in {"FreeKick", "GoalKick"} : Restarted(d, PM(k, z))
      BY <2>6
    <3>2. PM(k, z) \in MovesOf(s.mode)
      BY <1>0, <2>1, <2>6, LiveMoves DEF IsLive, RestartKinds
    <3>3. /\ k \in Called0 /\ k \in FaultKinds \cup RestartKinds /\ Called0 \subseteq Called3
          /\ k \in FreeKickKinds => s.mode.kind # k
      BY <2>1, <2>6 DEF Called0, Called1, Called2, Called3, RestartKinds, FreeKickKinds
    <3> QED  BY <3>1, <3>2, <3>3, RestartMoves DEF Analysed
  <2>7. CASE /\ c.mode.kind = "Free_Kick_Fault"
             /\ Restarted(d, PM("FreeKick", Opp(c.mode.side)))
    <3>1. PM("FreeKick", Opp(s.mode.side)) \in MovesOf(s.mode) /\ Opp(s.mode.side) \in Sides
      BY <1>0, <2>1, <2>7, StopMoves, OffenceIsPlaced DEF RestartsAfter, FaultKinds
    <3>2. /\ "FreeKick" \in Called0 /\ "FreeKick" \in RestartKinds /\ Called0 \subseteq Called3
          /\ s.mode.kind # "FreeKick"
      BY <2>1, <2>7 DEF Called0, Called1, Called2, Called3, RestartKinds, FreeKickKinds
    <3> QED  BY <2>1, <2>7, <3>1, <3>2, RestartMoves DEF Analysed
  <2> QED  BY <2>2, <2>3, <2>4, <2>5, <2>6, <2>7 DEF FreeKickAnalysed
<1>2. CASE IsLive(s.mode) /\ Restarted(c, BeforeKickOff)
  <2>1. c.mode.kind = "BeforeKickOff"
    BY <1>2, NeutralModes DEF Restarted
  <2>2. Idle(c, d)
    BY <2>1 DEF FreeKickAnalysed, RollsOn, RestartKinds, FreeKickKinds
  <2>3. Restarted(d, BeforeKickOff) /\ d.mode.kind = "BeforeKickOff"
    BY <1>2, <2>2, IdleRestarted, NeutralModes DEF Restarted
  <2>4. BeforeKickOff \in MovesOf(s.mode)
    BY <1>0, <1>2, LiveMoves
  <2> QED  BY <2>3, <2>4 DEF Analysed, Moved, Restarted, Placed, Called0, FreeKickKinds
<1>3. CASE s.mode = PlayOn /\ Dropped(s, c)
  <2>1. c.mode.kind = "PlayOn" /\ s.mode.kind = "PlayOn"
    BY <1>3, NeutralModes DEF Dropped
  <2>2. Idle(c, d)
    BY <2>1 DEF FreeKickAnalysed, RollsOn, RestartKinds, FreeKickKinds
  <2>3. Dropped(s, d) /\ d.mode.kind = "PlayOn"
    BY <1>3, <2>2, IdleRestarted, NeutralModes DEF Dropped
  <2>4. IsLive(s.mode) /\ PlayOn \in MovesOf(s.mode)
    BY <1>0, <2>1, LiveMoves DEF IsLive
  <2> QED  BY <2>1, <2>3, <2>4 DEF Analysed, Moved, Dropped, Placed, Called0, FreeKickKinds
<1>4. CASE s.mode.kind = "OffSide" /\ Restarted(c, PM("FreeKick", Opp(s.mode.side)))
  <2>1. PM("FreeKick", Opp(s.mode.side)) \in MovesOf(s.mode) /\ Opp(s.mode.side) \in Sides
    BY <1>0, <1>4, StopMoves, OffenceIsPlaced DEF RestartsAfter, FaultKinds
  <2>2. PM("FreeKick", Opp(s.mode.side)).kind = "FreeKick"
    BY <2>1, CallKinds DEF RestartKinds, FreeKickKinds
  <2>3. c.mode.kind = "FreeKick" /\ c.timer = DropTime
    BY <1>4, <2>2 DEF Restarted, RestartKinds, FreeKickKinds
  <2>4. Ticked(c, d)
    BY <1>t, <2>3 DEF FreeKickAnalysed, RollsOn, RestartKinds, FreeKickKinds
  <2>5. /\ d.mode = c.mode /\ d.moving = c.moving /\ d.catcher = c.catcher /\ d.taker = c.taker
        /\ d.timer = DropTime - 1
    BY <1>t, <2>3, <2>4 DEF Ticked, SamePlay
  <2> QED  BY <1>4, <2>1, <2>2, <2>5 DEF Analysed, Moved, Restarted, Placed, Called0, FreeKickKinds
<1> QED  BY <1>1, <1>2, <1>3, <1>4 DEF FirstOutcome

\* The ball moves, or a goalie carries it, only in a live mode.
LEMMA BusyIsLive ==
    ASSUME NEW s, Ready(s), s.moving \/ s.catcher # NoOne
    PROVE  /\ IsLive(s.mode) /\ s.mode.kind \notin {"CornerKick", "KickIn"}
           /\ s.mode.kind \in FreeKickKinds => s.catcher # NoOne
<1>0. s \in State /\ Core(s)
  BY DEF Ready
<1>1. CASE s.moving
  BY <1>0, <1>1 DEF Core, Rolls, IsLive, RestartKinds, FreeKickKinds
<1>2. CASE s.catcher # NoOne
  <2>1. s.mode.kind \in {"FreeKick", "AfterGoal"}
    BY <1>0, <1>2, HolderKinds
  <2> QED  BY <1>2, <2>1 DEF Ready, IsStopped, IsLive, RestartKinds, FreeKickKinds
<1> QED  BY <1>1, <1>2

LEMMA FifthReferee ==
    ASSUME NEW s, Ready(s), NEW d \in State, NEW e \in State, Analysed(s, d, Called0),
           TouchAnalysed(d, e)
    PROVE  Analysed(s, e, Called1)
<1>0. s \in State /\ Core(s) /\ s.mode \in PlayMode /\ Called1 \in SUBSET Called3
  BY Fields DEF Ready, Called3, Called2
<1>1. CASE Idle(d, e)
  BY <1>1, AnalysedIdle DEF Called1
<1>2. CASE ~ Idle(d, e) /\ Moved(s, d, Called0)
  <2>1. d.mode.kind # "AfterGoal" /\ ~ d.moving /\ d.catcher = NoOne
    BY <1>2 DEF Moved, Called0
  <2> QED  BY <1>2, <2>1 DEF TouchAnalysed
<1>3. CASE /\ Waiting(s, d) /\ d.mode.kind = "AfterGoal"
           /\ Restarted(e, PM("KickOff", Opp(d.mode.side)))
  <2>1. d.mode = s.mode
    BY <1>3 DEF Waiting, SamePlay
  <2>2. s.mode.side \in Sides /\ Opp(s.mode.side) \in Sides
    BY <1>0, <1>3, <2>1, ModeFields, Opponents DEF SidedKinds
  <2>3. PM("KickOff", Opp(s.mode.side)) \in MovesOf(s.mode)
    BY <1>0, <1>3, <2>1, StopMoves DEF RestartsAfter
  <2>4. "KickOff" \in Called1 /\ "KickOff" \in RestartKinds /\ s.mode.kind # "KickOff"
    BY <1>3, <2>1 DEF Called1, RestartKinds, FreeKickKinds
  <2> QED  BY <1>0, <1>3, <2>1, <2>2, <2>3, <2>4, RestartMoves DEF Analysed
<1>4. CASE /\ Waiting(s, d) \/ RollsOn(s, d)
           /\ d.mode.kind # "AfterGoal" /\ (d.moving \/ d.catcher # NoOne)
           /\ \/ /\ ~ d.indirect /\ ~ e.moving /\ e.taker = NoOne
                 /\ e.mode \in {PM("AfterGoal", z) : z \in Sides}
              \/ \E z \in Sides, k \in {"CornerKick", "GoalKick", "KickIn"} : Restarted(e, PM(k, z))
              \/ Dropped(d, e)
  <2>1. /\ IsLive(s.mode) /\ s.mode.kind \notin {"CornerKick", "KickIn"}
        /\ s.mode.kind \in FreeKickKinds => s.catcher # NoOne
        /\ d.indirect = s.indirect /\ d.indKicker = s.indKicker
    <3>1. CASE Waiting(s, d)
      BY <1>4, <3>1, BusyIsLive DEF Waiting, SamePlay
    <3>2. CASE RollsOn(s, d)
      BY <3>2 DEF RollsOn, IsLive, RestartKinds, FreeKickKinds
    <3> QED  BY <1>4, <3>1, <3>2
  <2>2. CASE /\ ~ d.indirect /\ ~ e.moving /\ e.taker = NoOne
             /\ e.mode \in {PM("AfterGoal", z) : z \in Sides}
    <3>1. e.mode.kind = "AfterGoal"
      BY <2>2, CallKinds
    <3>2. e.mode \in MovesOf(s.mode)
      BY <1>0, <2>1, <2>2, LiveMoves
    <3> QED  BY <2>1, <2>2, <3>1, <3>2 DEF Analysed, Moved, Called1, FreeKickKinds
  <2>3. CASE \E z \in Sides, k \in {"CornerKick", "GoalKick", "KickIn"} : Restarted(e, PM(k, z))
    <3>1. PICK z \in Sides, k \in {"CornerKick", "GoalKick", "KickIn"} : Restarted(e, PM(k, z))
      BY <2>3
    <3>2. PM(k, z) \in MovesOf(s.mode)
      BY <1>0, <2>1, LiveMoves
    <3>3. /\ k \in Called1 /\ k \in FaultKinds \cup RestartKinds
          /\ k \in FreeKickKinds => s.mode.kind # k
      BY <2>1 DEF Called0, Called1, RestartKinds, FreeKickKinds
    <3> QED  BY <1>0, <3>1, <3>2, <3>3, RestartMoves DEF Analysed
  <2>4. CASE Dropped(d, e)
    <3>1. e.mode.kind = "PlayOn" /\ PlayOn \in MovesOf(s.mode)
      BY <1>0, <2>1, <2>4, LiveMoves, NeutralModes DEF Dropped
    <3> QED  BY <2>1, <2>4, <3>1 DEF Analysed, Moved, Dropped, Placed, Called0, Called1, FreeKickKinds
  <2> QED  BY <1>4, <2>2, <2>3, <2>4
<1>5. RollsOn(s, d) => d.mode.kind = "PlayOn"
  BY NeutralModes DEF RollsOn
<1> QED  BY <1>1, <1>2, <1>3, <1>4, <1>5 DEF Analysed, TouchAnalysed


LEMMA SixthReferee ==
    ASSUME NEW s, Ready(s), NEW e \in State, NEW f \in State, Analysed(s, e, Called1),
           CatchAnalysed(e, f)
    PROVE  Analysed(s, f, Called2)
<1>0. /\ s \in State /\ Core(s) /\ s.mode \in PlayMode /\ e.mode \in PlayMode
      /\ Called1 \in SUBSET Called3 /\ Called2 \in SUBSET Called3
  BY Fields DEF Ready, Called3, Called2
<1>1. Core(e)
  BY <1>0, AnalysedCore
<1>2. CASE Idle(e, f)
  BY <1>2, AnalysedIdle DEF Called2
<1>3. e.mode.kind \in {"Back_Pass", "CatchFault"} => Waiting(s, e)
  BY NeutralModes DEF Analysed, Moved, RollsOn, Called1, Called0
<1>4. e.catcher # NoOne /\ e.mode.kind # "AfterGoal" => Waiting(s, e)
  BY DEF Analysed, Moved, RollsOn
<1>5. Waiting(s, e) => e.mode = s.mode /\ e.catcher = s.catcher
  BY DEF Waiting, SamePlay
<1>6. ASSUME NEW kind \in {"Back_Pass", "CatchFault"}, e.mode.kind = kind,
             NEW k \in {"FreeKick", "IndFreeKick"}, k = "IndFreeKick" <=> kind = "Back_Pass",
             Restarted(f, PM(k, Opp(e.mode.side)))
      PROVE  Moved(s, f, Called2)
  <2>1. s.mode = e.mode /\ s.mode.kind = kind
    BY <1>3, <1>5, <1>6
  <2>2. Opp(s.mode.side) \in Sides
    BY <1>0, <2>1, OffenceIsPlaced DEF FaultKinds
  <2>3. PM(k, Opp(s.mode.side)) \in MovesOf(s.mode)
    BY <1>0, <1>6, <2>1, StopMoves DEF RestartsAfter, FaultKinds
  <2>4. k \in Called2 /\ k \in RestartKinds /\ s.mode.kind # k
    BY <2>1 DEF Called2, Called1, Called0, RestartKinds, FreeKickKinds
  <2> QED  BY <1>0, <1>6, <2>1, <2>2, <2>3, <2>4, RestartMoves
<1>7. CASE /\ e.catcher # NoOne /\ e.mode.kind # "AfterGoal"
           /\ \E z \in Sides : Restarted(f, PM("CatchFault", z))
  <2>1. PICK z \in Sides : Restarted(f, PM("CatchFault", z))
    BY <1>7
  <2>2. IsLive(s.mode)
    BY <1>4, <1>5, <1>7, BusyIsLive
  <2>3. PM("CatchFault", z) \in MovesOf(s.mode)
    BY <1>0, <2>2, LiveMoves DEF FaultKinds
  <2>4. "CatchFault" \in Called2 /\ "CatchFault" \in FaultKinds /\ "CatchFault" \notin FreeKickKinds
    BY DEF Called2, FaultKinds, FreeKickKinds
  <2> QED  BY <1>0, <2>1, <2>3, <2>4, RestartMoves DEF Analysed
<1> QED  BY <1>2, <1>6, <1>7 DEF Analysed, CatchAnalysed

LEMMA SeventhReferee ==
    ASSUME NEW s, Ready(s), NEW f \in State, NEW g \in State, Analysed(s, f, Called2),
           FoulAnalysed(f, g)
    PROVE  Analysed(s, g, Called2)
<1>0. s \in State /\ Core(s) /\ s.mode \in PlayMode /\ Called2 \in SUBSET Called3
  BY Fields DEF Ready, Called3
<1>1. CASE Idle(f, g)
  BY <1>1, AnalysedIdle
<1>2. CASE /\ f.mode.kind = "Foul_Charge"
           /\ \E k \in {"FreeKick", "IndFreeKick"} : Restarted(g, PM(k, Opp(f.mode.side)))
  <2>1. Waiting(s, f)
    BY <1>2, NeutralModes DEF Analysed, Moved, RollsOn, Called2, Called1, Called0
  <2>2. s.mode = f.mode /\ s.mode.kind = "Foul_Charge"
    BY <1>2, <2>1 DEF Waiting, SamePlay
  <2>3. PICK k \in {"FreeKick", "IndFreeKick"} : Restarted(g, PM(k, Opp(s.mode.side)))
    BY <1>2, <2>2
  <2>4. Opp(s.mode.side) \in Sides
    BY <1>0, <2>2, OffenceIsPlaced DEF FaultKinds
  <2>5. PM(k, Opp(s.mode.side)) \in MovesOf(s.mode)
    BY <1>0, <2>2, StopMoves DEF RestartsAfter, FaultKinds
  <2>6. k \in Called2 /\ k \in RestartKinds /\ s.mode.kind # k
    BY <2>2 DEF Called2, Called1, Called0, RestartKinds, FreeKickKinds
  <2> QED  BY <1>0, <2>3, <2>4, <2>5, <2>6, RestartMoves DEF Analysed
<1> QED  BY <1>1, <1>2 DEF FoulAnalysed

LEMMA EighthReferee ==
    ASSUME NEW s, Ready(s), NEW g \in State, NEW h \in State, Analysed(s, g, Called2),
           DefenseAnalysed(g, h)
    PROVE  Analysed(s, h, Called3)
<1>0. s \in State /\ Core(s) /\ s.mode \in PlayMode /\ Called3 \in SUBSET Called3
  BY Fields DEF Ready
<1>1. CASE Idle(g, h)
  BY <1>1, AnalysedIdle DEF Called3
<1>2. CASE /\ g.mode.kind = "Illegal_Defense"
           /\ Restarted(h, PM("FreeKick", Opp(g.mode.side)))
  <2>1. Waiting(s, g)
    BY <1>2, NeutralModes DEF Analysed, Moved, RollsOn, Called2, Called1, Called0
  <2>2. s.mode = g.mode /\ s.mode.kind = "Illegal_Defense"
    BY <1>2, <2>1 DEF Waiting, SamePlay
  <2>3. Opp(s.mode.side) \in Sides
    BY <1>0, <2>2, OffenceIsPlaced DEF FaultKinds
  <2>4. PM("FreeKick", Opp(s.mode.side)) \in MovesOf(s.mode)
    BY <1>0, <2>2, StopMoves DEF RestartsAfter, FaultKinds
  <2>5. "FreeKick" \in Called3 /\ "FreeKick" \in RestartKinds /\ s.mode.kind # "FreeKick"
    BY <2>2 DEF Called3, Called2, Called1, Called0, RestartKinds, FreeKickKinds
  <2> QED  BY <1>0, <1>2, <2>2, <2>3, <2>4, <2>5, RestartMoves DEF Analysed
<1>3. CASE g.mode = PlayOn /\ \E z \in Sides : Restarted(h, PM("Illegal_Defense", z))
  <2>1. PICK z \in Sides : Restarted(h, PM("Illegal_Defense", z))
    BY <1>3
  <2>2. g.mode.kind = "PlayOn"
    BY <1>3, NeutralModes
  <2>3. IsLive(s.mode)
    BY <2>2 DEF Analysed, Waiting, Moved, RollsOn, SamePlay, IsLive, RestartKinds
  <2>4. PM("Illegal_Defense", z) \in MovesOf(s.mode)
    BY <1>0, <2>3, LiveMoves DEF FaultKinds
  <2>5. /\ "Illegal_Defense" \in Called3 /\ "Illegal_Defense" \in FaultKinds
        /\ "Illegal_Defense" \notin FreeKickKinds
    BY DEF Called3, FaultKinds, FreeKickKinds
  <2> QED  BY <1>0, <2>1, <2>4, <2>5, RestartMoves DEF Analysed
<1> QED  BY <1>1, <1>2, <1>3 DEF DefenseAnalysed


\* What the referees may see has its type.
LEMMA ViewFields ==
    ASSUME NEW s \in State, NEW v \in Views(s)
    PROVE  /\ v.half \in {"no", "up", "back"} /\ (v.half # "no" => IsLive(s.mode))
           /\ v.near \in BOOLEAN /\ v.crowd \in Sides \cup {Neutral}
           /\ v.inArea \in BOOLEAN /\ v.rests \in BOOLEAN /\ v.carried \in BOOLEAN
           /\ v.out \in {OnPitch} \cup Outs
<1> DEFINE outs == {OnPitch} \cup Outs
           normal == [half : {"no"}, near : BOOLEAN, crowd : Sides \cup {Neutral},
                      inArea : BOOLEAN, rests : BOOLEAN, carried : BOOLEAN, out : outs]
           halves == [half : If(IsLive(s.mode), {"up", "back"}), near : {FALSE},
                      crowd : {Neutral}, inArea : {FALSE}, rests : {FALSE},
                      carried : {FALSE}, out : {OnPitch}]
           crowds == {Neutral} \cup If(s.mode.kind = "PlayOn" /\ s.attacker # Neutral,
                                       {Opp(s.attacker)})
           seen == {OnPitch} \cup If(s.moving \/ s.catcher # NoOne, Outs)
<1>1. crowds \subseteq Sides \cup {Neutral}
  <2>1. s.attacker \in Sides \cup {Neutral}
    BY Fields
  <2> QED  BY <2>1, Opponents DEF If
<1>2. seen \subseteq outs
  BY DEF If
<1>3. v \in normal \/ v \in halves
  <2> DEFINE nears == {FALSE} \cup If(s.mode.kind = "PlayOn", {TRUE})
             areas == {FALSE} \cup If(s.mode.kind \in {"GoalKick", "Foul_Charge"}, {TRUE})
             rested == {FALSE} \cup If(s.mode.kind = "GoalKick", {TRUE})
             carries == {FALSE} \cup If(s.catcher # NoOne, {TRUE})
             shown == [half : {"no"}, near : nears, crowd : crowds, inArea : areas,
                       rests : rested, carried : carries, out : seen]
  <2>1. nears \subseteq BOOLEAN /\ areas \subseteq BOOLEAN /\ rested \subseteq BOOLEAN
        /\ carries \subseteq BOOLEAN
    BY DEF If
  <2>2. v \in shown \/ v \in halves
    BY DEF Views
  <2> HIDE DEF nears, areas, rested, carries, crowds, seen, outs, halves
  <2>3. v \in shown => v \in normal
    BY <1>1, <1>2, <2>1
  <2> QED  BY <2>2, <2>3
<1>4. CASE v \in normal
  <2> HIDE DEF outs
  <2>1. /\ v.half = "no" /\ v.near \in BOOLEAN /\ v.crowd \in Sides \cup {Neutral}
        /\ v.inArea \in BOOLEAN /\ v.rests \in BOOLEAN /\ v.carried \in BOOLEAN
        /\ v.out \in outs
    BY <1>4
  <2> QED  BY <2>1 DEF outs
<1>5. CASE v \in halves
  <2>1. /\ v.half \in If(IsLive(s.mode), {"up", "back"}) /\ v.near = FALSE
        /\ v.crowd = Neutral /\ v.inArea = FALSE /\ v.rests = FALSE /\ v.carried = FALSE
        /\ v.out = OnPitch
    BY <1>5
  <2> QED  BY <2>1 DEF If
<1> QED  BY <1>3, <1>4, <1>5

LEMMA AnalyseResult ==
    ASSUME NEW s, Ready(s), NEW half \in {"no", "up", "back"}, half # "no" => IsLive(s.mode),
           NEW near \in BOOLEAN, NEW crowd \in Sides \cup {Neutral}, NEW inArea \in BOOLEAN,
           NEW rests \in BOOLEAN, NEW carried \in BOOLEAN, NEW out \in {OnPitch} \cup Outs
    PROVE  LET h == IllegalDefenseAnalyse(FoulAnalyse(CatchAnalyse(TouchAnalyse(
                      FreeKickAnalyse(
                        OffsideAnalyse(BallStuckAnalyse(TimeAnalyse(s, half), near)),
                        inArea, rests), out), carried), inArea), crowd)
           IN  h \in State /\ Core(h) /\ Analysed(s, h, Called3)
<1> DEFINE c == OffsideAnalyse(BallStuckAnalyse(TimeAnalyse(s, half), near))
           d == FreeKickAnalyse(c, inArea, rests)
           e == TouchAnalyse(d, out)
           f == CatchAnalyse(e, carried)
           g == FoulAnalyse(f, inArea)
           h == IllegalDefenseAnalyse(g, crowd)
<1> SUFFICES h \in State /\ Core(h) /\ Analysed(s, h, Called3)
  OBVIOUS
<1>0. /\ s \in State /\ Core(s) /\ Called0 \in SUBSET Called3 /\ Called1 \in SUBSET Called3
      /\ Called2 \in SUBSET Called3 /\ Called3 \in SUBSET Called3
  BY DEF Ready, Called3, Called2, Called1
<1>1. c \in State /\ Core(c) /\ FirstOutcome(s, c)
  BY FirstReferees
<1> HIDE DEF c
<1>2. d \in State /\ FreeKickAnalysed(c, d)
  BY <1>1, FreeKickResult
<1> HIDE DEF d
<1>3. Analysed(s, d, Called0)
  BY <1>1, <1>2, FourthReferee
<1>4. Core(d)
  BY <1>0, <1>2, <1>3, AnalysedCore
<1>5. d.mode.kind = "AfterGoal" => d.catcher = NoOne
  BY <1>3, NeutralModes
  DEF Analysed, Waiting, SamePlay, Moved, RollsOn, Called0, Ready, IsStopped
<1>6. e \in State /\ TouchAnalysed(d, e)
  BY <1>2, <1>4, <1>5, TouchAnalysis
<1> HIDE DEF e
<1>7. Analysed(s, e, Called1)
  BY <1>2, <1>3, <1>6, FifthReferee
<1>8. Core(e)
  BY <1>0, <1>6, <1>7, AnalysedCore
<1>9. f \in State /\ CatchAnalysed(e, f)
  BY <1>6, <1>8, CatchAnalysis
<1> HIDE DEF f
<1>10. Analysed(s, f, Called2)
  BY <1>6, <1>7, <1>9, SixthReferee
<1>11. Core(f)
  BY <1>0, <1>9, <1>10, AnalysedCore
<1>12. g \in State /\ FoulAnalysed(f, g)
  BY <1>9, <1>11, FoulAnalysis
<1> HIDE DEF g
<1>13. Analysed(s, g, Called2)
  BY <1>9, <1>10, <1>12, SeventhReferee
<1>14. Core(g)
  BY <1>0, <1>12, <1>13, AnalysedCore
<1>15. h \in State /\ DefenseAnalysed(g, h)
  BY <1>12, <1>14, DefenseAnalysis
<1> HIDE DEF h
<1>16. Analysed(s, h, Called3)
  BY <1>12, <1>13, <1>15, EighthReferee
<1> QED  BY <1>0, <1>15, <1>16, AnalysedCore


LEMMA StaleKicks ==
    ASSUME NEW s \in State, NEW k \in BOOLEAN, NEW a \in BOOLEAN
    PROVE  LET t == [s EXCEPT !.kickNow = k, !.attackNow = a] IN t \in State /\ Idle(s, t)
<1> DEFINE t == [s EXCEPT !.kickNow = k, !.attackNow = a]
<1>1. t \in State
  BY ZenonT(60) DEF State
<1>2. Idle(s, t)
  BY DEF State, Idle, SamePlay, SameKick
<1> QED  BY <1>1, <1>2

LEMMA StaleTouches ==
    ASSUME NEW s \in State, NEW n \in BOOLEAN, NEW r \in {"none", "soft", "hard"}
    PROVE  LET t == [s EXCEPT !.passNow = n, !.strength = r] IN t \in State /\ Idle(s, t)
<1> DEFINE t == [s EXCEPT !.passNow = n, !.strength = r]
<1>1. t \in State
  BY ZenonT(60) DEF State
<1>2. Idle(s, t)
  BY DEF State, Idle, SamePlay, SameKick
<1> QED  BY <1>1, <1>2

LEMMA StaleUpdate ==
    ASSUME NEW s \in State, NEW clockRan \in BOOLEAN, NEW back \in BOOLEAN
    PROVE  LET t == Stale(s, clockRan, back) IN t \in State /\ Idle(s, t)
<1> DEFINE k == s.kickNow /\ back
           a == s.attackNow /\ ~ clockRan
           n == s.passNow /\ ~ clockRan
           r == IF clockRan THEN "none" ELSE s.strength
           u == [s EXCEPT !.kickNow = k, !.attackNow = a]
           t == [u EXCEPT !.passNow = n, !.strength = r]
<1>1. k \in BOOLEAN /\ a \in BOOLEAN /\ n \in BOOLEAN /\ r \in {"none", "soft", "hard"}
  BY Fields
<1>2. t = Stale(s, clockRan, back)
  BY DEF Stale, State
<1> HIDE DEF k, a, n, r
<1>3. u \in State /\ Idle(s, u)
  BY <1>1, StaleKicks
<1> HIDE DEF u
<1>4. t \in State /\ Idle(u, t)
  BY <1>1, <1>3, StaleTouches
<1> HIDE DEF t
<1>5. t \in State /\ Idle(s, t)
  BY <1>3, <1>4, IdleTrans
<1> QED  BY <1>2, <1>5

\* What a cycle of the referees preserves and obeys.
CycleSound(s, t) ==
    /\ t \in State /\ Core(t) /\ t.taker \in {s.taker, NoOne} /\ ModeMoves(s.mode, t.mode)
    /\ t.mode.kind \in FreeKickKinds =>
         IF t.mode = s.mode THEN t.timer = s.timer - 1 /\ t.timer >= 1
         ELSE t.timer \in {DropTime - 1, DropTime}
    /\ t.mode = PlayOn /\ s.mode.kind \in FreeKickKinds /\ ~ s.moving /\ s.catcher = NoOne =>
         s.timer = 1
    /\ Indirect(s.mode) /\ Indirect(t.mode) /\ (t.mode.kind = "IndFreeKick" => s.mode.kind = "IndFreeKick") =>
         t.indirect = s.indirect /\ t.indKicker = s.indKicker
    /\ t.mode.kind = "IndFreeKick" /\ s.mode.kind # "IndFreeKick" =>
         t.indirect /\ t.indKicker = NoOne
    /\ t.mode.kind = "AfterGoal" /\ s.mode.kind # "AfterGoal" => ~ s.indirect
    /\ t.mode.kind = "Free_Kick_Fault" => s.mode.kind = "Free_Kick_Fault"

LEMMA AnalysedIsSound ==
    ASSUME NEW s \in State, NEW r \in State, NEW t \in State, Core(t), Ready(r),
           Analysed(r, t, Called3), r.mode = s.mode, r.moving = s.moving,
           SameKick(s, r), SameTouch(s, r), s.catcher = NoOne => r.catcher = NoOne
    PROVE  CycleSound(s, t)
<1>0. /\ r.taker = s.taker /\ r.timer = s.timer /\ r.indirect = s.indirect
      /\ r.indKicker = s.indKicker
  BY DEF SameKick, SameTouch
<1>1. CASE Waiting(r, t)
  <2>1. /\ t.mode = s.mode /\ t.taker = s.taker /\ t.indirect = s.indirect
        /\ t.indKicker = s.indKicker
    BY <1>0, <1>1 DEF Waiting, SamePlay
  <2>2. s.mode.kind \in FreeKickKinds => t.timer = s.timer - 1 /\ t.timer >= 1
    <3>1. s.timer \in Int /\ (s.mode.kind \in FreeKickKinds => s.timer >= 1)
      BY <1>0, Fields DEF Ready
    <3> QED  BY <1>0, <1>1, <3>1 DEF Waiting
  <2>3. t.mode = PlayOn => s.mode.kind \notin FreeKickKinds
    BY <2>1, NeutralModes DEF FreeKickKinds
  <2> QED  BY <2>1, <2>2, <2>3 DEF CycleSound, ModeMoves
<1>2. CASE Moved(r, t, Called3)
  <2>1. t.mode \in MovesOf(s.mode) /\ t.mode.kind \in Called3 /\ t.taker = NoOne
    BY <1>2 DEF Moved
  <2>2. t.mode.kind # "Free_Kick_Fault"
    BY <2>1 DEF Called3, Called2, Called1, Called0
  <2>3. t.mode.kind \in FreeKickKinds => t.mode # s.mode /\ t.timer \in {DropTime - 1, DropTime}
    BY <1>2 DEF Moved
  <2>4. t.mode = PlayOn /\ s.mode.kind \in FreeKickKinds /\ s.catcher = NoOne => s.timer = 1
    BY <1>0, <1>2, NeutralModes DEF Moved
  <2>5. /\ t.mode.kind = "PlayOn" => t.indirect = s.indirect /\ t.indKicker = s.indKicker
        /\ t.mode.kind = "IndFreeKick" =>
             s.mode.kind # "IndFreeKick" /\ t.indirect /\ t.indKicker = NoOne
        /\ t.mode.kind = "AfterGoal" => ~ s.indirect
    BY <1>0, <1>2 DEF Moved
  <2> QED  BY <2>1, <2>2, <2>3, <2>4, <2>5 DEF CycleSound, ModeMoves, Indirect
<1>3. CASE RollsOn(r, t)
  <2>1. /\ s.mode.kind = "GoalKick" /\ t.mode = PlayOn /\ t.mode.kind = "PlayOn"
        /\ t.taker = s.taker /\ t.indirect = s.indirect /\ t.indKicker = s.indKicker
    BY <1>0, <1>3, NeutralModes DEF RollsOn
  <2>2. PlayOn \in MovesOf(s.mode)
    BY <2>1, Fields, LiveMoves DEF IsLive, RestartKinds
  <2> QED  BY <2>1, <2>2 DEF CycleSound, ModeMoves, Indirect, FreeKickKinds
<1> QED  BY <1>1, <1>2, <1>3 DEF Analysed

LEMMA StepSound ==
    ASSUME NEW s \in State, Core(s), s.mode.kind \in FreeKickKinds => s.timer >= 1,
           NEW v \in Views(s), NEW clockRan \in BOOLEAN, NEW back \in BOOLEAN
    PROVE  CycleSound(s, Stale(analyse(IF IsStopped(s.mode) THEN [s EXCEPT !.catcher = NoOne]
                                       ELSE s, v), clockRan, back))
<1> DEFINE c == [s EXCEPT !.catcher = NoOne]
           r == IF IsStopped(s.mode) THEN c ELSE s
           carried == v.carried \/ v.out # OnPitch
           h == analyse(r, v)
           t == Stale(h, clockRan, back)
<1> SUFFICES CycleSound(s, t)
  OBVIOUS
<1>0. /\ c \in State /\ c.mode = s.mode /\ c.moving = s.moving /\ c.catcher = NoOne
      /\ SameKick(s, c) /\ SameTouch(s, c) /\ SameOffside(s, c)
  BY HoldUpdate
<1> HIDE DEF c
<1>1. Core(c)
  BY <1>0 DEF Core, Held, Rolls, Taken, OneOffender, SameKick, SameOffside, SameKicker
<1>2. /\ r \in State /\ Core(r) /\ r.mode = s.mode /\ r.moving = s.moving /\ SameKick(s, r)
      /\ SameTouch(s, r) /\ (s.catcher = NoOne => r.catcher = NoOne)
      /\ IsStopped(s.mode) => r.catcher = NoOne
  BY <1>0, <1>1 DEF SameKick, SameTouch
<1> HIDE DEF r
<1>3. Ready(r)
  BY <1>2 DEF Ready, SameKick
<1>4. /\ v.half \in {"no", "up", "back"} /\ (v.half # "no" => IsLive(r.mode))
      /\ v.near \in BOOLEAN /\ v.crowd \in Sides \cup {Neutral}
      /\ v.inArea \in BOOLEAN /\ v.rests \in BOOLEAN /\ v.carried \in BOOLEAN
      /\ v.out \in {OnPitch} \cup Outs
  BY <1>2, ViewFields
<1>5. carried \in BOOLEAN
  BY <1>4
<1>6. h = IllegalDefenseAnalyse(FoulAnalyse(CatchAnalyse(TouchAnalyse(FreeKickAnalyse(
            OffsideAnalyse(BallStuckAnalyse(TimeAnalyse(r, v.half), v.near)),
            v.inArea, v.rests), v.out), carried), v.inArea), v.crowd)
  BY DEF analyse
<1> HIDE DEF carried, h
<1>7. h \in State /\ Core(h) /\ Analysed(r, h, Called3)
  BY <1>3, <1>4, <1>5, <1>6, AnalyseResult, SMTT(30)
<1>8. t \in State /\ Idle(h, t)
  BY <1>7, StaleUpdate
<1> HIDE DEF t
<1>9. Core(t) /\ Analysed(r, t, Called3)
  BY <1>7, <1>8, IdleCore, AnalysedIdle
<1> QED  BY <1>2, <1>3, <1>8, <1>9, AnalysedIsSound


\* A kick that misses the ball is at most an offside.
LEMMA MissSound ==
    ASSUME NEW s \in State, Core(s), NEW p
    PROVE  LET t == checkIntentionalAction(s, p, TRUE) IN
           /\ t \in State /\ Core(t) /\ ModeMoves(s.mode, t.mode)
           /\ t = s \/ (t.mode.kind = "OffSide" /\ t.taker = NoOne)
<1> DEFINE t == checkIntentionalAction(s, p, TRUE)
           o == callOffside(s)
<1>1. t = s \/ t = o
  BY DEF checkIntentionalAction
<1>2. CASE o = s
  BY <1>1, <1>2 DEF ModeMoves
<1>3. CASE /\ s.kicker \in Sides /\ CalledAs(s, o, PM("OffSide", s.kicker))
           /\ o.taker = NoOne /\ SameKicker(s, o)
  <2>1. /\ o \in State /\ o.mode = PM("OffSide", s.kicker) /\ ~ o.moving /\ o.catcher = NoOne
        /\ o.kicker = s.kicker
    BY <1>3 DEF CalledAs, ChangedTo, SameKicker
  <2>2. o.mode.kind = "OffSide" /\ o.mode.side = s.kicker
    BY <1>3, <2>1, CallKinds DEF FaultKinds
  <2> HIDE DEF o
  <2>3. Core(o)
    BY <1>3, <2>1, <2>2 DEF Core, Held, Rolls, Taken, OneOffender
  <2>4. ModeMoves(s.mode, o.mode)
    <3>0. s.mode \in PlayMode
      BY Fields
    <3>1. CASE s.mode.kind # "OffSide"
      BY <1>3, <2>1, <3>0, <3>1, OffsideMoves DEF ModeMoves
    <3>2. CASE s.mode.kind = "OffSide"
      <4>1. s.kicker = s.mode.side
        BY <1>3, <3>2, Opponents DEF Core, OneOffender
      <4> QED  BY <2>1, <3>0, <3>2, <4>1, ModeFields DEF ModeMoves
    <3> QED  BY <3>1, <3>2
  <2> HIDE DEF t
  <2>5. CASE t = s
    BY <2>5 DEF ModeMoves, t
  <2>6. CASE t = o
    BY <1>3, <2>1, <2>2, <2>3, <2>4, <2>6 DEF t
  <2> QED  BY <1>1, <2>5, <2>6
<1> QED  BY <1>2, <1>3, OffsideCall

LEMMA DashUpdate ==
    ASSUME NEW s \in State
    PROVE  LET t == [s EXCEPT !.dashed = TRUE] IN t \in State /\ Idle(s, t)
<1> DEFINE t == [s EXCEPT !.dashed = TRUE]
<1>1. t \in State
  BY DEF State
<1>2. Idle(s, t)
  BY DEF State, Idle, SamePlay, SameKick
<1> QED  BY <1>1, <1>2

LEMMA KickOffSound ==
    ASSUME NEW s \in State, Core(s), s.mode = BeforeKickOff, NEW x \in Sides
    PROVE  LET t == placeBall(s, PM("KickOff", x)) IN
           /\ t \in State /\ Core(t) /\ t.mode.kind = "KickOff" /\ t.timer = DropTime
           /\ t.taker = NoOne
<1> DEFINE pm == PM("KickOff", x)
           t == placeBall(s, pm)
<1>1. pm \in PlayMode /\ pm.kind = "KickOff" /\ pm # PlayOn
  BY CallKinds DEF RestartKinds, FreeKickKinds
<1>2. s.catcher = NoOne
  BY HolderKinds, NeutralModes
<1> HIDE DEF pm
<1>3. /\ ChangedTo(s, t, pm) /\ TakerAfter(s, t, pm)
      /\ ~ t.moving /\ t.catcher \in {s.catcher, NoOne}
  BY <1>1, PlaceResult
<1> HIDE DEF t
<1>4. /\ t \in State /\ t.mode.kind = "KickOff" /\ t.timer = DropTime /\ t.taker = NoOne
      /\ t.catcher = NoOne
  BY <1>1, <1>2, <1>3 DEF ChangedTo, TakerAfter, RestartKinds, FreeKickKinds
<1>5. Core(t)
  BY <1>3, <1>4 DEF Core, Held, Rolls, Taken, OneOffender
<1> QED  BY <1>4, <1>5 DEF t, pm

LEMMA DispFoulSound ==
    ASSUME NEW s \in State, NEW x \in Sides \cup {Neutral}
    PROVE  LET t == IF x = Neutral THEN awardDropBall(s) ELSE Call(s, PM("FreeKick", x)) IN
           /\ t \in State /\ Core(t) /\ t.taker = NoOne
           /\ x = Neutral => t.mode = PlayOn /\ t.indirect = s.indirect /\ t.indKicker = s.indKicker
           /\ x # Neutral => t.mode.kind = "FreeKick" /\ t.timer = DropTime
<1> DEFINE a == awardDropBall(s)
           b == Call(s, PM("FreeKick", x))
           t == IF x = Neutral THEN a ELSE b
<1>1. CASE x = Neutral
  <2>1. a \in State /\ Dropped(s, a)
    BY DropDrops
  <2> HIDE DEF a
  <2>2. Core(a)
    BY <2>1, NeutralModes DEF Dropped, Placed, Core, Held, Rolls, Taken, OneOffender
  <2> QED  BY <1>1, <2>1, <2>2 DEF Dropped, a
<1>2. CASE x # Neutral
  <2>0. x \in Sides
    BY <1>2
  <2>1. PM("FreeKick", x).kind = "FreeKick" /\ PM("FreeKick", x) \in PlayMode
    BY <2>0, CallKinds DEF RestartKinds, FreeKickKinds
  <2>2. b \in State /\ Restarted(b, PM("FreeKick", x))
    BY <2>0, CallRestarts, CallKinds DEF RestartKinds, FreeKickKinds
  <2> HIDE DEF b
  <2>3. /\ b.mode.kind = "FreeKick" /\ b.timer = DropTime /\ ~ b.moving /\ b.catcher = NoOne
        /\ b.taker = NoOne
    BY <2>1, <2>2 DEF Restarted, Placed, RestartKinds, FreeKickKinds
  <2>4. Core(b)
    BY <2>3 DEF Core, Held, Rolls, Taken, OneOffender
  <2> QED  BY <1>2, <2>2, <2>3, <2>4 DEF b
<1> QED  BY <1>1, <1>2


------------------------------------------------------------------------------
(* The inductive invariant: the state of the referees and the history.      *)

\* The timer of a kick counts the cycles that it was waited for.
KickWaits ==
    IF st.mode.kind \in FreeKickKinds
    THEN st.timer >= 1 /\ st.timer + hist.waited \in {DropTime - 1, DropTime}
    ELSE hist.waited = 0

\* TouchRef remembers an indirect kick as long as one player has played the ball.
OpenIsIndirect == hist.open => Indirect(st.mode) /\ st.indirect /\ st.indKicker = hist.first

\* The taker of a kick is the last to have played the ball.
LastTook == st.taker # NoOne => hist.last = st.taker

SetPlayInv == TypeOK /\ Core(st) /\ KickWaits /\ OpenIsIndirect /\ LastTook

\* The fields of the history have their types.
LEMMA HistoryFields ==
    ASSUME NEW h \in History
    PROVE  /\ h.last \in Players \cup {NoOne} /\ h.free \in BOOLEAN /\ h.sides \in SUBSET Sides
           /\ h.now \in BOOLEAN /\ h.kickSides \in SUBSET Sides /\ h.kickNow \in BOOLEAN
           /\ h.open \in BOOLEAN /\ h.first \in Players \cup {NoOne} /\ h.waited \in Nat
BY DEF History

\* What Play writes: the history keeps its type, and these fields get these values.
LEMMA PlayResult ==
    ASSUME NEW h \in History, NEW p \in Players, NEW kicked \in BOOLEAN
    PROVE  LET g == Play(h, p, kicked) IN
           /\ g \in History /\ g.last = p
           /\ g.open = (h.open /\ ~ Closed /\ h.first \in {NoOne, p})
           /\ g.first = (IF h.open /\ ~ Closed THEN p ELSE NoOne)
           /\ g.waited = (IF st'.mode = st.mode THEN h.waited ELSE 0)
<1>1. PICK f \in BOOLEAN : f <=> (st.mode.kind \in NoOffsideKinds)
  OBVIOUS
<1>2. PICK sides \in SUBSET Sides : sides = If(h.now, h.sides) \cup {Side(p)}
  BY HistoryFields, PlayerSides DEF If
<1>3. PICK kickSides \in SUBSET Sides :
        kickSides = IF kicked THEN If(h.kickNow, h.kickSides) \cup {Side(p)} ELSE h.kickSides
  BY HistoryFields, PlayerSides DEF If
<1>4. PICK k \in BOOLEAN : k = (h.kickNow \/ kicked)
  OBVIOUS
<1>5. PICK o \in BOOLEAN : o = (h.open /\ ~ Closed /\ h.first \in {NoOne, p})
  OBVIOUS
<1>6. PICK first \in Players \cup {NoOne} : first = IF h.open /\ ~ Closed THEN p ELSE NoOne
  OBVIOUS
<1>7. PICK n \in Nat : n = IF st'.mode = st.mode THEN h.waited ELSE 0
  BY HistoryFields
<1> DEFINE g == [h EXCEPT !.last = p, !.free = f, !.sides = sides, !.now = TRUE,
                          !.kickSides = kickSides, !.kickNow = k, !.open = o,
                          !.first = first, !.waited = n]
<1>8. Play(h, p, kicked) = g
  BY <1>1, <1>2, <1>3, <1>4, <1>5, <1>6, <1>7 DEF Play, History
<1>9. g \in History
  <2>1. ASSUME NEW r \in History PROVE [r EXCEPT !.last = p, !.free = f] \in History
    BY DEF History
  <2>2. ASSUME NEW r \in History PROVE [r EXCEPT !.sides = sides, !.now = TRUE] \in History
    BY DEF History
  <2>3. ASSUME NEW r \in History PROVE [r EXCEPT !.kickSides = kickSides, !.kickNow = k] \in History
    BY DEF History
  <2>4. ASSUME NEW r \in History PROVE [r EXCEPT !.open = o, !.first = first] \in History
    BY DEF History
  <2>5. ASSUME NEW r \in History PROVE [r EXCEPT !.waited = n] \in History
    BY DEF History
  <2>6. [[[[[h EXCEPT !.last = p, !.free = f] EXCEPT !.sides = sides, !.now = TRUE]
             EXCEPT !.kickSides = kickSides, !.kickNow = k] EXCEPT !.open = o, !.first = first]
             EXCEPT !.waited = n] \in History
    BY <2>1, <2>2, <2>3, <2>4, <2>5, Zenon
  <2> QED  BY <2>6
<1>10. g.last = p /\ g.open = o
  BY DEF History
<1>11. g.first = first /\ g.waited = n
  BY DEF History
<1> HIDE DEF g
<1> QED  BY <1>5, <1>6, <1>7, <1>8, <1>9, <1>10, <1>11

\* A play of the ball preserves the invariant.
LEMMA PlayInv ==
    ASSUME SetPlayInv, NEW p \in Players, NEW kicked \in BOOLEAN, Sound(st, st', p),
           hist' = Play(hist, p, kicked), done' \subseteq Players
    PROVE  SetPlayInv'
<1>0. /\ st \in State /\ hist \in History /\ st' \in State /\ Core(st')
      /\ DropTime \in Nat \ {0, 1} /\ hist.waited \in Nat
  BY HistoryFields, Constants DEF SetPlayInv, TypeOK, Sound
<1>1. /\ hist' \in History /\ hist'.last = p
      /\ hist'.open = (hist.open /\ ~ Closed /\ hist.first \in {NoOne, p})
      /\ hist'.first = (IF hist.open /\ ~ Closed THEN p ELSE NoOne)
      /\ hist'.waited = (IF st'.mode = st.mode THEN hist.waited ELSE 0)
  BY <1>0, PlayResult
<1>2. TypeOK'
  BY <1>0, <1>1 DEF TypeOK
<1>3. KickWaits'
  <2>1. st'.mode.kind \in FreeKickKinds =>
          st'.timer = (IF st'.mode = st.mode THEN st.timer ELSE DropTime)
    BY DEF Sound, TimerAfter
  <2>2. CASE st'.mode = st.mode
    BY <1>1, <2>1, <2>2 DEF SetPlayInv, KickWaits
  <2>3. CASE st'.mode # st.mode
    BY <1>0, <1>1, <2>1, <2>3 DEF KickWaits
  <2> QED  BY <2>2, <2>3
<1>4. OpenIsIndirect'
  <2>1. SUFFICES ASSUME hist'.open PROVE Indirect(st'.mode) /\ st'.indirect /\ st'.indKicker = hist'.first
    BY DEF OpenIsIndirect
  <2>2. hist.open /\ ~ Closed /\ hist.first \in {NoOne, p} /\ hist'.first = p
    BY <1>1, <2>1
  <2>3. Indirect(st.mode) /\ st.indirect /\ st.indKicker \in {NoOne, p} /\ Indirect(st'.mode)
    BY <2>2 DEF SetPlayInv, OpenIsIndirect, Closed, Indirect
  <2> QED  BY <2>2, <2>3 DEF Sound, IndirectKept
<1>5. LastTook'
  BY <1>1 DEF LastTook, Sound
<1> QED  BY <1>0, <1>2, <1>3, <1>4, <1>5 DEF SetPlayInv


\* A catch ends the play, whoever touched the ball before.
LEMMA CatchInv ==
    ASSUME SetPlayInv, NEW p \in Players, Sound(st, st', p), st.mode = PlayOn,
           st'.mode.kind \in {"CatchFault", "Back_Pass", "FreeKick"},
           NEW h \in History, done' \subseteq Players, hist' = Play(h, p, FALSE)
    PROVE  SetPlayInv'
<1>0. st' \in State /\ Core(st') /\ DropTime \in Nat \ {0, 1}
  BY Constants DEF Sound
<1>1. Closed /\ st'.mode # st.mode
  BY NeutralModes DEF Closed
<1>2. hist' \in History /\ hist'.last = p /\ ~ hist'.open /\ hist'.waited = 0
  BY <1>1, PlayResult
<1>3. TypeOK' /\ LastTook' /\ OpenIsIndirect'
  BY <1>0, <1>2 DEF TypeOK, LastTook, OpenIsIndirect, Sound
<1>4. KickWaits'
  <2>1. st'.mode.kind \in FreeKickKinds => st'.timer = DropTime
    BY <1>1 DEF Sound, TimerAfter
  <2>2. DropTime >= 1 /\ DropTime + 0 = DropTime
    BY <1>0
  <2> QED  BY <1>2, <2>1, <2>2 DEF KickWaits
<1> QED  BY <1>0, <1>3, <1>4 DEF SetPlayInv

LEMMA CycledResult ==
    ASSUME hist \in History, Cycled
    PROVE  /\ hist' \in History /\ hist'.last = hist.last
           /\ hist'.open = (Opened \/ (hist.open /\ ~ Closed))
           /\ hist'.first = (IF Opened \/ Closed THEN NoOne ELSE hist.first)
           /\ hist'.waited = (IF st'.mode = st.mode /\ st.mode.kind \in FreeKickKinds
                              THEN hist.waited + 1 ELSE 0)
<1>0. hist.waited \in Nat /\ hist.first \in Players \cup {NoOne}
  BY HistoryFields
<1>1. PICK o \in BOOLEAN : o = (Opened \/ (hist.open /\ ~ Closed))
  OBVIOUS
<1>2. PICK first \in Players \cup {NoOne} : first = IF Opened \/ Closed THEN NoOne ELSE hist.first
  BY <1>0
<1>3. PICK n \in Nat : n = IF st'.mode = st.mode /\ st.mode.kind \in FreeKickKinds
                           THEN hist.waited + 1 ELSE 0
  BY <1>0
<1> DEFINE g == [hist EXCEPT !.now = FALSE, !.kickNow = FALSE, !.open = o, !.first = first,
                             !.waited = n]
<1>4. hist' = g
  BY <1>1, <1>2, <1>3 DEF Cycled, History
<1>5. g \in History /\ g.last = hist.last /\ g.open = o /\ g.first = first /\ g.waited = n
  BY DEF History
<1> HIDE DEF g
<1> QED  BY <1>1, <1>2, <1>3, <1>4, <1>5

LEMMA StepCycles ==
    ASSUME SetPlayInv, Step
    PROVE  CycleSound(st, st') /\ Cycled /\ done' = {}
<1>1. PICK v \in Views(st) :
        LET s == IF IsStopped(st.mode) THEN [st EXCEPT !.catcher = NoOne] ELSE st
            t == analyse(s, v)
            back == v.half = "back"
            clockRan == \/ IsLive(st.mode) /\ ~ back
                        \/ IsStopped(st.mode) /\ t.mode # st.mode
        IN  st' = Stale(t, clockRan, back) /\ Cycled
  BY DEF Step
<1> DEFINE s == IF IsStopped(st.mode) THEN [st EXCEPT !.catcher = NoOne] ELSE st
           t == analyse(s, v)
<1>2. PICK back \in BOOLEAN : back = (v.half = "back")
  OBVIOUS
<1>3. PICK clockRan \in BOOLEAN : clockRan = (\/ IsLive(st.mode) /\ ~ back
                                              \/ IsStopped(st.mode) /\ t.mode # st.mode)
  OBVIOUS
<1>4. st' = Stale(t, clockRan, back) /\ Cycled
  BY <1>1, <1>2, <1>3
<1>5. st \in State /\ Core(st) /\ (st.mode.kind \in FreeKickKinds => st.timer >= 1)
  BY DEF SetPlayInv, TypeOK, KickWaits
<1>6. CycleSound(st, st')
  BY <1>4, <1>5, StepSound
<1> QED  BY <1>4, <1>6 DEF Step

LEMMA StepInv ==
    ASSUME SetPlayInv, Step
    PROVE  SetPlayInv'
<1>0. /\ CycleSound(st, st') /\ Cycled /\ done' = {} /\ st \in State /\ hist \in History
      /\ st' \in State /\ Core(st') /\ DropTime \in Nat \ {0, 1} /\ hist.waited \in Nat
  BY StepCycles, HistoryFields, Constants DEF SetPlayInv, TypeOK, CycleSound
<1>1. /\ hist' \in History /\ hist'.last = hist.last
      /\ hist'.open = (Opened \/ (hist.open /\ ~ Closed))
      /\ hist'.first = (IF Opened \/ Closed THEN NoOne ELSE hist.first)
      /\ hist'.waited = (IF st'.mode = st.mode /\ st.mode.kind \in FreeKickKinds
                         THEN hist.waited + 1 ELSE 0)
  BY <1>0, CycledResult
<1>2. TypeOK'
  BY <1>0, <1>1 DEF TypeOK
<1>3. KickWaits'
  <2>1. st.timer \in Int
    BY <1>0, Fields
  <2>2. CASE st'.mode.kind \in FreeKickKinds /\ st'.mode = st.mode
    <3>1. st'.timer = st.timer - 1 /\ st'.timer >= 1 /\ hist'.waited = hist.waited + 1
      BY <1>0, <1>1, <2>2 DEF CycleSound
    <3>2. st.timer + hist.waited \in {DropTime - 1, DropTime}
      BY <2>2 DEF SetPlayInv, KickWaits
    <3>3. st'.timer + hist'.waited = st.timer + hist.waited
      BY <1>0, <2>1, <3>1
    <3> QED  BY <2>2, <3>1, <3>2, <3>3 DEF KickWaits
  <2>3. CASE st'.mode.kind \in FreeKickKinds /\ st'.mode # st.mode
    <3>1. st'.timer \in {DropTime - 1, DropTime} /\ hist'.waited = 0
      BY <1>0, <1>1, <2>3 DEF CycleSound
    <3> QED  BY <1>0, <2>3, <3>1 DEF KickWaits
  <2>4. CASE st'.mode.kind \notin FreeKickKinds
    BY <1>1, <2>4 DEF KickWaits
  <2> QED  BY <2>2, <2>3, <2>4
<1>4. OpenIsIndirect'
  <2>1. CASE Opened
    BY <1>0, <1>1, <2>1 DEF OpenIsIndirect, Opened, CycleSound, Indirect
  <2>2. CASE ~ Opened /\ hist.open /\ ~ Closed
    <3>1. Indirect(st.mode) /\ st.indirect /\ st.indKicker = hist.first
      BY <2>2 DEF SetPlayInv, OpenIsIndirect
    <3>2. Indirect(st'.mode) /\ (st'.mode.kind = "IndFreeKick" => st.mode.kind = "IndFreeKick")
      BY <2>2 DEF Closed, Opened, Indirect
    <3>3. st'.indirect = st.indirect /\ st'.indKicker = st.indKicker
      BY <1>0, <3>1, <3>2 DEF CycleSound
    <3> QED  BY <1>1, <2>2, <3>1, <3>2, <3>3 DEF OpenIsIndirect
  <2>3. CASE ~ hist'.open
    BY <2>3 DEF OpenIsIndirect
  <2> QED  BY <1>1, <2>1, <2>2, <2>3
<1>5. LastTook'
  BY <1>0, <1>1 DEF SetPlayInv, LastTook, CycleSound
<1> QED  BY <1>0, <1>2, <1>3, <1>4, <1>5 DEF SetPlayInv


LEMMA InitInv == Init => SetPlayInv
<1>0. SUFFICES ASSUME Init PROVE SetPlayInv
  OBVIOUS
<1>1. PICK a \in Sides \cup {Neutral}, n \in BOOLEAN :
        st = [mode |-> BeforeKickOff, moving |-> FALSE, catcher |-> NoOne,
              after |-> 0, stuck |-> 0, cands |-> {}, kicker |-> Neutral,
              kickNow |-> FALSE, illegal |-> [x \in Sides |-> 0],
              attacker |-> IF UseIllegalDefense THEN a ELSE Neutral,
              attackNow |-> UseIllegalDefense /\ n,
              taker |-> NoOne, dashed |-> FALSE, goalKicks |-> 0, timer |-> -1,
              touch |-> Neutral, strength |-> "none", indirect |-> FALSE,
              indKicker |-> NoOne, touched |-> {}, passer |-> NoOne,
              passer2 |-> NoOne, passNow |-> FALSE]
  BY <1>0 DEF Init
<1>2. PICK w \in Sides \cup {Neutral} : w = IF UseIllegalDefense THEN a ELSE Neutral
  OBVIOUS
<1>3. PICK k \in BOOLEAN : k = (UseIllegalDefense /\ n)
  OBVIOUS
<1>4. PICK f \in [Sides -> 0 .. IllegalDuration - 1] : f = [x \in Sides |-> 0]
  <2>1. [x \in Sides |-> 0] \in [Sides -> 0 .. IllegalDuration - 1]
    BY Constants
  <2> QED  BY <2>1
<1>5. st = [mode |-> BeforeKickOff, moving |-> FALSE, catcher |-> NoOne,
            after |-> 0, stuck |-> 0, cands |-> {}, kicker |-> Neutral,
            kickNow |-> FALSE, illegal |-> f, attacker |-> w, attackNow |-> k,
            taker |-> NoOne, dashed |-> FALSE, goalKicks |-> 0, timer |-> -1,
            touch |-> Neutral, strength |-> "none", indirect |-> FALSE,
            indKicker |-> NoOne, touched |-> {}, passer |-> NoOne,
            passer2 |-> NoOne, passNow |-> FALSE]
  BY <1>1, <1>2, <1>3, <1>4
<1>6. /\ 0 \in 0..Wait /\ 0 \in 0 .. DropTime - 1 /\ 0 \in -1..MaxGoalKicks /\ -1 \in -1..DropTime
      /\ BeforeKickOff \in PlayMode
  BY Constants, NeutralModes
<1>7. st \in State
  BY <1>5, <1>6 DEF State
<1>8. hist \in History /\ ~ hist.open /\ hist.waited = 0
  BY <1>0 DEF Init, History
<1>9. /\ st.mode.kind = "BeforeKickOff" /\ ~ st.moving /\ st.catcher = NoOne /\ st.taker = NoOne
  BY <1>1, NeutralModes
<1>10. Core(st)
  BY <1>9 DEF Core, Held, Rolls, Taken, OneOffender
<1>11. KickWaits /\ OpenIsIndirect /\ LastTook
  BY <1>8, <1>9 DEF KickWaits, OpenIsIndirect, LastTook, FreeKickKinds
<1>12. TypeOK
  BY <1>0, <1>7, <1>8 DEF TypeOK, Init
<1> QED  BY <1>10, <1>11, <1>12 DEF SetPlayInv

LEMMA MarksArePlayers ==
    ASSUME NEW p
    PROVE  Marks(p) \subseteq SUBSET Players
BY DEF Marks, Mates

Plays(p) == Kick(p) \/ Tackle(p) \/ Touch(p) \/ Catch(p) \/ Punch(p)

\* What the plays of the ball by p have in common.
LEMMA PlaysSound ==
    ASSUME SetPlayInv, NEW p \in Players, Plays(p)
    PROVE  /\ Sound(st, st', p) /\ done' \subseteq Players
           /\ \/ \E kicked \in BOOLEAN : hist' = Play(hist, p, kicked)
              \/ /\ st.mode = PlayOn /\ st'.mode.kind \in {"CatchFault", "Back_Pass", "FreeKick"}
                 /\ \E h \in History : hist' = Play(h, p, FALSE)
           /\ \/ p \notin done /\ done' = done \cup {p}
              \/ done' = done
<1>0. /\ st \in State /\ Core(st) /\ done \subseteq Players /\ hist \in History
      /\ Powers(st) \subseteq {"none", "less", "most"} /\ {} \in SUBSET Players
  BY DEF SetPlayInv, TypeOK, Powers, If
<1>1. CASE Kick(p)
  <2>1. PICK power \in Powers(st), marked \in Marks(p) : st' = kickTaken(st, p, power, marked)
    BY <1>1 DEF Kick
  <2>2. Sound(st, st', p)
    BY <1>0, <1>1, <2>1, MarksArePlayers, KickSound DEF Kick
  <2> QED  BY <1>0, <1>1, <2>2 DEF Kick, Commands, Played
<1>2. CASE Tackle(p)
  <2>1. PICK power \in Powers(st), marked \in Marks(p), charge \in BOOLEAN :
          st' = tackleTaken(st, p, power, marked, charge)
    BY <1>2 DEF Tackle
  <2>2. Sound(st, st', p)
    BY <1>0, <1>2, <2>1, MarksArePlayers, TackleSound DEF Tackle
  <2> QED  BY <1>0, <1>2, <2>2 DEF Tackle, Commands, Played
<1>3. CASE Touch(p)
  <2>1. PICK marked \in Marks(p) : st' = ballTouched(st, p, marked)
    BY <1>3 DEF Touch
  <2>2. Sound(st, st', p)
    BY <1>0, <2>1, MarksArePlayers, TouchSound
  <2> QED  BY <1>0, <1>3, <2>2 DEF Touch, Played
<1>4. CASE Catch(p)
  <2>1. PICK marked \in Marks(p), inArea \in BOOLEAN, q \in Players \cup {NoOne} :
          /\ st' = ballCaught(st, p, marked, inArea, q)
          /\ hist' = Play(IF q = NoOne THEN hist ELSE Play(hist, q, FALSE), p, FALSE)
    BY <1>4 DEF Catch
  <2>2. p \in Goalies /\ st.mode = PlayOn
    BY <1>4 DEF Catch
  <2>3. Sound(st, st', p) /\ st'.mode.kind \in {"CatchFault", "Back_Pass", "FreeKick"}
    BY <1>0, <2>1, <2>2, MarksArePlayers, CatchSound
  <2>4. q # NoOne => Play(hist, q, FALSE) \in History
    BY <1>0, PlayResult
  <2>5. \E h \in History : hist' = Play(h, p, FALSE)
    <3>1. CASE q = NoOne
      BY <1>0, <2>1, <3>1
    <3>2. CASE q # NoOne
      <4>1. hist' = Play(Play(hist, q, FALSE), p, FALSE)
        BY <2>1, <3>2
      <4> QED  BY <2>4, <3>2, <4>1
    <3> QED  BY <3>1, <3>2
  <2> QED  BY <1>0, <1>4, <2>2, <2>3, <2>5 DEF Catch, Commands
<1>5. CASE Punch(p)
  <2>1. PICK marked \in Marks(p), inArea \in BOOLEAN :
          st' = ballPunched(st, p, marked, inArea)
    BY <1>5 DEF Punch
  <2>2. p \in Goalies /\ st.mode = PlayOn
    BY <1>5 DEF Punch
  <2>3. Sound(st, st', p)
    BY <1>0, <2>1, <2>2, MarksArePlayers, PunchSound
  <2> QED  BY <1>0, <1>5, <2>3 DEF Punch, Commands, Played
<1> QED  BY <1>1, <1>2, <1>3, <1>4, <1>5 DEF Plays


\* What a kick or tackle that missed the ball makes of the history.
LEMMA MissInv ==
    ASSUME SetPlayInv, NEW p \in Players, Miss(p)
    PROVE  SetPlayInv' /\ ModeMoves(st.mode, st'.mode) /\ (st' = st \/ st'.mode.kind = "OffSide")
<1>0. /\ st \in State /\ Core(st) /\ hist \in History /\ done' \subseteq Players
      /\ hist.first \in Players \cup {NoOne} /\ hist.waited \in Nat
  BY HistoryFields DEF SetPlayInv, TypeOK, Miss, Commands
<1>1. /\ st' \in State /\ Core(st') /\ ModeMoves(st.mode, st'.mode)
      /\ st' = st \/ (st'.mode.kind = "OffSide" /\ st'.taker = NoOne)
  BY <1>0, MissSound DEF Miss
<1>2. PICK o \in BOOLEAN : o = (hist.open /\ ~ Closed)
  OBVIOUS
<1>3. PICK first \in Players \cup {NoOne} : first = IF Closed THEN NoOne ELSE hist.first
  BY <1>0
<1>4. PICK n \in Nat : n = IF st'.mode = st.mode THEN hist.waited ELSE 0
  BY <1>0
<1> DEFINE g == [hist EXCEPT !.open = o, !.first = first, !.waited = n]
<1>5. hist' = g
  BY <1>0, <1>2, <1>3, <1>4 DEF Miss, History
<1>6. g \in History /\ g.last = hist.last /\ g.open = o /\ g.first = first /\ g.waited = n
  BY <1>0 DEF History
<1> HIDE DEF g
<1>7. TypeOK'
  BY <1>0, <1>1, <1>5, <1>6 DEF TypeOK
<1>8. LastTook'
  BY <1>1, <1>5, <1>6 DEF SetPlayInv, LastTook
<1>9. OpenIsIndirect'
  <2>1. CASE st' = st
    BY <1>2, <1>3, <1>5, <1>6, <2>1 DEF SetPlayInv, OpenIsIndirect, Closed, Indirect
  <2>2. CASE st'.mode.kind = "OffSide"
    BY <1>2, <1>5, <1>6, <2>2 DEF OpenIsIndirect, Closed
  <2> QED  BY <1>1, <2>1, <2>2
<1>10. KickWaits'
  <2>1. CASE st' = st
    BY <1>4, <1>5, <1>6, <2>1 DEF SetPlayInv, KickWaits
  <2>2. CASE st'.mode.kind = "OffSide"
    BY <1>4, <1>5, <1>6, <2>2 DEF SetPlayInv, KickWaits, FreeKickKinds
  <2> QED  BY <1>1, <2>1, <2>2
<1> QED  BY <1>1, <1>7, <1>8, <1>9, <1>10 DEF SetPlayInv

LEMMA DashInv ==
    ASSUME SetPlayInv, NEW p \in Players, Dash(p)
    PROVE  SetPlayInv' /\ st'.mode = st.mode
<1>1. st \in State /\ Core(st) /\ hist' = hist /\ done' \subseteq Players
  BY DEF SetPlayInv, TypeOK, Dash, Commands
<1>2. st' \in State /\ Idle(st, st')
  BY <1>1, DashUpdate DEF Dash
<1>3. /\ st'.mode = st.mode /\ st'.taker = st.taker /\ st'.timer = st.timer
      /\ st'.indirect = st.indirect /\ st'.indKicker = st.indKicker
  BY <1>2 DEF Idle, SamePlay, SameKick
<1>4. TypeOK' /\ Core(st')
  BY <1>1, <1>2, IdleCore DEF SetPlayInv, TypeOK
<1>5. KickWaits' /\ OpenIsIndirect' /\ LastTook'
  BY <1>1, <1>3 DEF SetPlayInv, KickWaits, OpenIsIndirect, LastTook
<1> QED  BY <1>3, <1>4, <1>5 DEF SetPlayInv

LEMMA KickOffInv ==
    ASSUME SetPlayInv, NEW x \in Sides, KickOff(x)
    PROVE  SetPlayInv' /\ st'.mode.kind = "KickOff"
<1>1. st \in State /\ Core(st) /\ hist' = hist /\ done' = done /\ st.mode = BeforeKickOff
  BY DEF SetPlayInv, TypeOK, KickOff
<1>2. /\ st' \in State /\ Core(st') /\ st'.mode.kind = "KickOff" /\ st'.timer = DropTime
      /\ st'.taker = NoOne
  BY <1>1, KickOffSound DEF KickOff
<1>3. st.mode.kind = "BeforeKickOff"
  BY <1>1, NeutralModes
<1>4. hist.waited = 0 /\ ~ hist.open
  BY <1>3 DEF SetPlayInv, KickWaits, OpenIsIndirect, Indirect, FreeKickKinds
<1>5. DropTime >= 1 /\ DropTime + 0 = DropTime
  BY Constants
<1>6. TypeOK' /\ LastTook' /\ OpenIsIndirect'
  BY <1>1, <1>2, <1>4 DEF SetPlayInv, TypeOK, LastTook, OpenIsIndirect
<1>7. KickWaits'
  BY <1>1, <1>2, <1>4, <1>5 DEF KickWaits
<1> QED  BY <1>2, <1>6, <1>7 DEF SetPlayInv

LEMMA DispFoulInv ==
    ASSUME SetPlayInv, NEW x \in Sides \cup {Neutral}, DispFoul(x)
    PROVE  SetPlayInv' /\ st'.mode.kind \in {"PlayOn", "FreeKick"}
<1>0. /\ st \in State /\ hist \in History /\ done' = done /\ hist.first \in Players \cup {NoOne}
  BY HistoryFields DEF SetPlayInv, TypeOK, DispFoul
<1>1. /\ st' \in State /\ Core(st') /\ st'.taker = NoOne
      /\ x = Neutral => st'.mode = PlayOn /\ st'.indirect = st.indirect /\ st'.indKicker = st.indKicker
      /\ x # Neutral => st'.mode.kind = "FreeKick" /\ st'.timer = DropTime
  BY <1>0, DispFoulSound DEF DispFoul
<1>2. PICK o \in BOOLEAN : o = (hist.open /\ x = Neutral)
  OBVIOUS
<1>3. PICK first \in Players \cup {NoOne} : first = IF x = Neutral THEN hist.first ELSE NoOne
  BY <1>0
<1> DEFINE g == [hist EXCEPT !.open = o, !.first = first, !.waited = 0]
<1>4. hist' = g
  BY <1>0, <1>2, <1>3 DEF DispFoul, History
<1>5. g \in History /\ g.open = o /\ g.first = first /\ g.waited = 0
  BY <1>0 DEF History
<1> HIDE DEF g
<1>6. st'.mode.kind \in {"PlayOn", "FreeKick"} /\ (x = Neutral => st'.mode.kind = "PlayOn")
  BY <1>1, NeutralModes
<1>7. TypeOK' /\ LastTook'
  BY <1>0, <1>1, <1>4, <1>5 DEF SetPlayInv, TypeOK, LastTook
<1>8. OpenIsIndirect'
  BY <1>1, <1>2, <1>3, <1>4, <1>5, <1>6 DEF SetPlayInv, OpenIsIndirect, Indirect
<1>9. KickWaits'
  <2>1. DropTime >= 1 /\ DropTime + 0 = DropTime
    BY Constants
  <2> QED  BY <1>1, <1>4, <1>5, <1>6, <2>1 DEF KickWaits, FreeKickKinds
<1> QED  BY <1>1, <1>6, <1>7, <1>8, <1>9 DEF SetPlayInv

LEMMA NextInv == SetPlayInv /\ [Next]_vars => SetPlayInv'
<1>0. SUFFICES ASSUME SetPlayInv, [Next]_vars PROVE SetPlayInv'
  OBVIOUS
<1>1. CASE Step
  BY <1>0, <1>1, StepInv
<1>2. ASSUME NEW p \in Players, Plays(p)
      PROVE  SetPlayInv'
  <2>1. /\ Sound(st, st', p) /\ done' \subseteq Players
        /\ \/ \E kicked \in BOOLEAN : hist' = Play(hist, p, kicked)
           \/ /\ st.mode = PlayOn /\ st'.mode.kind \in {"CatchFault", "Back_Pass", "FreeKick"}
              /\ \E h \in History : hist' = Play(h, p, FALSE)
    BY <1>0, <1>2, PlaysSound
  <2>2. CASE \E kicked \in BOOLEAN : hist' = Play(hist, p, kicked)
    BY <1>0, <2>1, <2>2, PlayInv
  <2>3. CASE /\ st.mode = PlayOn /\ st'.mode.kind \in {"CatchFault", "Back_Pass", "FreeKick"}
             /\ \E h \in History : hist' = Play(h, p, FALSE)
    BY <1>0, <2>1, <2>3, CatchInv
  <2> QED  BY <2>1, <2>2, <2>3
<1>3. ASSUME NEW p \in Players, Miss(p) \/ Dash(p)
      PROVE  SetPlayInv'
  BY <1>0, <1>3, MissInv, DashInv
<1>4. ASSUME NEW x \in Sides, KickOff(x)
      PROVE  SetPlayInv'
  BY <1>0, <1>4, KickOffInv
<1>5. ASSUME NEW x \in Sides \cup {Neutral}, DispFoul(x)
      PROVE  SetPlayInv'
  BY <1>0, <1>5, DispFoulInv
<1>6. CASE UNCHANGED vars
  BY <1>0, <1>6 DEF vars, SetPlayInv, TypeOK, KickWaits, OpenIsIndirect, LastTook
<1> QED  BY <1>0, <1>1, <1>2, <1>3, <1>4, <1>5, <1>6 DEF Next, Plays


------------------------------------------------------------------------------
(* The theorems.                                                            *)

LEMMA SetPlayInvHolds == Spec => []SetPlayInv
BY InitInv, NextInv, PTL DEF Spec

\* Every variable has its type: the timers and counters of the field referees stay
\* in their bounds in any order of kicks, tackles, touches, catches and cycles.
THEOREM RefereesTyped == Spec => []TypeOK
<1>1. SetPlayInv => TypeOK
  BY DEF SetPlayInv
<1> QED  BY <1>1, SetPlayInvHolds, PTL

\* A goalie holds the ball (M_ball_catcher) only in its own free kick or after a
\* goal, whichever referee overrules another in changePlayMode.
THEOREM CatcherHasFreeKickHolds == Spec => []CatcherHasFreeKick
<1>1. SetPlayInv => CatcherHasFreeKick
  BY DEF SetPlayInv, Core, Held, CatcherHasFreeKick
<1> QED  BY <1>1, SetPlayInvHolds, PTL

\* The change of the play mode in a step, by the actor.
LEMMA ModesOfStep ==
    ASSUME SetPlayInv, [Next]_vars
    PROVE  \/ ModeMoves(st.mode, st'.mode)
           \/ \E side \in Sides : KickOff(side)
           \/ \E side \in Sides \cup {Neutral} : DispFoul(side)
<1>1. CASE Step
  BY <1>1, StepCycles DEF CycleSound
<1>2. ASSUME NEW p \in Players, Plays(p)
      PROVE  ModeMoves(st.mode, st'.mode)
  BY <1>2, PlaysSound DEF Sound
<1>3. ASSUME NEW p \in Players, Miss(p) \/ Dash(p)
      PROVE  ModeMoves(st.mode, st'.mode)
  BY <1>3, MissInv, DashInv DEF ModeMoves
<1>4. CASE UNCHANGED vars
  BY <1>4 DEF vars, ModeMoves
<1> QED  BY <1>1, <1>2, <1>3, <1>4 DEF Next, Plays

\* The referees, for any order of the events and any calls that overrule each
\* other within a cycle, change the play mode only as MatchClock assumes of them.
THEOREM MovesAsMatchClockHolds == Spec => MovesAsMatchClock
<1> DEFINE Moves == \/ st'.mode = st.mode
                    \/ \E side \in Sides : KickOff(side)
                    \/ \E side \in Sides \cup {Neutral} : DispFoul(side)
                    \/ st'.mode \in MovesOf(st.mode)
<1>1. SetPlayInv /\ [Next]_vars => [Moves]_vars
  BY ModesOfStep DEF ModeMoves
<1>2. MovesAsMatchClock <=> [][Moves]_vars
  BY DEF MovesAsMatchClock
<1> HIDE DEF Moves
<1> QED  BY <1>1, <1>2, SetPlayInvHolds, PTL DEF Spec

\* FreeKickRef's timer: nobody waits longer than drop_ball_time cycles for a kick,
\* and the ball is dropped at most one cycle earlier than that.
THEOREM RestartInTimeHolds == Spec => RestartInTime
<1> DEFINE InTime ==
             /\ hist'.waited < DropTime
             /\ (/\ st.mode.kind \in FreeKickKinds /\ ~ st.moving /\ st.catcher = NoOne
                 /\ st'.mode = PlayOn /\ Step) => hist.waited >= DropTime - 2
<1>1. SetPlayInv /\ [Next]_vars => InTime
  <2>0. SUFFICES ASSUME SetPlayInv, [Next]_vars PROVE InTime
    OBVIOUS
  <2>1. SetPlayInv'
    BY <2>0, NextInv
  <2>2. DropTime \in Nat \ {0, 1} /\ hist.waited \in Nat /\ hist'.waited \in Nat
    BY <2>0, <2>1, Constants, HistoryFields DEF SetPlayInv, TypeOK
  <2>3. st.timer \in Int /\ st'.timer \in Int
    BY <2>0, <2>1, Fields DEF SetPlayInv, TypeOK
  <2>4. hist'.waited < DropTime
    <3>1. \/ st'.timer >= 1 /\ st'.timer + hist'.waited \in {DropTime - 1, DropTime}
          \/ hist'.waited = 0
      BY <2>1 DEF SetPlayInv, KickWaits
    <3> QED  BY <2>2, <2>3, <3>1
  <2>5. ASSUME st.mode.kind \in FreeKickKinds, ~ st.moving, st.catcher = NoOne, st'.mode = PlayOn, Step
        PROVE  hist.waited >= DropTime - 2
    <3>1. st.timer = 1
      BY <2>0, <2>5, StepCycles DEF CycleSound
    <3>2. st.timer + hist.waited \in {DropTime - 1, DropTime}
      BY <2>0, <2>5 DEF SetPlayInv, KickWaits
    <3> QED  BY <2>2, <3>1, <3>2
  <2> QED  BY <2>4, <2>5
<1>2. RestartInTime <=> [][InTime]_vars
  BY DEF RestartInTime
<1> HIDE DEF InTime
<1> QED  BY <1>1, <1>2, SetPlayInvHolds, PTL DEF Spec

\* TouchRef gives no goal from an indirect free kick before a second player has
\* played the ball or the play was stopped.
THEOREM NoGoalFromIndirectHolds == Spec => NoGoalFromIndirect
<1> DEFINE NoGoal == Called("AfterGoal") => ~ hist.open
<1>1. SetPlayInv /\ [Next]_vars => NoGoal
  <2>0. SUFFICES ASSUME SetPlayInv, [Next]_vars, st'.mode.kind = "AfterGoal",
                        st.mode.kind # "AfterGoal"
                 PROVE  ~ hist.open
    BY DEF Called
  <2>1. CASE Step
    <3>1. ~ st.indirect
      BY <2>0, <2>1, StepCycles DEF CycleSound
    <3> QED  BY <2>0, <3>1 DEF SetPlayInv, OpenIsIndirect
  <2>2. ASSUME NEW p \in Players, Plays(p)
        PROVE  FALSE
    BY <2>0, <2>2, PlaysSound DEF Sound, FaultOf
  <2>3. ASSUME NEW p \in Players, Miss(p) \/ Dash(p)
        PROVE  FALSE
    BY <2>0, <2>3, MissInv, DashInv
  <2>4. ASSUME NEW x \in Sides, KickOff(x)
        PROVE  FALSE
    BY <2>0, <2>4, KickOffInv
  <2>5. ASSUME NEW x \in Sides \cup {Neutral}, DispFoul(x)
        PROVE  FALSE
    BY <2>0, <2>5, DispFoulInv
  <2>6. ~ UNCHANGED vars
    BY <2>0 DEF vars
  <2> QED  BY <2>0, <2>1, <2>2, <2>3, <2>4, <2>5, <2>6 DEF Next, Plays
<1>2. NoGoalFromIndirect <=> [][NoGoal]_vars
  BY DEF NoGoalFromIndirect
<1> HIDE DEF NoGoal
<1> QED  BY <1>1, <1>2, SetPlayInvHolds, PTL DEF Spec

\* FreeKickRef calls a free kick fault only against a player that plays the ball
\* twice in a row.
THEOREM FaultByTakerHolds == Spec => FaultByTaker
<1> DEFINE ByTaker == Called("Free_Kick_Fault") => Actor = hist.last
<1>1. SetPlayInv /\ [Next]_vars => ByTaker
  <2>0. SUFFICES ASSUME SetPlayInv, [Next]_vars, st'.mode.kind = "Free_Kick_Fault",
                        st.mode.kind # "Free_Kick_Fault"
                 PROVE  Actor = hist.last
    BY DEF Called
  <2>1. ASSUME NEW p \in Players, Plays(p)
        PROVE  Actor = hist.last
    <3>1. /\ Sound(st, st', p) /\ hist'.last = p
          /\ (p \notin done /\ done' = done \cup {p}) \/ done' = done
      <4>1. hist \in History
        BY <2>0 DEF SetPlayInv, TypeOK
      <4>2. /\ Sound(st, st', p)
            /\ (p \notin done /\ done' = done \cup {p}) \/ done' = done
            /\ \E h \in History, kicked \in BOOLEAN : hist' = Play(h, p, kicked)
        BY <2>0, <2>1, <4>1, PlaysSound
      <4>3. PICK h \in History, kicked \in BOOLEAN : hist' = Play(h, p, kicked)
        BY <4>2
      <4> QED  BY <4>2, <4>3, PlayResult
    <3>2. st.taker = p /\ p # NoOne
      BY <2>0, <3>1, PlayerSides DEF Sound, FaultOf
    <3>3. hist.last = p
      BY <2>0, <3>2 DEF SetPlayInv, LastTook
    <3>4. Actor = p
      <4>1. CASE done' = done
        BY <3>1, <4>1 DEF Actor
      <4>2. CASE p \notin done /\ done' = done \cup {p}
        <5>1. done' \ done = {p} /\ done' # done /\ done' # {}
          BY <4>2
        <5> QED  BY <5>1 DEF Actor
      <4> QED  BY <3>1, <4>1, <4>2
    <3> QED  BY <3>3, <3>4
  <2>2. ~ Step
    BY <2>0, StepCycles DEF CycleSound
  <2>3. ASSUME NEW p \in Players, Miss(p) \/ Dash(p)
        PROVE  FALSE
    BY <2>0, <2>3, MissInv, DashInv
  <2>4. ASSUME NEW x \in Sides, KickOff(x)
        PROVE  FALSE
    BY <2>0, <2>4, KickOffInv
  <2>5. ASSUME NEW x \in Sides \cup {Neutral}, DispFoul(x)
        PROVE  FALSE
    BY <2>0, <2>5, DispFoulInv
  <2>6. ~ UNCHANGED vars
    BY <2>0 DEF vars
  <2> QED  BY <2>0, <2>1, <2>2, <2>3, <2>4, <2>5, <2>6 DEF Next, Plays
<1>2. FaultByTaker <=> [][ByTaker]_vars
  BY DEF FaultByTaker
<1> HIDE DEF ByTaker
<1> QED  BY <1>1, <1>2, SetPlayInvHolds, PTL DEF Spec
=============================================================================
