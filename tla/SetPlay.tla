------------------------------ MODULE SetPlay ------------------------------
(***************************************************************************)
(* The field referees: BallStuckRef, OffsideRef, FreeKickRef, TouchRef,    *)
(* CatchRef, FoulRef and IllegalDefenseRef, and the ball events of Stadium *)
(* that drive them.                                                        *)
(*                                                                         *)
(* Every event (a kick, a tackle, a touch, a catch, the analysis of a      *)
(* cycle) is handed to the referees one after the other, in the order of   *)
(* Stadium's list, and each may change the play mode, of which all of them *)
(* are told at once.  The state that they share is one record, st; the     *)
(* handler of a referee is an operator that maps it to the next one, and   *)
(* an event is the composition of the handlers.                            *)
(*                                                                         *)
(* Positions are abstracted to the answers the referees compute from them: *)
(* whether the ball left the pitch and where, who stands offside, whether  *)
(* a catch was inside the penalty area.  Speeds are abstracted to whether  *)
(* the ball rests, and kick powers to which of two kicks was harder.  The  *)
(* collisions that clearPlayersFromBall causes in the middle of an         *)
(* analysis are Touch steps after it.                                      *)
(*                                                                         *)
(* Left out: the end of the match and its golden goal (MatchClock), the    *)
(* shoot-out (Penalty), cards, KeepawayRef and the trainer.                *)
(***************************************************************************)
EXTENDS Integers, FiniteSets, PlayModes

CONSTANTS
    Players,            \* <<side, number>> of the players on the pitch
    Goalies,            \* those of them that are goalies
    DropTime,           \* server::drop_ball_time
    Wait,               \* AFTER_*_WAIT of the referees
    UseOffside,         \* server::use_offside
    UseIllegalDefense,  \* server::use_illegal_defense
    IllegalDuration,    \* server::illegal_defense_duration
    FreeKickFaults,     \* server::free_kick_faults
    ProperGoalKicks,    \* server::proper_goal_kicks
    MaxGoalKicks,       \* server::max_goal_kicks
    BackPasses,         \* server::back_passes
    Operator            \* may a monitor send dispfoul?

\* A drop_ball_time of 1 would drop the ball in the cycle that awards the kick.
ASSUME SetPlayAssumption ==
    /\ Players \subseteq Sides \X Nat /\ Goalies \subseteq Players
    /\ DropTime \in Nat \ {0, 1} /\ Wait \in Nat
    /\ IllegalDuration \in Nat \ {0} /\ MaxGoalKicks \in Nat
    /\ {UseOffside, UseIllegalDefense, FreeKickFaults, ProperGoalKicks,
        BackPasses, Operator} \subseteq BOOLEAN

VARIABLES
    st,     \* the play mode, the ball and the state of the referees
    done,   \* players whose M_command_done is set in this cycle
    hist    \* history: what really happened to the ball (properties only)

vars == <<st, done, hist>>

NoOne == <<Neutral, 0>>
Side(p) == p[1]
If(cond, set) == IF cond THEN set ELSE {}
Mates(p) == {q \in Players : Side(q) = Side(p) /\ q # p}

State == [
    mode      : PlayMode,
    moving    : BOOLEAN,                   \* has the ball a velocity?
    catcher   : Goalies \cup {NoOne},      \* M_ball_catcher
    after     : 0..Wait,                   \* M_after_*_time of the stop's referee
    stuck     : 0 .. DropTime - 1,         \* BallStuckRef::M_counter
    cands     : SUBSET Players,            \* M_offside_candidates
    kicker    : Sides \cup {Neutral},      \* OffsideRef::M_last_kicker_side
    kickNow   : BOOLEAN,                   \* is M_last_kick_time the present?
    illegal   : [Sides -> 0 .. IllegalDuration - 1],  \* M_left/right_illegal_counter
    attacker  : Sides \cup {Neutral},      \* IllegalDefenseRef::M_last_kicker_side
    attackNow : BOOLEAN,                   \* is its M_last_kick_time the present?
    taker     : Players \cup {NoOne},      \* M_kick_taker if M_kick_taken
    dashed    : BOOLEAN,                   \* has the taker dashed since?
    goalKicks : -1..MaxGoalKicks,          \* M_goal_kick_count
    timer     : -1..DropTime,              \* FreeKickRef::M_timer
    touch     : Sides \cup {Neutral},      \* side of M_last_touched
    strength  : {"none", "soft", "hard"},  \* M_last_touched_accel_r, if now
    indirect  : BOOLEAN,                   \* M_indirect_mode
    indKicker : Players \cup {NoOne},      \* M_last_indirect_kicker
    touched   : SUBSET Sides,              \* M_team_l_touched, M_team_r_touched
    passer    : Players \cup {NoOne},      \* M_last_back_passer
    passer2   : Players \cup {NoOne},      \* M_before_last_back_passer
    passNow   : BOOLEAN ]                  \* is M_last_back_passer_time the present?

------------------------------------------------------------------------------
(* A change of the play mode and what each referee does when told of it.    *)

OffsideChange(s, pm) == [s EXCEPT !.cands = IF pm = PlayOn THEN @ ELSE {}]

\* M_goal_kick_count is only compared with MaxGoalKicks, so it may stop there.
\* (It grows with the first award too: the play mode is already the new one.)
FreeKickChange(s, pm) ==
    [s EXCEPT
        !.taker     = IF pm = PlayOn THEN @ ELSE NoOne,
        !.dashed    = IF pm = PlayOn THEN @ ELSE FALSE,
        !.goalKicks = IF pm.kind # "GoalKick" THEN 0
                      ELSE IF @ < MaxGoalKicks THEN @ + 1 ELSE @,
        !.timer     = IF pm.kind \in RestartKinds THEN DropTime ELSE -1,
        !.catcher   = IF pm.kind = "Free_Kick_Fault" THEN NoOne ELSE @]

KeepsIndirectInPlay(pm) == pm = PlayOn
KeepsIndirect(pm) == pm \in {PlayOn, Drop_Ball}

TouchChange(s, pm) ==
    [s EXCEPT
        !.touch     = IF pm = PlayOn THEN @ ELSE Neutral,
        !.indirect  = IF KeepsIndirect(pm) THEN @ ELSE pm.kind = "IndFreeKick",
        !.indKicker = IF KeepsIndirect(pm) THEN @ ELSE NoOne]

\* The second halves of the tests for Back_Pass and CatchFault repeat the first.
CatchChange(s, pm) ==
    [s EXCEPT
        !.passer  = IF pm = PlayOn THEN @ ELSE NoOne,
        !.passer2 = IF pm = PlayOn THEN @ ELSE NoOne,
        !.catcher = IF pm \in {PM("Back_Pass", Left), PM("CatchFault", Left)}
                    THEN NoOne ELSE @]

\* Every call of a stop starts its wait anew.
changePlayMode(s, pm) ==
    CatchChange(TouchChange(FreeKickChange(OffsideChange(
        [s EXCEPT !.mode = pm, !.after = 0], pm), pm), pm), pm)

placeBall(s, pm) == changePlayMode([s EXCEPT !.moving = FALSE], pm)

\* The calls and awards that take the ball from a goalie who holds it; of the
\* awards only the free kick leaves it.
Call(s, pm) == placeBall([s EXCEPT !.catcher = NoOne], pm)

awardFreeKick(s, side) == placeBall(s, PM("FreeKick", side))
awardDropBall(s) == changePlayMode(Call(s, Drop_Ball), PlayOn)

------------------------------------------------------------------------------
(* OffsideRef.                                                              *)

callOffside(s) ==
    IF s.kicker = Neutral THEN s ELSE Call(s, PM("OffSide", s.kicker))

NoOffsideKinds == {"GoalKick", "KickIn", "CornerKick"}

\* Player p plays the ball; marked: those of its team that stand offside.
\* hard: the ball was accelerated more than before in this cycle.
setOffsideMarkAnyMode(s, p, hard, marked) ==
    LET t == [s EXCEPT !.kickNow = TRUE, !.kicker = IF hard THEN Side(p) ELSE @]
    IN  IF s.kickNow THEN [s EXCEPT !.kicker = Neutral, !.cands = {}]
        ELSE IF p \in t.cands THEN callOffside(t)
        ELSE [t EXCEPT !.cands = marked]

setOffsideMark(s, p, hard, marked) ==
    IF ~ UseOffside THEN s
    ELSE IF s.kickNow THEN [s EXCEPT !.kicker = Neutral, !.cands = {}]
    ELSE LET t == [s EXCEPT !.kickNow = TRUE,
                            !.kicker = IF hard THEN Side(p) ELSE @]
         IN  IF p \in t.cands THEN callOffside(t)
             ELSE [t EXCEPT !.cands =
                       IF t.mode.kind \in NoOffsideKinds
                       THEN {} ELSE marked]

\* A kick or tackle that missed the ball, near it or not.
checkIntentionalAction(s, p, near) ==
    IF UseOffside /\ p \in s.cands /\ near THEN callOffside(s) ELSE s

------------------------------------------------------------------------------
(* FreeKickRef.                                                             *)

callFreeKickFault(s, side) == Call(s, PM("Free_Kick_Fault", side))

\* An opponent plays the ball of a goal kick: it is taken again.
RetakeGoalKick(s) ==
    [Call(s, s.mode) EXCEPT !.goalKicks = -1, !.taker = NoOne]

\* The taker of a kick plays the ball again, or somebody else does.
TakerAgainForever(s, p) ==
    IF s.taker = p /\ FreeKickFaults /\ s.dashed
    THEN callFreeKickFault(s, Side(p)) ELSE s

TakerAgain(s, p) ==
    IF s.taker = p /\ FreeKickFaults
    THEN IF s.dashed THEN callFreeKickFault(s, Side(p)) ELSE s
    ELSE [s EXCEPT !.taker = NoOne, !.dashed = FALSE]

\* The side of a goal kick plays the ball inside the penalty area.
GoalKickKick(s, p) ==
    LET again == s.taker # NoOne /\ (s.taker # p \/ s.dashed)
        t == IF again /\ s.taker = p /\ FreeKickFaults
             THEN callFreeKickFault(s, Side(p))
             ELSE IF again /\ ProperGoalKicks THEN Call(s, s.mode)
             ELSE s
    IN  [t EXCEPT !.taker = p, !.dashed = FALSE]

FreeKickKick(s, p) ==
    IF s.mode.kind = "GoalKick"
    THEN IF Side(p) # s.mode.side THEN RetakeGoalKick(s) ELSE GoalKickKick(s, p)
    ELSE IF s.mode.kind = "OffSide" THEN s
    ELSE IF s.mode # PlayOn
         THEN changePlayMode([s EXCEPT !.taker = p, !.dashed = FALSE], PlayOn)
    ELSE IF s.taker # NoOne THEN TakerAgain(s, p)
    ELSE s

FreeKickTouch(s, p) ==
    IF s.mode.kind = "GoalKick" /\ Side(p) # s.mode.side THEN RetakeGoalKick(s)
    ELSE IF s.taker # NoOne THEN TakerAgain(s, p)
    ELSE s

------------------------------------------------------------------------------
(* TouchRef.                                                                *)

\* The power of a play of the ball: none (a touch, or a kick without any), less
\* than the hardest kick of this cycle, or at least as much.  Where there was no
\* kick before in this cycle, the latter two do not differ.
Powers(s) == {"none", "most"} \cup If(s.strength = "hard", {"less"})

\* The ball is behind the goal line only after a goal.
TouchTouch(s, p, power) ==
    LET second == s.mode = PlayOn /\ s.indKicker \notin {NoOne, p}
        t == [s EXCEPT !.indirect = @ /\ ~ second]
        counts == s.strength # "hard" \/ power = "most"
    IN  IF s.mode.kind = "AfterGoal" THEN s
        ELSE [t EXCEPT
                !.indKicker = IF t.indirect THEN p ELSE NoOne,
                !.touch     = IF counts THEN Side(p) ELSE @,
                !.strength  = IF ~ counts THEN @
                              ELSE IF power = "none" THEN "soft" ELSE "hard"]

------------------------------------------------------------------------------
(* CatchRef.                                                                *)

CatchTouchKeepingPasser(s, p) == [s EXCEPT !.touched = @ \cup {Side(p)}]

CatchTouch(s, p) ==
    LET both == s.touched \cup {Side(p)} = Sides
    IN  [s EXCEPT !.touched = @ \cup {Side(p)},
                  !.passer  = IF both THEN NoOne ELSE @,
                  !.passer2 = IF both THEN NoOne ELSE @]

CatchKick(s, p) ==
    LET t == CatchTouch(s, p)
    IN  IF t.touched = Sides THEN t
        ELSE [t EXCEPT !.passNow = TRUE,
                       !.passer2 = IF t.passer = p THEN @ ELSE t.passer,
                       !.passer  = p]

callCatchFault(s, side) == Call(s, PM("CatchFault", side))

\* The last kick came from the goalie's own team, ...
PassedBack(s, p) == s.passer # NoOne /\ Side(s.passer) = Side(p)
\* ... but it was the goalie's, and an opponent kicked before.
OwnKick(s, p) ==
    /\ s.passer = p
    /\ s.passer2 # NoOne /\ Side(s.passer2) # Side(p)
\* Kick and catch came in the same cycle, and no team-mate kicked before.
SameCycle(s, p) ==
    s.passNow /\ (s.passer2 = NoOne \/ Side(s.passer2) # Side(p))

CatchCaught(s, p, inArea) ==
    IF ~ inArea THEN callCatchFault(s, Side(p))
    ELSE IF BackPasses /\ PassedBack(s, p) /\ ~ OwnKick(s, p) /\ ~ SameCycle(s, p)
         THEN Call(s, PM("Back_Pass", Side(p)))
    ELSE awardFreeKick(s, Side(p))

CatchPunched(s, p, inArea) ==
    IF ~ inArea THEN callCatchFault(s, Side(p))
    ELSE IF BackPasses /\ PassedBack(s, p) /\ ~ s.passNow
         THEN IF OwnKick(s, p) THEN s ELSE Call(s, PM("Back_Pass", Side(p)))
    ELSE [s EXCEPT !.passer = NoOne, !.passer2 = NoOne]

------------------------------------------------------------------------------
(* IllegalDefenseRef.                                                       *)

IllegalDefenseKickLast(s, p) ==
    [s EXCEPT !.attackNow = TRUE, !.attacker = Side(p)]

IllegalDefenseKick(s, p) ==
    IF ~ UseIllegalDefense THEN s
    ELSE IF s.attackNow /\ Side(p) # s.attacker
         THEN [s EXCEPT !.attacker = Neutral]
    ELSE [s EXCEPT !.attackNow = TRUE, !.attacker = Side(p)]

------------------------------------------------------------------------------
(* The events of Stadium: each is handed to all referees in turn.           *)

\* A collision moves the ball only in play-on mode (calcBallCollisionPos).
ballTouched(s, p, marked) ==
    LET t == CatchTouch(TouchTouch(FreeKickTouch(
                 setOffsideMark(s, p, FALSE, marked), p), p, "none"), p)
    IN  [t EXCEPT !.moving = @ \/ t.mode = PlayOn]

kickTakenHolding(s, p, power, marked) ==
    IllegalDefenseKick(CatchKick(TouchTouch(FreeKickKick(setOffsideMark(
        s, p, power = "most", marked), p), p, power), p), p)

kickTaken(s, p, power, marked) ==
    LET t == [s EXCEPT !.catcher = NoOne, !.moving = @ \/ power # "none"]
    IN  IllegalDefenseKick(CatchKick(TouchTouch(FreeKickKick(
            setOffsideMark(t, p, power = "most", marked), p), p, power), p), p)

\* FoulRef comes after them, whatever they called.  (IllegalDefenseRef, after
\* it, does not look at the play mode.)
tackleTaken(s, p, power, marked, charge) ==
    LET t == kickTaken(s, p, power, marked)
    IN  IF charge THEN Call(t, PM("Foul_Charge", Side(p))) ELSE t

\* Stadium::ballCaught resolves collisions first, here with q or with nobody.
\* A call against the goalie's own side moves the ball out of its area.  The
\* goalie holds the ball if a free kick was awarded.
ballCaught(s, p, marked, inArea, q) ==
    LET t == IF q = NoOne THEN s ELSE ballTouched(s, q, {})
        u == ballTouched(t, p, marked)
        called == u.mode # t.mode \/ (t.mode # s.mode /\ Side(q) = Side(p))
        v == CatchCaught(u, p, inArea /\ ~ called)
    IN  IF v.mode.kind = "FreeKick" THEN [v EXCEPT !.catcher = p] ELSE v

\* The ball bounces off the goalie.
ballPunched(s, p, marked, inArea) ==
    LET t == ballTouched(s, p, marked)
    IN  CatchPunched(t, p, inArea /\ t.mode = s.mode)

------------------------------------------------------------------------------
(* Referee::analyse of each referee, once a cycle.                          *)

\* The wait of a stop, and the restart that follows it.
WaitThen(s, pm) ==
    IF s.after + 1 > Wait THEN changePlayMode(s, pm)
    ELSE [s EXCEPT !.after = @ + 1]

\* TimeRef may call half time (see MatchClock).  It sets the clock to the start
\* of the next half, sometimes ("back") to the very cycle the commands were of.
TimeAnalyse(s, half) == IF half = "no" THEN s ELSE Call(s, BeforeKickOff)

\* near: the ball is still close to where the count began.
BallStuckAnalyse(s, near) ==
    IF s.mode # PlayOn \/ ~ near THEN [s EXCEPT !.stuck = 0]
    ELSE IF s.stuck + 1 >= DropTime THEN awardDropBall([s EXCEPT !.stuck = 0])
    ELSE [s EXCEPT !.stuck = @ + 1]

OffsideAnalyse(s) ==
    IF ~ UseOffside \/ s.mode.kind \in {"BeforeKickOff", "KickOff", "PlayOn"} THEN s
    ELSE IF s.mode.kind = "OffSide"
         THEN WaitThen(s, PM("FreeKick", Opp(s.mode.side)))
    ELSE [s EXCEPT !.cands = {}]

\* The wait for a kick, after which the ball is dropped.
CountDownOneMore(s) ==
    LET t == [s EXCEPT !.timer = IF @ > -1 THEN @ - 1 ELSE @]
    IN  IF s.timer = 0 THEN awardDropBall(t) ELSE t

CountDown(s) ==
    LET t == [s EXCEPT !.timer = IF @ > -1 THEN @ - 1 ELSE @]
    IN  IF t.timer = 0 THEN awardDropBall(t) ELSE t

\* A goal kick that was taken and whose ball came to rest inside the area.
GoalKickFailed(s) ==
    IF s.goalKicks >= MaxGoalKicks THEN awardFreeKick(s, Opp(Side(s.taker)))
    ELSE Call(s, PM("GoalKick", Side(s.taker)))

\* inArea: the rolling ball is still in a penalty area.  rests: it stopped.
FreeKickAnalyse(s, inArea, rests) ==
    IF s.mode.kind = "Free_Kick_Fault"
    THEN WaitThen(s, PM("FreeKick", Opp(s.mode.side)))
    ELSE IF s.mode.kind = "GoalKick"
         THEN IF s.moving /\ ~ inArea THEN changePlayMode(s, PlayOn)
              ELSE IF s.taker # NoOne /\ ProperGoalKicks
                   THEN IF s.moving /\ ~ rests THEN s ELSE GoalKickFailed(s)
              ELSE CountDown(s)
    ELSE IF s.mode.kind \in FreeKickKinds
         THEN CountDown(IF s.moving THEN changePlayMode(s, PlayOn) ELSE s)
    ELSE s

\* checkGoal: no goal while the kick is indirect, and none that a goalie
\* carries over the other side's line.
Goal(s, out) ==
    /\ out.place = "goal" /\ ~ s.indirect
    /\ s.catcher # NoOne => Side(s.catcher) = out.end

\* Where the ball is: on the pitch, beside it, or behind the goal line of a side,
\* in the goal or not.
OnPitch == [place |-> "pitch", end |-> Neutral]
Outs == {[place |-> "beside", end |-> Neutral]}
          \cup [place : {"goal", "behind"}, end : Sides]

\* A ball behind the line of a side goes to the other side if the former touched
\* it last.  (A referee before may have placed the ball on the pitch.)
TouchAnalyse(s, seen) ==
    LET out == IF s.moving \/ s.catcher # NoOne THEN seen ELSE OnPitch IN
    IF s.mode.kind = "AfterGoal"
    THEN IF s.after + 1 > Wait THEN placeBall(s, PM("KickOff", Opp(s.mode.side)))
         ELSE [s EXCEPT !.after = @ + 1]
    ELSE IF Goal(s, out) THEN placeBall(s, PM("AfterGoal", Opp(out.end)))
    ELSE IF out.place \in {"goal", "behind"}
         THEN IF s.touch = out.end THEN Call(s, PM("CornerKick", Opp(out.end)))
              ELSE IF s.catcher = NoOne THEN Call(s, PM("GoalKick", out.end))
              ELSE s
    ELSE IF out.place = "beside"
         THEN IF s.touch = Neutral THEN awardDropBall(s)
              ELSE Call(s, PM("KickIn", Opp(s.touch)))
    ELSE s

CatchAnalyseForOffender(s, carried) ==
    LET t == [s EXCEPT !.touched = {}]
    IN  IF s.mode.kind \in {"Back_Pass", "CatchFault"}
        THEN WaitThen(t, PM("FreeKick", s.mode.side))
        ELSE IF s.catcher # NoOne /\ carried THEN callCatchFault(t, Side(s.catcher))
        ELSE t

CatchAnalyse(s, carried) ==
    LET t == [s EXCEPT !.touched = {}]
    IN  IF s.mode.kind = "Back_Pass"
        THEN WaitThen(t, PM("IndFreeKick", Opp(s.mode.side)))
        ELSE IF s.mode.kind = "CatchFault"
             THEN WaitThen(t, PM("FreeKick", Opp(s.mode.side)))
        ELSE IF s.catcher # NoOne /\ s.mode.kind # "AfterGoal" /\ carried
             THEN callCatchFault(t, Side(s.catcher))
        ELSE t

\* inOwnArea: the foul was inside the offender's penalty area.
FoulAnalyse(s, inOwnArea) ==
    IF s.mode.kind # "Foul_Charge" THEN s
    ELSE WaitThen(s, PM(IF inOwnArea THEN "IndFreeKick" ELSE "FreeKick",
                        Opp(s.mode.side)))

\* crowd: a side that crowds its own goal, if the other one kicked last.
IllegalDefenseAnalyse(s, crowd) ==
    LET counter == [x \in Sides |-> IF x = crowd /\ s.attacker = Opp(x)
                                    THEN s.illegal[x] + 1 ELSE 0]
        caught == {x \in Sides : counter[x] >= IllegalDuration}
    IN  IF ~ UseIllegalDefense THEN s
        ELSE IF s.mode.kind = "Illegal_Defense"
             THEN WaitThen(s, PM("FreeKick", Opp(s.mode.side)))
        ELSE IF s.mode # PlayOn THEN s
        ELSE IF caught = {} THEN [s EXCEPT !.illegal = counter]
        ELSE Call([s EXCEPT !.illegal = [x \in Sides |-> 0]],
                  PM("Illegal_Defense", crowd))

\* What the referees may find in a cycle, as far as it matters in state s.  A
\* ball at rest stays where it is unless a goalie carries it; one in a penalty
\* area is on the pitch.
\* Half time overrules the rest.
Views(s) ==
    LET kind == s.mode.kind
        normal ==
        [half    : {"no"},
         near    : {FALSE} \cup If(kind = "PlayOn", {TRUE}),
         crowd   : {Neutral} \cup If(kind = "PlayOn" /\ s.attacker # Neutral,
                                    {Opp(s.attacker)}),
         inArea  : {FALSE} \cup If(kind \in {"GoalKick", "Foul_Charge"}, {TRUE}),
         rests   : {FALSE} \cup If(kind = "GoalKick", {TRUE}),
         carried : {FALSE} \cup If(s.catcher # NoOne, {TRUE}),
         out     : {OnPitch} \cup If(s.moving \/ s.catcher # NoOne, Outs)]
    IN  {v \in normal : v.inArea => v.out = OnPitch}
          \cup [half : If(IsLive(s.mode), {"up", "back"}), near : {FALSE},
                crowd : {Neutral}, inArea : {FALSE}, rests : {FALSE},
                carried : {FALSE}, out : {OnPitch}]

analyse(s, v) ==
    IllegalDefenseAnalyse(FoulAnalyse(CatchAnalyse(TouchAnalyse(FreeKickAnalyse(
        OffsideAnalyse(BallStuckAnalyse(TimeAnalyse(s, v.half), v.near)),
        v.inArea, v.rests), v.out), v.carried \/ v.out # OnPitch), v.inArea),
        v.crowd)

\* A new cycle: the kicks of the last one are no longer of the present.
StaleKeepingStrength(s, clockRan, back) ==
    [s EXCEPT !.kickNow   = @ /\ back,
              !.attackNow = @ /\ ~ clockRan,
              !.passNow   = @ /\ ~ clockRan]

Stale(s, clockRan, back) ==
    [s EXCEPT !.kickNow   = @ /\ back,
              !.attackNow = @ /\ ~ clockRan,
              !.passNow   = @ /\ ~ clockRan,
              !.strength  = IF clockRan THEN "none" ELSE @]

------------------------------------------------------------------------------
(* History.                                                                 *)

\* last: who played the ball last, and free: in a mode without offside; sides, kickSides: the
\* sides that played or kicked it in the last cycle in which somebody did; open:
\* a kick is indirect and nobody but first has played the ball since; waited: how
\* many cycles the kick has not been taken.
History == [
    last : Players \cup {NoOne}, free : BOOLEAN,
    sides : SUBSET Sides, now : BOOLEAN,
    kickSides : SUBSET Sides, kickNow : BOOLEAN,
    open : BOOLEAN, first : Players \cup {NoOne},
    waited : Nat ]

Opened  == st'.mode.kind = "IndFreeKick" /\ st.mode.kind # "IndFreeKick"
Closed  == st'.mode.kind \notin {"IndFreeKick", "PlayOn"}

Play(h, p, kicked) ==
    [h EXCEPT
        !.last = p,
        !.free = st.mode.kind \in NoOffsideKinds,
        !.sides = If(h.now, @) \cup {Side(p)},
        !.now = TRUE,
        !.kickSides = IF kicked THEN If(h.kickNow, @) \cup {Side(p)} ELSE @,
        !.kickNow = @ \/ kicked,
        !.open = @ /\ ~ Closed /\ h.first \in {NoOne, p},
        !.first = IF h.open /\ ~ Closed THEN p ELSE NoOne,
        !.waited = IF st'.mode = st.mode THEN @ ELSE 0]

Played(p, kicked) == hist' = Play(hist, p, kicked)

Cycled ==
    hist' = [hist EXCEPT
        !.now = FALSE, !.kickNow = FALSE,
        !.open = Opened \/ (@ /\ ~ Closed),
        !.first = IF Opened \/ Closed THEN NoOne ELSE @,
        !.waited = IF st'.mode = st.mode /\ st.mode.kind \in FreeKickKinds
                   THEN @ + 1 ELSE 0]

------------------------------------------------------------------------------
Init ==
    /\ \E a \in Sides \cup {Neutral}, n \in BOOLEAN :
        st = [mode |-> BeforeKickOff, moving |-> FALSE, catcher |-> NoOne,
              after |-> 0, stuck |-> 0, cands |-> {}, kicker |-> Neutral,
              kickNow |-> FALSE, illegal |-> [x \in Sides |-> 0],
              attacker |-> IF UseIllegalDefense THEN a ELSE Neutral,
              attackNow |-> UseIllegalDefense /\ n,
              taker |-> NoOne, dashed |-> FALSE, goalKicks |-> 0, timer |-> -1,
              touch |-> Neutral, strength |-> "none", indirect |-> FALSE,
              indKicker |-> NoOne, touched |-> {}, passer |-> NoOne,
              passer2 |-> NoOne, passNow |-> FALSE]
    /\ done = {}
    /\ hist = [last |-> NoOne, free |-> FALSE, sides |-> {}, now |-> FALSE, kickSides |-> {},
               kickNow |-> FALSE, open |-> FALSE, first |-> NoOne, waited |-> 0]

\* Those of p's team that may stand offside.
Marks(p) == IF UseOffside THEN SUBSET Mates(p) ELSE {{}}

Commands(p) == p \notin done /\ done' = done \cup {p}

Kick(p) ==
    /\ Commands(p)
    /\ IsLive(st.mode)
    /\ \E power \in Powers(st), marked \in Marks(p) :
        st' = kickTaken(st, p, power, marked)
    /\ Played(p, TRUE)

\* Player::tackle does nothing in the stopped modes, except that CatchFault is
\* missing from its list.
Tackle(p) ==
    /\ Commands(p)
    /\ IsLive(st.mode) \/ st.mode.kind = "CatchFault"
    /\ \E power \in Powers(st), marked \in Marks(p), charge \in BOOLEAN :
        st' = tackleTaken(st, p, power, marked, charge)
    /\ Played(p, TRUE)

\* A kick that misses the ball, in a live mode, or a tackle, in any.
Miss(p) ==
    /\ Commands(p)
    /\ p \in st.cands
    /\ st' = checkIntentionalAction(st, p, TRUE)
    /\ hist' = [hist EXCEPT !.open = @ /\ ~ Closed,
                            !.first = IF Closed THEN NoOne ELSE @,
                            !.waited = IF st'.mode = st.mode THEN @ ELSE 0]

Dash(p) ==
    /\ Commands(p)
    /\ p = st.taker
    /\ st' = [st EXCEPT !.dashed = TRUE]
    /\ UNCHANGED hist

\* The ball and p collide, when objects are moved or p moves itself.
Touch(p) ==
    /\ p # st.catcher
    /\ \E marked \in Marks(p) : st' = ballTouched(st, p, marked)
    /\ Played(p, FALSE)
    /\ UNCHANGED done

Catch(p) ==
    /\ Commands(p)
    /\ p \in Goalies /\ st.mode = PlayOn
    /\ \E marked \in Marks(p), inArea \in BOOLEAN, q \in Players \cup {NoOne} :
        /\ q # p
        /\ st' = ballCaught(st, p, marked, inArea, q)
        /\ hist' = Play(IF q = NoOne THEN hist ELSE Play(hist, q, FALSE), p, FALSE)

Punch(p) ==
    /\ Commands(p)
    /\ p \in Goalies /\ st.mode = PlayOn
    /\ \E marked \in Marks(p), inArea \in BOOLEAN :
        st' = ballPunched(st, p, marked, inArea)
    /\ Played(p, FALSE)

\* Stadium::step, from the referees' point of view.
Step ==
    /\ done' = {}
    /\ \E v \in Views(st) :
        LET s == IF IsStopped(st.mode) THEN [st EXCEPT !.catcher = NoOne] ELSE st
            t == analyse(s, v)
            back == v.half = "back"
            clockRan == \/ IsLive(st.mode) /\ ~ back
                        \/ IsStopped(st.mode) /\ t.mode # st.mode
        IN  st' = Stale(t, clockRan, back) /\ Cycled

\* Stadium::kickOff, by the auto mode or an operator.
KickOff(side) ==
    /\ st.mode = BeforeKickOff
    /\ st' = placeBall(st, PM("KickOff", side))
    /\ UNCHANGED <<done, hist>>

\* (dispfoul), with a side or without.
DispFoul(side) ==
    /\ Operator
    /\ st' = IF side = Neutral THEN awardDropBall(st)
             ELSE Call(st, PM("FreeKick", side))
    /\ hist' = [hist EXCEPT !.open = @ /\ side = Neutral,
                            !.first = IF side = Neutral THEN @ ELSE NoOne,
                            !.waited = 0]
    /\ UNCHANGED done

Next ==
    \/ Step
    \/ \E p \in Players : \/ Kick(p) \/ Tackle(p) \/ Miss(p) \/ Dash(p)
                         \/ Touch(p) \/ Catch(p) \/ Punch(p)
    \/ \E side \in Sides : KickOff(side)
    \/ \E side \in Sides \cup {Neutral} : DispFoul(side)

Spec == Init /\ [][Next]_vars

------------------------------------------------------------------------------
\* Every variable has its type: the timers and counters of the referees stay in
\* their bounds whatever the order of their calls.
TypeOK ==
    /\ st \in State
    /\ done \subseteq Players
    /\ hist \in History

Called(kind) == st'.mode.kind = kind /\ st.mode.kind # kind

\* The player a step is about.
Actor == IF done' # done /\ done' # {} THEN CHOOSE p \in done' \ done : TRUE
         ELSE hist'.last

\* A goalie holds the ball (M_ball_catcher) only in the free kick of its side that
\* its catch was awarded, or when the other side has been given a goal for it.  A
\* catcher left over from an earlier catch would make every later ball that leaves
\* the area a catch fault, and void every goal at the other end.
CatcherHasFreeKick ==
    st.catcher # NoOne =>
        st.mode = PM("FreeKick", Side(st.catcher)) \/ st.mode.kind = "AfterGoal"

\* FreeKickRef drops the ball if a kick is not taken in drop_ball_time cycles, and
\* at most one cycle earlier: whatever is called meanwhile, nobody waits longer.
RestartInTime ==
    [][/\ hist'.waited < DropTime
       /\ (/\ st.mode.kind \in FreeKickKinds /\ ~ st.moving /\ st.catcher = NoOne
           /\ st'.mode = PlayOn /\ Step) => hist.waited >= DropTime - 2]_vars

\* No goal is scored from an indirect free kick before a second player touched the
\* ball or the play was stopped, even if the kick ended in a drop ball.
NoGoalFromIndirect == [][Called("AfterGoal") => ~ hist.open]_vars

\* A free kick fault is called only against a player that played the ball twice in
\* a row.
FaultByTaker == [][Called("Free_Kick_Fault") => Actor = hist.last]_vars

\* A kick-in or a corner kick is given against a side that played the ball in the
\* last cycle in which it was played, however the touches and kicks of a cycle are
\* ordered.
AwardedAgainstToucher ==
    [][\A k \in {"KickIn", "CornerKick"} :
        Called(k) => Opp(st'.mode.side) \in hist.sides]_vars

\* A back pass is called only if in the last cycle with a kick that side alone
\* kicked the ball.
BackPassWasKicked ==
    [][Called("Back_Pass") => hist.kickSides = {st'.mode.side}]_vars

\* Offside is called only on a player whose team-mate played the ball immediately
\* before, and not from a kick-in, a goal kick or a corner kick.  (As long as
\* M_last_kicker_side is NEUTRAL, callOffside does nothing and keeps the candidates.)
OffsideFollowsPass ==
    [][Called("OffSide") /\ st.kicker # Neutral =>
        /\ Actor \in Mates(hist.last)
        /\ ~ hist.free]_vars

\* Illegal defence is called only while the other side alone attacks, or nobody
\* has kicked the ball yet (the referee's memory is uninitialized until then).
IllegalDefenseUnderAttack ==
    [][Called("Illegal_Defense") =>
        hist.kickSides \in {{}, {Opp(st'.mode.side)}}]_vars

\* The changes of the play mode that MatchClock allows the field referees.
MovesOf(pm) ==
    LET offsides == {PM("OffSide", x) : x \in Sides}
        charges  == {PM("Foul_Charge", x) : x \in Sides}
    IN  IF pm = BeforeKickOff THEN offsides
        ELSE IF IsLive(pm)
             THEN FieldCalls \cup {PlayOn, BeforeKickOff}
                    \cup {PM("AfterGoal", x) : x \in Sides}
        ELSE RestartsAfter(pm) \cup If(pm.kind # "OffSide", offsides)
               \cup If(pm.kind = "CatchFault", {PlayOn} \cup charges)

\* The referees, however their calls in one cycle overrule each other, make no
\* change of the play mode but those that MatchClock assumes of them: after a stop
\* the other side restarts, with the kick that the offence asks for.
MovesAsMatchClock ==
    [][\/ st'.mode = st.mode
       \/ \E side \in Sides : KickOff(side)
       \/ \E side \in Sides \cup {Neutral} : DispFoul(side)
       \/ st'.mode \in MovesOf(st.mode)]_vars

\* NEWS on the offside referee: it checks whether players in an offside position
\* touched the ball.  Offside is called against the side of that player.
OffsideAgainstOffender ==
    [][Called("OffSide") => st'.mode.side = Side(Actor)]_vars

\* NEWS on the catch fault: a direct free kick is taken after it.
FreeKickAfterCatchFault ==
    [][st.mode.kind = "CatchFault" /\ st'.mode # st.mode =>
        st'.mode = PM("FreeKick", Opp(st.mode.side))]_vars

=========================================================================
