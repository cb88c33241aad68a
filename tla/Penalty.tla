------------------------------ MODULE Penalty ------------------------------
(***************************************************************************)
(* The penalty shoot-out: PenaltyRef, from the draw to PM_TimeOver.        *)
(*                                                                         *)
(* Kicks, tackles and catches are handled between two simulator cycles     *)
(* (pc = "recv"); PenaltyRef::analyse is one step of the cycle ("impl").   *)
(* Positions are abstracted to the answers the referee derives from them:  *)
(* whether a side stands as it should (penalty_check_players), whether the *)
(* ball crossed the goal line or left the pitch, and whether a catch was   *)
(* inside the penalty area; every combination is considered.               *)
(***************************************************************************)
EXTENDS Integers, FiniteSets, PlayModes

CONSTANTS
    Unums,            \* uniform numbers of a team, 1..MAX_PLAYER
    Goalie,           \* the goalie's number
    NrKicks,          \* server::pen_nr_kicks
    MaxExtraKicks,    \* server::pen_max_extra_kicks
    BeforeSetupWait,  \* server::pen_before_setup_wait
    SetupWait,        \* server::pen_setup_wait
    ReadyWait,        \* server::pen_ready_wait
    TakenWait,        \* server::pen_taken_wait
    MultKicks,        \* server::pen_allow_mult_kicks
    CoachMoves,       \* server::pen_coach_moves_players
    RandomWinner,     \* server::pen_random_winner
    GoalieNearSpot    \* can the defending goalie reach the ball in the ready
                      \* mode? (not with the default pen_dist_x and
                      \* pen_max_goalie_dist_x)

ASSUME PenaltyAssumption ==
    /\ IsFiniteSet(Unums) /\ Goalie \in Unums
    /\ NrKicks \in Nat /\ MaxExtraKicks \in Nat
    /\ {BeforeSetupWait, SetupWait, ReadyWait, TakenWait} \subseteq Nat
    /\ {MultKicks, CoachMoves, RandomWinner, GoalieNearSpot} \subseteq BOOLEAN

VARIABLES
    pc,         \* "recv" between two cycles, "impl" in PenaltyRef::analyse
    playmode,   \* M_playmode; PlayOn stands for any mode before the shoot-out
    squad,      \* players of each side that are on the field
    enabled,    \* sides that have a team (a name), whoever is still there
    timer,      \* M_timer
    nrTaken,    \* M_pen_nr_taken
    curTaker,   \* M_cur_pen_taker
    lastTaker,  \* M_last_taker: <<side, number>> or NoOne
    penTaken,   \* M_sLeftPenTaken and M_sRightPenTaken
    timeover,   \* M_timeover
    taken,      \* M_pen_taken of each team
    scored,     \* M_pen_point of each team
    won,        \* teams with M_pen_won
    kicks       \* history: penalties each player of a side really took

countVars == <<nrTaken, timeover, taken, scored, won>>
takerVars == <<curTaker, lastTaker, penTaken, kicks>>
teamVars  == <<squad, enabled>>
vars      == <<pc, playmode, timer, countVars, takerVars, teamVars>>

NoOne == <<Neutral, Goalie>>

Mode(kinds) == playmode.kind \in kinds
Settling    == Mode({"PenaltyMiss", "PenaltyScore"})

Init ==
    /\ pc = "recv" /\ playmode = PlayOn /\ timer = -1
    /\ enabled \in SUBSET Sides
    /\ squad = [s \in Sides |-> IF s \in enabled THEN Unums ELSE {}]
    /\ nrTaken = 0 /\ timeover = FALSE /\ won = {}
    /\ taken = [s \in Sides |-> 0] /\ scored = [s \in Sides |-> 0]
    /\ curTaker = Neutral /\ lastTaker = NoOne
    /\ penTaken = [s \in Sides |-> {}]
    /\ kicks = [s \in Sides |-> [u \in Unums |-> 0]]

------------------------------------------------------------------------------
(* The count of the penalties.                                              *)

\* penalty_check_score after n penalties with the points p, taken last by t:
\* go on, end with the next analyse (M_timeover), or end now.  Only the
\* victory of the right side within the regular kicks ends at once.
CheckScoreWholeRounds(n, p, t) ==
    LET left == NrKicks - n \div 2
    IN  IF n > 2 * (MaxExtraKicks + NrKicks) THEN "exhausted"
        ELSE IF n > 2 * NrKicks
             THEN IF n % 2 = 0 /\ p[Left] # p[Right] THEN "over" ELSE "on"
        ELSE IF p[Left] + left < p[Right] THEN "now"
        ELSE IF p[Right] + left < p[Left] THEN "over"
        ELSE "on"
CheckScoreOneKickEarly(n, p, t) ==
    IF n >= 2 * (MaxExtraKicks + NrKicks) THEN "exhausted"
    ELSE CheckScoreWholeRounds(n, p, t)
CheckScore(n, p, t) ==
    LET left(s) == NrKicks - n \div 2 - (IF n % 2 = 1 /\ s = t THEN 1 ELSE 0)
    IN  IF n > 2 * (MaxExtraKicks + NrKicks) THEN "exhausted"
        ELSE IF n > 2 * NrKicks
             THEN IF n % 2 = 0 /\ p[Left] # p[Right] THEN "over" ELSE "on"
        ELSE IF p[Left] + left(Left) < p[Right] THEN "now"
        ELSE IF p[Right] + left(Right) < p[Left] THEN "over"
        ELSE "on"

\* penalty_score and penalty_miss: the mode, the timer and the taker by
\* playModeChange, the counts of the team if there is one, and the verdict.
Settle(goal) ==
    /\ nrTaken' = nrTaken + 1
    /\ taken' = IF curTaker \in enabled
                THEN [taken EXCEPT ![curTaker] = @ + 1] ELSE taken
    /\ scored' = IF goal /\ curTaker \in enabled
                 THEN [scored EXCEPT ![curTaker] = @ + 1] ELSE scored
    /\ LET verdict == CheckScore(nrTaken', scored', curTaker)
       IN  /\ playmode' = IF verdict = "now" THEN TimeOver
                          ELSE PM(IF goal THEN "PenaltyScore"
                                  ELSE "PenaltyMiss", curTaker)
           /\ timeover' = (verdict \in {"over", "exhausted"})
           /\ IF verdict = "exhausted" /\ RandomWinner
              THEN \E s \in Sides : won' = {s}
              ELSE won' = won
    /\ timer' = BeforeSetupWait
    /\ lastTaker' = NoOne

\* penalty_foul: a miss if the offender takes the penalty, a goal if not.
Foul(side) == Settle(side # curTaker)

------------------------------------------------------------------------------
(* Between two cycles: players kick, tackle, catch and leave.               *)

\* The first branches of kickTaken: the side that is called for a foul when
\* player u of side s kicks.  (The branch on M_ball_catcher is dead:
\* Stadium::kickTaken has just cleared it.)
KickFoul(s, u) ==
    IF Mode({"PenaltySetup"}) THEN s
    ELSE IF ~ MultKicks /\ Mode({"PenaltyTaken"}) /\ s = curTaker THEN curTaker
    ELSE IF Mode({"PenaltyReady"}) /\ s = curTaker /\ u \in penTaken[s]
         THEN curTaker
    ELSE IF lastTaker # NoOne /\ lastTaker[1] = curTaker /\ lastTaker # <<s, u>>
         THEN curTaker
    ELSE IF s # curTaker /\ u # Goalie THEN Opp(curTaker)
    ELSE Neutral

\* The set of the players that took a penalty starts anew when it is full.
TakersWithout(T, u) == T
TakersWith(T, u) == IF T \cup {u} = Unums THEN {} ELSE T \cup {u}

\* A legal kick in the ready mode is the penalty; later ones play the ball.
KickBall(s, u) ==
    /\ lastTaker' = <<s, u>>
    /\ IF Mode({"PenaltyReady"})
       THEN /\ s # curTaker => GoalieNearSpot
            /\ penTaken' = [penTaken EXCEPT ![curTaker] = TakersWith(@, u)]
            /\ kicks' = IF s = curTaker
                        THEN [kicks EXCEPT ![s][u] = @ + 1] ELSE kicks
            /\ playmode' = PM("PenaltyTaken", curTaker)
            /\ timer' = TakenWait
       ELSE UNCHANGED <<penTaken, kicks, playmode, timer>>

\* kickTaken, called for a kick or a tackle without a foul.
Kick(s, u) ==
    /\ pc = "recv" /\ u \in squad[s]
    /\ Mode({"PenaltySetup", "PenaltyReady", "PenaltyTaken"})
    /\ \/ /\ KickFoul(s, u) # Neutral
          /\ Foul(KickFoul(s, u))
          /\ UNCHANGED <<penTaken, kicks>>
       \/ /\ KickFoul(s, u) = Neutral
          /\ KickBall(s, u)
          /\ UNCHANGED countVars
    /\ UNCHANGED <<pc, curTaker, teamVars>>

\* tackleTaken with a charge, a yellow or a red card.
TackleFoul(s, u) ==
    /\ pc = "recv" /\ u \in squad[s]
    /\ Mode({"PenaltySetup", "PenaltyReady", "PenaltyTaken"})
    /\ Foul(s)
    /\ UNCHANGED <<pc, curTaker, penTaken, kicks, teamVars>>

\* ballCaught and ballPunched.
Catch(s, inArea) ==
    /\ pc = "recv" /\ Goalie \in squad[s]
    /\ \/ /\ Mode({"PenaltyTaken"})
          /\ IF s = curTaker THEN Foul(curTaker)
             ELSE IF ~ inArea THEN Foul(Opp(curTaker))
             ELSE Settle(FALSE)
       \/ /\ Mode({"PenaltyReady"})
          /\ Foul(s)
    /\ UNCHANGED <<pc, curTaker, penTaken, kicks, teamVars>>

\* A player is discarded or its client leaves.
PlayerLeaves(s, u) ==
    /\ pc = "recv" /\ u \in squad[s]
    /\ playmode # TimeOver
    /\ squad' = [squad EXCEPT ![s] = @ \ {u}]
    /\ UNCHANGED <<pc, playmode, timer, enabled, countVars, takerVars>>

------------------------------------------------------------------------------
(* PenaltyRef::analyse.                                                     *)

\* penalty_init: the other side takes the next penalty.
penalty_init_same(t) ==
    /\ curTaker' = t
    /\ playmode' = PM("PenaltySetup", t)
    /\ timer' = SetupWait /\ lastTaker' = NoOne
penalty_init(t) ==
    /\ curTaker' = Opp(t)
    /\ playmode' = PM("PenaltySetup", Opp(t))
    /\ timer' = SetupWait /\ lastTaker' = NoOne

\* startPenaltyShootout: a draw decides who starts.
Start ==
    /\ pc = "recv" /\ pc' = "impl"
    /\ playmode = PlayOn
    /\ \E t \in Sides : penalty_init(t)
    /\ UNCHANGED <<countVars, penTaken, kicks, teamVars>>

Cycle ==
    /\ pc = "recv" /\ pc' = "impl"
    /\ isPenaltyShootOut(playmode)
    /\ UNCHANGED <<playmode, timer, countVars, takerVars, teamVars>>

\* The answers of penalty_check_players, after the coach moved the players
\* that stand wrong.  A side without a goalie never stands right.
Placings ==
    {ok \in [Sides -> BOOLEAN] :
        IF Settling \/ (CoachMoves /\ (timer = 0 \/ ~ Mode({"PenaltySetup"})))
        THEN \A s \in Sides : ok[s]
        ELSE \A s \in Sides : ok[s] => Goalie \in squad[s]}

WellPlaced(ok) == \A s \in Sides : ok[s]

\* A side that stands wrong commits a foul, the taker's side first.
PlacingFoul(ok) == Foul(IF ~ ok[curTaker] THEN curTaker ELSE Opp(curTaker))

analyse ==
    /\ pc = "impl" /\ pc' = "recv"
    /\ UNCHANGED teamVars

EndOfMatch ==
    /\ analyse
    /\ timeover
    /\ playmode' = TimeOver
    /\ UNCHANGED <<timer, countVars, takerVars>>

\* handleTimeout in the miss and score modes.
NextPenalty ==
    /\ analyse
    /\ ~ timeover /\ timer = 0
    /\ Settling
    /\ penalty_init(curTaker)
    /\ UNCHANGED <<countVars, penTaken, kicks>>

\* handleTimeout in the setup mode.
SetupTimeoutWaits ==
    /\ analyse
    /\ ~ timeover /\ timer = 0
    /\ Mode({"PenaltySetup"})
    /\ \E ok \in Placings :
         IF WellPlaced(ok)
         THEN /\ playmode' = PM("PenaltyReady", curTaker)
              /\ timer' = ReadyWait /\ lastTaker' = NoOne
              /\ UNCHANGED countVars
         ELSE UNCHANGED <<playmode, timer, lastTaker, countVars>>
    /\ UNCHANGED <<curTaker, penTaken, kicks>>
SetupTimeout ==
    /\ analyse
    /\ ~ timeover /\ timer = 0
    /\ Mode({"PenaltySetup"})
    /\ \E ok \in Placings :
         IF WellPlaced(ok)
         THEN /\ playmode' = PM("PenaltyReady", curTaker)
              /\ timer' = ReadyWait /\ lastTaker' = NoOne
              /\ UNCHANGED countVars
         ELSE PlacingFoul(ok)
    /\ UNCHANGED <<curTaker, penTaken, kicks>>

\* handleTimeout in the ready and taken modes: too late.
KickTimeout ==
    /\ analyse
    /\ ~ timeover /\ timer = 0
    /\ Mode({"PenaltyReady", "PenaltyTaken"})
    /\ \E ok \in Placings :
         IF WellPlaced(ok) THEN Settle(FALSE) ELSE PlacingFoul(ok)
    /\ UNCHANGED <<curTaker, penTaken, kicks>>

\* handleTimer: the ball in the goal or out of the pitch, or a wrong position
\* once the setup is over.
TimerVerdict ==
    /\ analyse
    /\ ~ timeover /\ timer > 0
    /\ \E ok \in Placings :
         \/ /\ WellPlaced(ok) /\ Mode({"PenaltyTaken"})
            /\ \E goal \in BOOLEAN : Settle(goal)
         \/ /\ ~ WellPlaced(ok) /\ Mode({"PenaltyReady", "PenaltyTaken"})
            /\ PlacingFoul(ok)
    /\ UNCHANGED <<curTaker, penTaken, kicks>>

TimerRunsBelowZero ==
    /\ analyse
    /\ ~ timeover
    /\ timer' = timer - 1
    /\ UNCHANGED <<playmode, countVars, takerVars>>
TimerRuns ==
    /\ analyse
    /\ ~ timeover /\ timer > 0
    /\ \E ok \in Placings :
         WellPlaced(ok) \/ ~ Mode({"PenaltyReady", "PenaltyTaken"})
    /\ timer' = timer - 1
    /\ UNCHANGED <<playmode, countVars, takerVars>>

Over ==
    /\ playmode = TimeOver
    /\ UNCHANGED vars

------------------------------------------------------------------------------
Server == Start \/ Cycle \/ EndOfMatch \/ NextPenalty \/ SetupTimeout
            \/ KickTimeout \/ TimerVerdict \/ TimerRuns

Next ==
    \/ Server
    \/ \E s \in Sides, u \in Unums :
         Kick(s, u) \/ TackleFoul(s, u) \/ PlayerLeaves(s, u)
    \/ \E s \in Sides, inArea \in BOOLEAN : Catch(s, inArea)
    \/ Over

\* The timer calls the simulator step for as long as the match goes on.
Spec == Init /\ [][Next]_vars /\ WF_vars(Server)

------------------------------------------------------------------------------
(* Properties.                                                              *)

\* Types of the variables.
TypeOK ==
    /\ pc \in {"recv", "impl"}
    /\ playmode \in {PlayOn, TimeOver} \cup [kind : PenaltyKinds, side : Sides]
    /\ enabled \subseteq Sides /\ squad \in [Sides -> SUBSET Unums]
    /\ timer \in Nat \cup {-1} /\ nrTaken \in Nat
    /\ curTaker \in Sides \cup {Neutral}
    /\ lastTaker \in (Sides \cup {Neutral}) \X Unums
    /\ penTaken \in [Sides -> SUBSET Unums]
    /\ timeover \in BOOLEAN /\ won \subseteq Sides
    /\ taken \in [Sides -> Nat] /\ scored \in [Sides -> Nat]
    /\ kicks \in [Sides -> [Unums -> Nat]]

\* PenaltyRef follows the rules of a shoot-out: it alternates, counts every
\* penalty once, however it ends (a goal, a miss, a catch, a foul of either
\* side, a timeout), and stops exactly when the outcome is settled.
Rules == INSTANCE ShootOutRules WITH
    nr    <- nrTaken,
    turn  <- IF Settling \/ playmode = TimeOver THEN Opp(curTaker) ELSE curTaker,
    goals <- scored,
    over  <- timeover \/ playmode = TimeOver
FollowsRules == Rules!RulesSpec

\* NEWS 9.3.0: "One player is not allowed to be the penalty taker again before
\* all eleven players (including the goalie!) have taken a penalty", although
\* the referee only keeps a set that it clears when it is full.
NoRepeatTaker ==
    \A s \in Sides : \A u, v \in Unums : kicks[s][u] <= kicks[s][v] + 1

\* The attempts the result saver records add up to the penalties the referee
\* counted, and no team is more than one attempt ahead.
AttemptsAddUp ==
    enabled = Sides =>
        /\ taken[Left] + taken[Right] = nrTaken
        /\ taken[Left] - taken[Right] \in {-1, 0, 1}

\* A team wins the toss only in a shoot-out that ran out of kicks, and only
\* one does.
TossIsLastResort ==
    \A s \in won : won = {s} /\ (timeover \/ playmode = TimeOver)
                     /\ nrTaken > 2 * (NrKicks + MaxExtraKicks)

\* Every shoot-out ends, even when players leave or nobody ever kicks.
ShootOutEnds == <>[](playmode = TimeOver)

\* Comment in penalty_check_score: "if both players have taken nr_kicks and
\* max_extra_kicks penalties -> quit".
KicksBounded == nrTaken <= 2 * (NrKicks + MaxExtraKicks)

\* NEWS 11.0.5: "if the defending team player kicks the ball, penalty_foul() is
\* called immediately and the score is awarded to the taker team".
DefenderKickScores ==
    [][\A u \in Unums \ {Goalie} :
         Mode({"PenaltyReady", "PenaltyTaken"}) /\ Kick(Opp(curTaker), u)
            => playmode' # PM("PenaltyMiss", curTaker)]_vars
=============================================================================
