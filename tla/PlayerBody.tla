----------------------------- MODULE PlayerBody -----------------------------
(***************************************************************************)
(* The body of one player between two steps of the simulator: which of his *)
(* commands are carried out (Player::dash, turn, kick, tackle, goalieCatch,*)
(* move, pointto, turn_neck), and what Stadium::step does to him (legs,    *)
(* command flags, stamina, capacity, catch ban, arm).                      *)
(*                                                                         *)
(* Positions and directions are left out; where they decide, the outcome   *)
(* is chosen freely.  Stamina, recovery and effort are whole numbers.      *)
(***************************************************************************)
EXTENDS Integers

CONSTANTS
    TackleCycles,   \* server::tackle_cycles
    FoulCycles,     \* server::foul_cycles
    CatchBan,       \* server::catch_ban_cycle
    GoalieMoves,    \* server::goalie_max_moves; no limit if negative
    PointBan,       \* server::point_to_ban
    PointTime,      \* server::point_to_duration
    StaminaMax,     \* server::stamina_max
    ExtraStamina,   \* extra_stamina of the player's type
    StaminaCapacity,\* server::stamina_capacity; no limit if negative
    IncMax,         \* stamina_inc_max of the player's type
    MaxLevel        \* recovery and effort fall from MaxLevel to 1

ASSUME BodyAssumption ==
    /\ {TackleCycles, FoulCycles, CatchBan, PointBan, PointTime} \subseteq Nat
    /\ {StaminaMax, ExtraStamina, IncMax} \subseteq Nat
    /\ MaxLevel \in Nat \ {0} /\ GoalieMoves \in Int /\ StaminaCapacity \in Int

VARIABLES
    play,       \* "on", "dead" (no kick counts), "place" (players may move to
                \* where they like) or "mine" (free kick for the catcher)
    commandDone,\* M_command_done
    neckDone,   \* M_turn_neck_done
    leg,        \* command and cost of the legs
    kickCycles, \* M_kick_cycles
    idleT,      \* M_tackle_cycles
    idleF,      \* M_foul_cycles
    catchBan,   \* M_goalie_catch_ban
    moves,      \* M_goalie_moves_since_catch
    arm,        \* M_timer of the arm
    stamina, capacityLeft, recovery, effort,
    idle,       \* history: did the cycle begin with the player on the ground?
    acts        \* history: commands of the body carried out in this cycle,
                \* dashes of single legs apart

bvars == <<play, commandDone, neckDone, leg, kickCycles, idleT, idleF, catchBan, moves,
           arm, stamina, capacityLeft, recovery, effort, idle, acts>>
energy == <<stamina, capacityLeft, recovery, effort>>

Legs == {"l", "r"}
Rest == [does |-> "none", cost |-> 0]
Least(a, b) == IF a < b THEN a ELSE b

BodyInit ==
    /\ play = "place" /\ commandDone = FALSE /\ neckDone = FALSE
    /\ leg = [x \in Legs |-> Rest]
    /\ kickCycles = 0 /\ idleT = 0 /\ idleF = 0 /\ catchBan = 0 /\ moves = 0
    /\ arm = PointTime
    /\ stamina = StaminaMax /\ capacityLeft = StaminaCapacity
    /\ recovery = MaxLevel /\ effort = MaxLevel
    /\ idle = FALSE /\ acts = 0

------------------------------------------------------------------------------
(* Commands.                                                                *)

\* Leg::dash, turn, move and tackle: a leg that has a command keeps it.
Told(x, what, cost) ==
    IF leg[x].does # "none" THEN leg[x] ELSE [does |-> what, cost |-> cost]

\* The command is the one of this cycle.
Carry == /\ ~ commandDone
         /\ commandDone' = TRUE
         /\ acts' = acts + 1

dash(cost) ==
    /\ Carry
    /\ leg' = [x \in Legs |-> Told(x, "dash", cost)]
    /\ UNCHANGED <<play, neckDone, kickCycles, idleT, idleF, catchBan, moves, arm, energy, idle>>

\* dashLeftLeg and dashRightLeg, from (dash (l ...)) and (dash (r ...)), ask
\* only the leg.
dashLeg(x, cost) ==
    /\ leg[x].does = "none"
    /\ leg' = [leg EXCEPT ![x] = [does |-> "dash", cost |-> cost]]
    /\ commandDone' = TRUE
    /\ UNCHANGED <<play, neckDone, kickCycles, idleT, idleF, catchBan, moves, arm, energy,
                   idle, acts>>

turn ==
    /\ Carry
    /\ leg' = [x \in Legs |-> Told(x, "turn", 0)]
    /\ UNCHANGED <<play, neckDone, kickCycles, idleT, idleF, catchBan, moves, arm, energy, idle>>

turn_neck ==
    /\ ~ neckDone
    /\ neckDone' = TRUE
    /\ UNCHANGED <<play, commandDone, leg, kickCycles, idleT, idleF, catchBan, moves, arm,
                   energy, idle, acts>>

\* Whether the ball is kicked is the concern of the referees (MatchClock); the
\* legs take no part.
kick ==
    /\ Carry
    /\ kickCycles' = 1
    /\ UNCHANGED <<play, neckDone, leg, idleT, idleF, catchBan, moves, arm, energy, idle>>

\* A foul that succeeds while the ball is in play lets the player go on.
tackle(foul, wins) ==
    /\ Carry
    /\ leg' = [x \in Legs |-> Told(x, "tackle", 0)]
    /\ idleT' = IF foul /\ wins /\ play \in {"on", "mine"} THEN 0 ELSE TackleCycles
    /\ UNCHANGED <<play, neckDone, kickCycles, idleF, catchBan, moves, arm, energy, idle>>

\* The catch of a goalie, when the ball is in reach and he has no ban; any
\* other catch is a command without effect.
goalieCatch(reach) ==
    /\ Carry
    /\ IF catchBan = 0 /\ play = "on"
       THEN /\ catchBan' = CatchBan
            /\ moves' = IF reach THEN 0 ELSE moves
            /\ play' \in IF reach THEN {"on", "mine"} ELSE {"on"}
       ELSE UNCHANGED <<catchBan, moves, play>>
    /\ UNCHANGED <<neckDone, leg, kickCycles, idleT, idleF, arm, energy, idle>>

\* The number of moves with the caught ball is limited; a move too many is
\* answered with an error and is still the command of the cycle.
move ==
    /\ play \in {"place", "mine"}
    /\ Carry
    /\ leg' = [x \in Legs |-> Told(x, "move", 0)]
    /\ moves' = IF play = "mine" /\ (GoalieMoves < 0 \/ moves < GoalieMoves)
                THEN moves + 1 ELSE moves
    /\ UNCHANGED <<play, neckDone, kickCycles, idleT, idleF, catchBan, arm, energy, idle>>

pointto(stop) ==
    /\ arm >= PointBan
    /\ arm' = IF stop THEN PointTime ELSE 0
    /\ UNCHANGED <<play, commandDone, neckDone, leg, kickCycles, idleT, idleF, catchBan,
                   moves, energy, idle, acts>>

------------------------------------------------------------------------------
(* What others do to the player.                                            *)

setFoulCharged ==
    /\ idleF' = FoulCycles
    /\ commandDone' = TRUE
    /\ UNCHANGED <<play, neckDone, leg, kickCycles, idleT, catchBan, moves, arm, energy,
                   idle, acts>>

recoverAll ==
    /\ stamina' = StaminaMax /\ capacityLeft' = StaminaCapacity
    /\ recovery' = MaxLevel /\ effort' = MaxLevel
    /\ UNCHANGED <<play, commandDone, neckDone, leg, kickCycles, idleT, idleF, catchBan,
                   moves, arm, idle, acts>>

\* callHalfTime, at the start of the extra halves.
recoverStaminaCapacity ==
    /\ capacityLeft' = StaminaCapacity
    /\ UNCHANGED <<play, commandDone, neckDone, leg, kickCycles, idleT, idleF, catchBan,
                   moves, arm, stamina, recovery, effort, idle, acts>>

Whistle(m) ==
    /\ play' = m
    /\ UNCHANGED <<commandDone, neckDone, leg, kickCycles, idleT, idleF, catchBan, moves,
                   arm, energy, idle, acts>>

------------------------------------------------------------------------------
(* Stadium::step.                                                           *)

\* applyDashEffect: the stamina after the legs' dashes.  The extra stamina may
\* be used up in every cycle anew.
applyDashEffect ==
    LET cost == leg["l"].cost + leg["r"].cost
        used == Least(cost, stamina + ExtraStamina)
    IN  IF used > stamina THEN 0 ELSE stamina - used

Decremented(n) == IF n > 0 THEN n - 1 ELSE n

\* resetCommandFlags: who is on the ground, or still kicking, keeps his flag.
ResetForgetsFoul == commandDone /\ ~ (kickCycles - 1 <= 0 /\ Decremented(idleT) = 0)
resetCommandFlags ==
    commandDone /\ ~ (kickCycles - 1 <= 0 /\ Decremented(idleT) = 0 /\ Decremented(idleF) = 0)

\* updateStamina with s stamina left: recovery only falls, effort falls and
\* rises, and what is recovered is taken from the capacity.
RecoveryFor(s) == IF s <= 1 /\ recovery > 1 THEN recovery - 1 ELSE recovery
EffortFor(s) == IF s <= 1 /\ effort > 1 THEN effort - 1
                ELSE IF s >= StaminaMax - 1 /\ effort < MaxLevel THEN effort + 1 ELSE effort
StaminaIncFree(s) == Least(RecoveryFor(s) * IncMax, StaminaMax - s)
StaminaInc(s) ==
    IF StaminaCapacity >= 0 THEN Least(StaminaIncFree(s), capacityLeft) ELSE StaminaIncFree(s)

BodyStep ==
    LET s == applyDashEffect
    IN  /\ stamina' = s + StaminaInc(s)
        /\ recovery' = RecoveryFor(s) /\ effort' = EffortFor(s)
        /\ capacityLeft' = IF StaminaCapacity < 0 THEN capacityLeft
                           ELSE IF capacityLeft < StaminaInc(s) THEN 0
                           ELSE capacityLeft - StaminaInc(s)
        /\ leg' = [x \in Legs |-> Rest]
        /\ kickCycles' = (IF kickCycles >= 0 THEN kickCycles - 1 ELSE kickCycles)
        /\ idleT' = Decremented(idleT) /\ idleF' = Decremented(idleF)
        /\ commandDone' = resetCommandFlags /\ neckDone' = FALSE
        /\ catchBan' = Decremented(catchBan)
        /\ arm' = Least(arm + 1, PointTime)     \* the counter itself goes on
        /\ idle' = (idleT' > 0 \/ idleF' > 0)
        /\ acts' = 0
        /\ UNCHANGED <<play, moves>>

BodyNext ==
    \/ \E cost \in 0..2 : dash(cost) \/ \E x \in Legs : dashLeg(x, cost)
    \/ turn \/ turn_neck \/ kick \/ move
    \/ \E foul, wins \in BOOLEAN : tackle(foul, wins)
    \/ \E reach \in BOOLEAN : goalieCatch(reach)
    \/ \E stop \in BOOLEAN : pointto(stop)
    \/ setFoulCharged \/ recoverAll \/ recoverStaminaCapacity
    \/ \E m \in {"on", "dead", "place"} : Whistle(m)
    \/ BodyStep

BodySpec == BodyInit /\ [][BodyNext]_bvars

------------------------------------------------------------------------------
(* Properties.                                                              *)

\* Besides the dashes of single legs, the body carries out one command in a
\* cycle and none while the player is on the ground, be it after his own
\* tackle or another's foul, whichever of the two lasts longer.
OneCommand == acts <= 1 /\ (idle => acts = 0)

\* Without help from outside a player's stamina and the capacity to restore it
\* never grow together: what he recovers comes out of his capacity, down to
\* the last unit of either.
StaminaBudget ==
    [][StaminaCapacity >= 0 /\ ~ (recoverAll \/ recoverStaminaCapacity)
           => stamina' + capacityLeft' <= stamina + capacityLeft]_bvars

\* The tackle command "renders the player immobile for 10 cycles" (NEWS).
TackledIsIdle == idleT > 0 => \A x \in Legs : leg[x].does # "dash"
=============================================================================
