--------------------------- MODULE ShootOutRules ---------------------------
(***************************************************************************)
(* What a penalty shoot-out promises, whoever stands, kicks or catches     *)
(* where: the sides kick in turns, every kick is counted once, and the     *)
(* shoot-out is over as soon as, and only when, its outcome is settled or  *)
(* its kicks are used up.  The module Penalty implements it.               *)
(***************************************************************************)
EXTENDS Integers, PlayModes

CONSTANTS NrKicks, MaxExtraKicks  \* numbers of kicks of a side, in Nat

VARIABLES
    nr,     \* kicks taken by both sides
    turn,   \* the side to kick, Neutral before the draw
    goals,  \* goals of each side
    over    \* is the shoot-out over?

rulesVars == <<nr, turn, goals, over>>

\* Regular kicks that side s still has when n kicks are taken and side t
\* kicks next.
Remaining(n, t, s) ==
    IF n % 2 = 1 /\ s # t THEN NrKicks - n \div 2 - 1 ELSE NrKicks - n \div 2

\* However the regular kicks end, side s stays ahead.
Settled(n, t, g, s) ==
    \A more \in 0..NrKicks :
        more <= Remaining(n, t, Opp(s)) => g[Opp(s)] + more < g[s]

\* In the regular phase a side that cannot be caught has won.  In the extra
\* phase pairs of kicks are compared, until the extra kicks are used up.
Decided(n, t, g) ==
    IF n > 2 * (MaxExtraKicks + NrKicks) THEN TRUE
    ELSE IF n > 2 * NrKicks THEN n % 2 = 0 /\ g[Left] # g[Right]
    ELSE \E s \in Sides : Settled(n, t, g, s)

RulesInit ==
    /\ nr = 0 /\ turn = Neutral /\ over = FALSE
    /\ goals = [s \in Sides |-> 0]

Draw ==
    /\ turn = Neutral
    /\ turn' \in Sides
    /\ UNCHANGED <<nr, goals, over>>

Kicked(goal) ==
    /\ turn \in Sides /\ ~ over
    /\ nr' = nr + 1
    /\ goals' = IF goal THEN [goals EXCEPT ![turn] = @ + 1] ELSE goals
    /\ turn' = Opp(turn)
    /\ over' = Decided(nr', turn', goals')

RulesNext == Draw \/ \E goal \in BOOLEAN : Kicked(goal)

RulesSpec == RulesInit /\ [][RulesNext]_rulesVars
=============================================================================
