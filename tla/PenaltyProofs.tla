--------------------------- MODULE PenaltyProofs ---------------------------
(***************************************************************************)
(* Proofs about Penalty, for every number of players and of kicks and for  *)
(* every wait: PenaltyRef implements ShootOutRules.                        *)
(***************************************************************************)
EXTENDS Penalty, TLAPS

------------------------------------------------------------------------------
(* Facts about modes and sides.                                             *)

\* A side has one opponent, whose opponent it is.
LEMMA Opponents ==
    \A s \in Sides : Opp(s) \in Sides /\ Opp(s) # s /\ Opp(Opp(s)) = s
                       /\ Sides = {s, Opp(s)}
  BY DEF Opp, Sides, Left, Right

\* The modes of a shoot-out are different from each other and from the rest.
LEMMA ModeFacts ==
    /\ \A k \in PenaltyKinds, s \in Sides :
         /\ PM(k, s).kind = k /\ PM(k, s).side = s
         /\ PM(k, s) \in [kind : PenaltyKinds, side : Sides]
         /\ PM(k, s) \notin {PlayOn, TimeOver}
    /\ PlayOn # TimeOver
    /\ PlayOn.kind \notin PenaltyKinds /\ TimeOver.kind \notin PenaltyKinds
    /\ PenaltyKinds = {"PenaltySetup", "PenaltyReady", "PenaltyTaken",
                       "PenaltyMiss", "PenaltyScore"}
    /\ Neutral \notin Sides
  BY DEF PM, PlayOn, TimeOver, PenaltyKinds, Sides, Left, Right, Neutral

\* The constants, one fact at a time.
LEMMA Constants ==
    /\ Goalie \in Unums /\ NrKicks \in Nat /\ MaxExtraKicks \in Nat
    /\ BeforeSetupWait \in Nat /\ SetupWait \in Nat
    /\ ReadyWait \in Nat /\ TakenWait \in Nat
  BY PenaltyAssumption

------------------------------------------------------------------------------
(* Where the shoot-out stands.                                              *)

\* Whose penalty it is and when M_timeover may be set.
StageInv ==
    /\ playmode = PlayOn => curTaker = Neutral /\ nrTaken = 0
    /\ playmode # PlayOn => curTaker \in Sides
    /\ playmode \notin {PlayOn, TimeOver} => playmode.side = curTaker
    /\ timeover => Settling \/ playmode = TimeOver

Inv == TypeOK /\ StageInv

\* What penalty_score and penalty_miss do in a penalty that is not settled.
LEMMA SettleStep ==
    ASSUME Inv, NEW goal \in BOOLEAN, Settle(goal), curTaker' = curTaker,
           curTaker \in Sides
    PROVE  /\ playmode' \in {TimeOver} \cup [kind : PenaltyKinds, side : Sides]
           /\ playmode' # PlayOn
           /\ playmode' # TimeOver => playmode'.side = curTaker
           /\ Settling' \/ playmode' = TimeOver
           /\ timer' \in Nat /\ nrTaken' = nrTaken + 1
           /\ taken' \in [Sides -> Nat] /\ scored' \in [Sides -> Nat]
           /\ timeover' \in BOOLEAN /\ won' \subseteq Sides
           /\ lastTaker' \in (Sides \cup {Neutral}) \X Unums
<1> USE DEF Inv, TypeOK
<1>1. /\ nrTaken' = nrTaken + 1 /\ timer' \in Nat
      /\ lastTaker' \in (Sides \cup {Neutral}) \X Unums
  BY Constants DEF Settle, NoOne
<1>2. taken' \in [Sides -> Nat] /\ scored' \in [Sides -> Nat]
  BY DEF Settle
<1>3. \/ playmode' = TimeOver
      \/ playmode' = PM("PenaltyScore", curTaker)
      \/ playmode' = PM("PenaltyMiss", curTaker)
  BY DEF Settle
<1>4. timeover' \in BOOLEAN
  <2>1. timeover' = (CheckScore(nrTaken', scored', curTaker)
                       \in {"over", "exhausted"})
    BY DEF Settle
  <2> QED  BY <2>1
<1>5. won' \subseteq Sides
  BY DEF Settle
<1>6. Settling' \/ playmode' = TimeOver
  BY <1>3, ModeFacts DEF Settling, Mode
<1> QED  BY <1>1, <1>2, <1>3, <1>4, <1>5, <1>6, ModeFacts

\* Every step keeps the types and the stage.
LEMMA InvStep == Inv /\ [Next]_vars => Inv'
<1> SUFFICES ASSUME Inv, [Next]_vars PROVE Inv'
  OBVIOUS
<1>a. /\ Settling <=> playmode.kind \in {"PenaltyMiss", "PenaltyScore"}
      /\ \A K : Mode(K) <=> playmode.kind \in K
  BY DEF Settling, Mode
<1>b. ASSUME NEW goal \in BOOLEAN, Settle(goal), curTaker \in Sides,
             UNCHANGED <<curTaker, penTaken, kicks, teamVars>>,
             pc' \in {"recv", "impl"}
      PROVE  Inv'
  BY <1>b, SettleStep, Constants
  DEF Inv, TypeOK, StageInv, NoOne, teamVars
<1>c. ASSUME NEW side, Foul(side), curTaker \in Sides,
             UNCHANGED <<curTaker, penTaken, kicks, teamVars>>,
             pc' \in {"recv", "impl"}
      PROVE  Inv'
  BY <1>b, <1>c, Zenon DEF Foul
<1>d. ASSUME NEW K \in SUBSET PenaltyKinds, Mode(K) PROVE curTaker \in Sides
  BY <1>a, <1>d, ModeFacts DEF Inv, StageInv
<1>e. /\ {"PenaltySetup", "PenaltyReady", "PenaltyTaken"} \subseteq PenaltyKinds
      /\ {"PenaltySetup"} \subseteq PenaltyKinds
      /\ {"PenaltyReady"} \subseteq PenaltyKinds
      /\ {"PenaltyTaken"} \subseteq PenaltyKinds
      /\ {"PenaltyReady", "PenaltyTaken"} \subseteq PenaltyKinds
      /\ {"PenaltyMiss", "PenaltyScore"} \subseteq PenaltyKinds
  BY DEF PenaltyKinds
<1> USE DEF Inv
<1>1. ASSUME NEW t \in Sides, penalty_init(t), ~ timeover,
             UNCHANGED <<countVars, penTaken, kicks, teamVars>>,
             pc' \in {"recv", "impl"}
      PROVE  Inv'
  BY <1>1, Opponents, ModeFacts, Constants
  DEF penalty_init, TypeOK, StageInv, NoOne, countVars, teamVars
<1>2. CASE Start
  <2>1. ~ timeover
    BY <1>2, <1>a, ModeFacts DEF Start, StageInv
  <2> QED  BY <1>2, <1>1, <2>1 DEF Start
<1>3. CASE Cycle
  BY <1>3 DEF Cycle, TypeOK, StageInv, Settling, Mode, countVars, takerVars, teamVars
<1>4. CASE EndOfMatch
  <2>1. curTaker \in Sides
    BY <1>4, <1>a, ModeFacts DEF EndOfMatch, StageInv
  <2> QED
    BY <1>4, <2>1, ModeFacts
    DEF EndOfMatch, analyse, TypeOK, StageInv, countVars, takerVars, teamVars
<1>5. CASE NextPenalty
  <2>1. curTaker \in Sides
    BY <1>5, <1>a, <1>d, <1>e DEF NextPenalty, Settling
  <2> QED  BY <1>5, <1>1, <2>1 DEF NextPenalty, analyse
<1>6. CASE SetupTimeout
  <2>1. curTaker \in Sides
    BY <1>6, <1>d, <1>e DEF SetupTimeout
  <2>2. PICK ok \in Placings :
          IF WellPlaced(ok)
          THEN /\ playmode' = PM("PenaltyReady", curTaker)
               /\ timer' = ReadyWait /\ lastTaker' = NoOne
               /\ UNCHANGED countVars
          ELSE PlacingFoul(ok)
    BY <1>6 DEF SetupTimeout
  <2>3. CASE WellPlaced(ok)
    BY <1>6, <2>1, <2>2, <2>3, ModeFacts, Constants
    DEF SetupTimeout, analyse, TypeOK, StageInv, NoOne, countVars, teamVars
  <2>4. CASE ~ WellPlaced(ok)
    BY <1>6, <1>c, <2>1, <2>2, <2>4 DEF SetupTimeout, analyse, PlacingFoul
  <2> QED  BY <2>3, <2>4
<1>7. CASE KickTimeout
  <2>1. curTaker \in Sides
    BY <1>7, <1>d, <1>e DEF KickTimeout
  <2> QED
    BY <1>7, <1>b, <1>c, <2>1 DEF KickTimeout, analyse, PlacingFoul
<1>8. CASE TimerVerdict
  <2>1. curTaker \in Sides
    BY <1>8, <1>d, <1>e DEF TimerVerdict
  <2> QED
    BY <1>8, <1>b, <1>c, <2>1 DEF TimerVerdict, analyse, PlacingFoul
<1>9. CASE TimerRuns
  BY <1>9
  DEF TimerRuns, analyse, TypeOK, StageInv, Settling, Mode, countVars, takerVars,
      teamVars
<1>10. ASSUME NEW s \in Sides, NEW u \in Unums, Kick(s, u) PROVE Inv'
  <2>1. curTaker \in Sides
    BY <1>10, <1>d, <1>e DEF Kick
  <2>2. CASE KickFoul(s, u) # Neutral
    BY <1>10, <1>c, <2>1, <2>2 DEF Kick
  <2>3. CASE KickFoul(s, u) = Neutral
    <3>1. KickBall(s, u) /\ UNCHANGED <<countVars, pc, curTaker, teamVars>>
      BY <1>10, <2>3 DEF Kick
    <3>2. CASE Mode({"PenaltyReady"})
      <4>1. /\ lastTaker' = <<s, u>> /\ timer' = TakenWait
            /\ playmode' = PM("PenaltyTaken", curTaker)
            /\ penTaken' = [penTaken EXCEPT ![curTaker] = TakersWith(@, u)]
            /\ kicks' = IF s = curTaker
                        THEN [kicks EXCEPT ![s][u] = @ + 1] ELSE kicks
        BY <3>1, <3>2 DEF KickBall
      <4>2. penTaken' \in [Sides -> SUBSET Unums]
        BY <2>1, <4>1 DEF TypeOK, TakersWith
      <4>3. kicks' \in [Sides -> [Unums -> Nat]]
        BY <4>1 DEF TypeOK
      <4>4. ~ timeover
        BY <1>a, <3>2, ModeFacts DEF StageInv
      <4> QED
        BY <2>1, <3>1, <4>1, <4>2, <4>3, <4>4, ModeFacts, Constants
        DEF TypeOK, StageInv, countVars, teamVars
    <3>3. CASE ~ Mode({"PenaltyReady"})
      BY <3>1, <3>3
      DEF KickBall, TypeOK, StageInv, Settling, Mode, countVars, teamVars
    <3> QED  BY <3>2, <3>3
  <2> QED  BY <2>2, <2>3
<1>11. ASSUME NEW s \in Sides, NEW u \in Unums, TackleFoul(s, u) PROVE Inv'
  <2>1. curTaker \in Sides
    BY <1>11, <1>d, <1>e DEF TackleFoul
  <2> QED  BY <1>11, <1>c, <2>1 DEF TackleFoul, TypeOK
<1>12. ASSUME NEW s \in Sides, NEW inArea \in BOOLEAN, Catch(s, inArea) PROVE Inv'
  <2>1. curTaker \in Sides
    BY <1>12, <1>d, <1>e DEF Catch
  <2> QED  BY <1>12, <1>b, <1>c, <2>1 DEF Catch, TypeOK
<1>13. ASSUME NEW s \in Sides, NEW u \in Unums, PlayerLeaves(s, u) PROVE Inv'
  BY <1>13
  DEF PlayerLeaves, TypeOK, StageInv, Settling, Mode, countVars, takerVars
<1>14. CASE Over \/ UNCHANGED vars
  BY <1>14
  DEF Over, vars, TypeOK, StageInv, Settling, Mode, countVars, takerVars, teamVars
<1> QED
  BY <1>2, <1>3, <1>4, <1>5, <1>6, <1>7, <1>8, <1>9, <1>10, <1>11, <1>12,
     <1>13, <1>14
  DEF Next, Server

\* The shoot-out starts in the types.
LEMMA InvInit == Init => Inv
<1> SUFFICES ASSUME Init PROVE Inv
  OBVIOUS
<1>1. timeover \in BOOLEAN /\ ~ timeover
  BY Zenon DEF Init
<1>2. /\ squad \in [Sides -> SUBSET Unums] /\ penTaken \in [Sides -> SUBSET Unums]
      /\ enabled \subseteq Sides /\ won \subseteq Sides
  BY DEF Init
<1>3. /\ taken \in [Sides -> Nat] /\ scored \in [Sides -> Nat]
      /\ kicks \in [Sides -> [Unums -> Nat]]
  BY DEF Init
<1> QED
  BY <1>1, <1>2, <1>3, Constants, ModeFacts
  DEF Init, Inv, TypeOK, StageInv, NoOne

\* The types and the stage of the shoot-out are invariant.
LEMMA InvHolds == Spec => []Inv
BY InvInit, InvStep, PTL DEF Spec

\* PenaltyRef's variables have their types; its timer is never below zero once
\* the shoot-out has begun.
THEOREM PenaltyTypeCorrect == Spec => []TypeOK
<1>1. Inv => TypeOK
  BY DEF Inv
<1> QED  BY <1>1, InvHolds, PTL

------------------------------------------------------------------------------
(* PenaltyRef implements ShootOutRules.                                     *)

\* The instance talks about the same sides.
LEMMA SameSides ==
    /\ Rules!Left = Left /\ Rules!Right = Right /\ Rules!Neutral = Neutral
    /\ Rules!Sides = Sides /\ \A s : Rules!Opp(s) = Opp(s)
  BY DEF Rules!Left, Rules!Right, Rules!Neutral, Rules!Sides, Rules!Opp,
         Left, Right, Neutral, Sides, Opp

\* penalty_check_score stops exactly when the reference says the outcome is
\* decided, for every number of kicks and every score.
LEMMA CheckScoreCorrect ==
    ASSUME NEW n \in Nat, NEW p \in [Sides -> Nat], NEW t \in Sides
    PROVE  /\ CheckScore(n, p, t) \in {"exhausted", "over", "now", "on"}
           /\ (CheckScore(n, p, t) # "on") <=> Rules!Decided(n, Opp(t), p)
<1>1. CheckScore(n, p, t) \in {"exhausted", "over", "now", "on"}
  BY DEF CheckScore
<1>2. CASE n > 2 * NrKicks
  BY <1>1, <1>2, SameSides, Constants DEF CheckScore, Rules!Decided
<1>3. CASE ~ (n > 2 * NrKicks)
  <2> DEFINE left(s) == NrKicks - n \div 2
                          - (IF n % 2 = 1 /\ s = t THEN 1 ELSE 0)
  <2>1. ASSUME NEW s \in Sides
        PROVE  left(s) \in 0..NrKicks /\ Rules!Remaining(n, Opp(t), s) = left(s)
    <3>1. n \div 2 \in Nat /\ n % 2 \in {0, 1} /\ n = 2 * (n \div 2) + (n % 2)
      OBVIOUS
    <3>2. s # Opp(t) <=> s = t
      BY Opponents
    <3> QED
      BY <1>3, <3>1, <3>2, Constants DEF Rules!Remaining
  <2>2. ASSUME NEW s \in Sides
        PROVE  Rules!Settled(n, Opp(t), p, s) <=> p[Opp(s)] + left(Opp(s)) < p[s]
    <3>1. Opp(s) \in Sides
      BY Opponents
    <3>2. /\ Rules!Remaining(n, Opp(t), Opp(s)) = left(Opp(s))
          /\ left(Opp(s)) \in 0..NrKicks
      BY <2>1, <3>1
    <3>3. p[s] \in Nat /\ p[Opp(s)] \in Nat
      BY <3>1
    <3> HIDE DEF left
    <3> QED
      BY <3>2, <3>3, SameSides, Constants DEF Rules!Settled
  <2>3. ~ (n > 2 * (MaxExtraKicks + NrKicks))
    BY <1>3, Constants
  <2>4. CheckScore(n, p, t) # "on" <=>
          \/ p[Left] + left(Left) < p[Right]
          \/ p[Right] + left(Right) < p[Left]
    BY <1>3, <2>3 DEF CheckScore
  <2>5. Rules!Decided(n, Opp(t), p) <=>
          \/ Rules!Settled(n, Opp(t), p, Right)
          \/ Rules!Settled(n, Opp(t), p, Left)
    BY <1>3, <2>3, SameSides DEF Rules!Decided, Sides
  <2>6. Opp(Left) = Right /\ Opp(Right) = Left /\ {Left, Right} \subseteq Sides
    BY DEF Opp, Sides, Left, Right
  <2> HIDE DEF left
  <2> QED  BY <1>1, <2>2, <2>4, <2>5, <2>6
<1> QED  BY <1>1, <1>2, <1>3

\* The abstract state of the shoot-out, as the instance maps it.
Turn   == IF Settling \/ playmode = TimeOver THEN Opp(curTaker) ELSE curTaker
Ended  == timeover \/ playmode = TimeOver
Mapped == <<nrTaken, Turn, scored, Ended>>

\* A settled penalty is one kick of the rules.
LEMMA SettleIsKick ==
    ASSUME Inv, NEW goal \in BOOLEAN, Settle(goal), curTaker' = curTaker,
           Mode({"PenaltySetup", "PenaltyReady", "PenaltyTaken"})
    PROVE  Rules!RulesNext
<1> USE DEF Inv
<1>1. /\ playmode \notin {PlayOn, TimeOver} /\ ~ Settling /\ ~ timeover
      /\ curTaker \in Sides
  BY ModeFacts DEF Mode, Settling, StageInv
<1>2. /\ nrTaken' = nrTaken + 1 /\ nrTaken' \in Nat
      /\ scored' \in [Sides -> Nat]
      /\ Settling' \/ playmode' = TimeOver
  BY <1>1, SettleStep DEF TypeOK
<1> DEFINE verdict == CheckScore(nrTaken', scored', curTaker)
<1>3. /\ playmode' = TimeOver <=> verdict = "now"
      /\ timeover' <=> verdict \in {"over", "exhausted"}
  <2>1. playmode' = IF verdict = "now" THEN TimeOver
                    ELSE PM(IF goal THEN "PenaltyScore" ELSE "PenaltyMiss",
                            curTaker)
    BY DEF Settle
  <2>2. timeover' = (verdict \in {"over", "exhausted"})
    BY DEF Settle
  <2>3. PM(IF goal THEN "PenaltyScore" ELSE "PenaltyMiss", curTaker) # TimeOver
    BY <1>1, ModeFacts
  <2> HIDE DEF verdict
  <2> QED  BY <2>1, <2>2, <2>3
<1>4. (timeover' \/ playmode' = TimeOver)
         <=> Rules!Decided(nrTaken', Opp(curTaker), scored')
  <2>1. /\ verdict \in {"exhausted", "over", "now", "on"}
        /\ verdict # "on" <=> Rules!Decided(nrTaken', Opp(curTaker), scored')
    BY <1>1, <1>2, CheckScoreCorrect
  <2> QED  BY <1>3, <2>1
<1>5. PICK g \in BOOLEAN :
        scored' = IF g THEN [scored EXCEPT ![curTaker] = @ + 1] ELSE scored
  BY DEF Settle
<1>6. Rules!Kicked(g)
  <2>1. ~ (timeover \/ playmode = TimeOver)
    BY <1>1
  <2>2. (timeover' \/ playmode' = TimeOver)
           = Rules!Decided(nrTaken', Opp(curTaker), scored')
    <3>1. Rules!Decided(nrTaken', Opp(curTaker), scored') \in BOOLEAN
      BY DEF Rules!Decided
    <3> QED  BY <1>4, <3>1
  <2> QED  BY <1>1, <1>2, <1>5, <2>1, <2>2, SameSides DEF Rules!Kicked
<1> QED  BY <1>6 DEF Rules!RulesNext

\* Every step of the server is a step of the rules or leaves them alone.
LEMMA RulesStep ==
    Inv /\ Inv' /\ [Next]_vars => [Rules!RulesNext]_(Rules!rulesVars)
<1> SUFFICES ASSUME Inv, Inv', [Next]_vars
             PROVE  Rules!RulesNext \/ UNCHANGED Mapped
  BY DEF Rules!rulesVars, Mapped, Turn, Ended
<1> USE DEF Inv
<1>a. ASSUME NEW goal \in BOOLEAN, Settle(goal), curTaker' = curTaker,
             \/ Mode({"PenaltySetup"}) \/ Mode({"PenaltyReady"})
             \/ Mode({"PenaltyTaken"}) \/ Mode({"PenaltyReady", "PenaltyTaken"})
             \/ Mode({"PenaltySetup", "PenaltyReady", "PenaltyTaken"})
      PROVE  Rules!RulesNext
  BY <1>a, SettleIsKick DEF Mode
<1>b. ASSUME NEW side, Foul(side), curTaker' = curTaker,
             \/ Mode({"PenaltySetup"}) \/ Mode({"PenaltyReady"})
             \/ Mode({"PenaltyTaken"}) \/ Mode({"PenaltyReady", "PenaltyTaken"})
             \/ Mode({"PenaltySetup", "PenaltyReady", "PenaltyTaken"})
      PROVE  Rules!RulesNext
  BY <1>a, <1>b DEF Foul
<1>c. ASSUME UNCHANGED <<nrTaken, scored, timeover, curTaker>>,
             \/ playmode' = playmode
             \/ ~ Settling /\ ~ Settling' /\ playmode # TimeOver
                   /\ playmode' # TimeOver
      PROVE  UNCHANGED Mapped
  BY <1>c DEF Mapped, Turn, Ended, Settling, Mode
<1>1. CASE Start
  <2>1. PICK t \in Sides : curTaker' = Opp(t) /\ playmode' = PM("PenaltySetup", Opp(t))
    BY <1>1 DEF Start, penalty_init
  <2>2. /\ Turn = Neutral /\ Turn' \in Sides
        /\ ~ Settling /\ playmode # TimeOver /\ ~ Settling' /\ playmode' # TimeOver
    BY <1>1, <2>1, Opponents, ModeFacts
    DEF Start, Turn, Settling, Mode, StageInv
  <2>3. UNCHANGED <<nrTaken, scored, Ended>>
    BY <1>1, <2>2 DEF Start, countVars, Ended
  <2> QED
    BY <2>2, <2>3, SameSides
    DEF Turn, Ended, Rules!RulesNext, Rules!Draw
<1>2. CASE Cycle
  BY <1>2, <1>c DEF Cycle, countVars, takerVars
<1>3. CASE EndOfMatch
  BY <1>3 DEF EndOfMatch, StageInv, Mapped, Turn, Ended, countVars, takerVars
<1>4. CASE NextPenalty
  <2>1. curTaker \in Sides /\ playmode # TimeOver
    BY <1>4, ModeFacts DEF NextPenalty, Settling, Mode, StageInv
  <2>2. /\ curTaker' = Opp(curTaker) /\ ~ Settling' /\ playmode' # TimeOver
    BY <1>4, <2>1, Opponents, ModeFacts
    DEF NextPenalty, penalty_init, Settling, Mode
  <2> QED
    BY <1>4, <2>1, <2>2 DEF NextPenalty, Mapped, Turn, Ended, countVars
<1>5. CASE SetupTimeout
  <2>1. PICK ok \in Placings :
          IF WellPlaced(ok)
          THEN playmode' = PM("PenaltyReady", curTaker) /\ UNCHANGED countVars
          ELSE PlacingFoul(ok)
    BY <1>5 DEF SetupTimeout
  <2>2. CASE WellPlaced(ok)
    <3>1. /\ ~ Settling /\ playmode # TimeOver /\ curTaker \in Sides
      BY <1>5, ModeFacts DEF SetupTimeout, Settling, Mode, StageInv
    <3>2. ~ Settling' /\ playmode' # TimeOver
      BY <2>1, <2>2, <3>1, ModeFacts DEF Settling, Mode
    <3> QED  BY <1>5, <1>c, <2>1, <2>2, <3>1, <3>2 DEF SetupTimeout, countVars
  <2>3. CASE ~ WellPlaced(ok)
    BY <1>5, <1>b, <2>1, <2>3 DEF SetupTimeout, PlacingFoul
  <2> QED  BY <2>2, <2>3
<1>6. CASE KickTimeout
  BY <1>6, <1>a, <1>b DEF KickTimeout, PlacingFoul
<1>7. CASE TimerVerdict
  BY <1>7, <1>a, <1>b DEF TimerVerdict, PlacingFoul
<1>8. CASE TimerRuns
  BY <1>8, <1>c DEF TimerRuns, countVars, takerVars
<1>9. ASSUME NEW s \in Sides, NEW u \in Unums, Kick(s, u)
      PROVE  Rules!RulesNext \/ UNCHANGED Mapped
  <2>1. CASE KickFoul(s, u) # Neutral
    BY <1>9, <1>b, <2>1 DEF Kick
  <2>2. CASE KickFoul(s, u) = Neutral
    <3>1. /\ ~ Settling /\ playmode # TimeOver /\ curTaker \in Sides
      BY <1>9, ModeFacts DEF Kick, Settling, Mode, StageInv
    <3>2. \/ playmode' = playmode
          \/ ~ Settling' /\ playmode' # TimeOver
      BY <1>9, <2>2, <3>1, ModeFacts DEF Kick, KickBall, Settling, Mode
    <3> QED  BY <1>9, <1>c, <2>2, <3>1, <3>2 DEF Kick, countVars
  <2> QED  BY <2>1, <2>2
<1>10. ASSUME NEW s \in Sides, NEW u \in Unums, TackleFoul(s, u)
       PROVE  Rules!RulesNext
  BY <1>10, <1>b DEF TackleFoul
<1>11. ASSUME NEW s \in Sides, NEW inArea \in BOOLEAN, Catch(s, inArea)
       PROVE  Rules!RulesNext
  BY <1>11, <1>a, <1>b DEF Catch
<1>12. ASSUME NEW s \in Sides, NEW u \in Unums, PlayerLeaves(s, u)
       PROVE  UNCHANGED Mapped
  BY <1>12, <1>c DEF PlayerLeaves, countVars, takerVars
<1>13. CASE Over \/ UNCHANGED vars
  BY <1>13, <1>c DEF Over, vars, countVars, takerVars
<1> QED
  BY <1>1, <1>2, <1>3, <1>4, <1>5, <1>6, <1>7, <1>8, <1>9, <1>10, <1>11,
     <1>12, <1>13
  DEF Next, Server

\* PenaltyRef implements the rules of a shoot-out: strict turns, every penalty
\* counted once, and an end exactly when the outcome is decided.
THEOREM FollowsRulesHolds == Spec => FollowsRules
<1>1. Init => Rules!RulesInit
  BY ModeFacts, SameSides DEF Init, Rules!RulesInit, Settling, Mode
<1> QED
  BY <1>1, InvHolds, RulesStep, PTL DEF Spec, FollowsRules, Rules!RulesSpec

------------------------------------------------------------------------------
(* The counts and the takers.                                               *)

Unsettled == Mode({"PenaltySetup", "PenaltyReady", "PenaltyTaken"})

\* The kinds of step: a penalty is settled, the next one is set up, a penalty
\* is taken, or nothing that counts changes.
SettleKind ==
    /\ Unsettled /\ \E goal \in BOOLEAN : Settle(goal)
    /\ UNCHANGED <<curTaker, penTaken, kicks, enabled>>
SetupKind ==
    /\ \E t \in Sides : penalty_init(t) /\ (playmode = PlayOn \/ (Settling /\ t = curTaker))
    /\ UNCHANGED <<countVars, penTaken, kicks, enabled>>
TakeKind ==
    /\ Mode({"PenaltyReady"}) /\ playmode' = PM("PenaltyTaken", curTaker)
    /\ \E s \in Sides, u \in Unums :
         KickFoul(s, u) = Neutral /\ KickBall(s, u)
    /\ UNCHANGED <<countVars, curTaker, enabled>>
QuietKind ==
    /\ \/ playmode' = playmode
       \/ Unsettled /\ Unsettled'
       \/ timeover /\ playmode' = TimeOver
    /\ UNCHANGED <<countVars, curTaker, penTaken, kicks, enabled>>

\* There are no others.
LEMMA StepKinds ==
    ASSUME Inv, [Next]_vars
    PROVE  SettleKind \/ SetupKind \/ TakeKind \/ QuietKind
<1> USE DEF Inv, teamVars
<1>a. /\ Mode({"PenaltySetup"}) => Unsettled
      /\ Mode({"PenaltyReady"}) => Unsettled
      /\ Mode({"PenaltyTaken"}) => Unsettled
      /\ Mode({"PenaltyReady", "PenaltyTaken"}) => Unsettled
  BY DEF Mode, Unsettled
<1>b. ASSUME NEW side, Foul(side) PROVE \E goal \in BOOLEAN : Settle(goal)
  BY <1>b DEF Foul
<1>1. CASE Start \/ NextPenalty
  <2>1. NextPenalty => curTaker \in Sides
    BY ModeFacts DEF NextPenalty, Settling, Mode, StageInv
  <2> QED  BY <1>1, <2>1 DEF Start, NextPenalty, analyse, SetupKind
<1>2. CASE Cycle \/ TimerRuns \/ EndOfMatch
  BY <1>2 DEF Cycle, TimerRuns, EndOfMatch, analyse, QuietKind, takerVars
<1>3. CASE SetupTimeout
  <2>1. PICK ok \in Placings :
          IF WellPlaced(ok)
          THEN playmode' = PM("PenaltyReady", curTaker) /\ UNCHANGED countVars
          ELSE PlacingFoul(ok)
    BY <1>3 DEF SetupTimeout
  <2>2. CASE WellPlaced(ok)
    <3>1. curTaker \in Sides
      BY <1>3, ModeFacts DEF SetupTimeout, Mode, StageInv
    <3>2. Unsettled'
      BY <2>1, <2>2, <3>1, ModeFacts DEF Unsettled, Mode
    <3> QED
      BY <1>3, <1>a, <2>1, <2>2, <3>2 DEF SetupTimeout, analyse, QuietKind
  <2>3. CASE ~ WellPlaced(ok)
    BY <1>3, <1>a, <1>b, <2>1, <2>3
    DEF SetupTimeout, analyse, SettleKind, PlacingFoul
  <2> QED  BY <2>2, <2>3
<1>4. CASE KickTimeout
  BY <1>4, <1>a, <1>b DEF KickTimeout, analyse, SettleKind, PlacingFoul
<1>5. CASE TimerVerdict
  BY <1>5, <1>a, <1>b DEF TimerVerdict, analyse, SettleKind, PlacingFoul
<1>6. ASSUME NEW s \in Sides, NEW u \in Unums, Kick(s, u)
      PROVE  SettleKind \/ TakeKind \/ QuietKind
  <2>1. CASE KickFoul(s, u) # Neutral
    BY <1>6, <1>b, <2>1 DEF Kick, SettleKind, Unsettled
  <2>2. CASE KickFoul(s, u) = Neutral /\ Mode({"PenaltyReady"})
    BY <1>6, <2>2 DEF Kick, KickBall, TakeKind
  <2>3. CASE KickFoul(s, u) = Neutral /\ ~ Mode({"PenaltyReady"})
    BY <1>6, <2>3 DEF Kick, KickBall, QuietKind
  <2> QED  BY <2>1, <2>2, <2>3
<1>7. ASSUME NEW s \in Sides, NEW u \in Unums, TackleFoul(s, u) PROVE SettleKind
  BY <1>7, <1>b DEF TackleFoul, SettleKind, Unsettled
<1>8. ASSUME NEW s \in Sides, NEW inArea \in BOOLEAN, Catch(s, inArea)
      PROVE  SettleKind
  BY <1>8, <1>a, <1>b DEF Catch, SettleKind
<1>9. ASSUME NEW s \in Sides, NEW u \in Unums, PlayerLeaves(s, u) PROVE QuietKind
  BY <1>9 DEF PlayerLeaves, QuietKind, takerVars
<1>10. CASE Over \/ UNCHANGED vars
  BY <1>10 DEF Over, vars, QuietKind, takerVars
<1> QED
  BY <1>1, <1>2, <1>3, <1>4, <1>5, <1>6, <1>7, <1>8, <1>9, <1>10
  DEF Next, Server

\* Who is how far ahead, by whose penalty it is.
AttemptsInv ==
    enabled = Sides =>
        /\ taken[Left] + taken[Right] = nrTaken
        /\ curTaker \in Sides =>
             taken[curTaker] - taken[Opp(curTaker)] \in
                IF Unsettled THEN {-1, 0} ELSE {0, 1}

\* The toss comes last.
TossInv == TossIsLastResort

\* Every step keeps the attempts in line.
LEMMA CountStep ==
    Inv /\ AttemptsInv /\ TossInv /\ [Next]_vars => (AttemptsInv /\ TossInv)'
<1> SUFFICES ASSUME Inv, AttemptsInv, TossInv, [Next]_vars
             PROVE  AttemptsInv' /\ TossInv'
  OBVIOUS
<1>a. TypeOK /\ StageInv
  BY DEF Inv
<1>b. taken \in [Sides -> Nat] /\ nrTaken \in Nat /\ Left \in Sides /\ Right \in Sides
      /\ NrKicks \in Nat /\ MaxExtraKicks \in Nat
      /\ Opp(Left) = Right /\ Opp(Right) = Left /\ Left # Right
  BY <1>a, Constants DEF TypeOK, Sides, Opp, Left, Right
<1>1. CASE SettleKind
  <2>1. PICK goal \in BOOLEAN : Settle(goal)
    BY <1>1 DEF SettleKind
  <2>2. /\ Unsettled /\ curTaker \in Sides /\ playmode # TimeOver
        /\ ~ Settling /\ ~ timeover
    BY <1>1, <1>a, ModeFacts DEF SettleKind, Unsettled, Mode, StageInv, Settling
  <2>3. Settling' \/ playmode' = TimeOver
    BY <1>1, <2>1, <2>2, SettleStep DEF SettleKind
  <2>4. ~ Unsettled'
    BY <2>3, ModeFacts DEF Unsettled, Settling, Mode
  <2>5. ASSUME enabled = Sides
        PROVE  taken' = [taken EXCEPT ![curTaker] = @ + 1] /\ nrTaken' = nrTaken + 1
    BY <2>1, <2>2, <2>5 DEF Settle
  <2>6. AttemptsInv'
    <3> SUFFICES ASSUME enabled = Sides
                 PROVE  /\ taken'[Left] + taken'[Right] = nrTaken'
                        /\ taken'[curTaker] - taken'[Opp(curTaker)] \in {0, 1}
      BY <1>1, <2>4 DEF AttemptsInv, SettleKind
    <3>1. curTaker = Left \/ curTaker = Right
      BY <2>2 DEF Sides
    <3> QED  BY <1>b, <2>2, <2>5, <3>1 DEF AttemptsInv
  <2>7. won = {}
    BY <2>2 DEF TossInv, TossIsLastResort
  <2>8. TossInv'
    <3>1. nrTaken' = nrTaken + 1
      BY <2>1 DEF Settle
    <3>2. CASE CheckScore(nrTaken', scored', curTaker) = "exhausted"
      <4>1. timeover' /\ (won' = {} \/ \E s \in Sides : won' = {s})
        BY <2>1, <2>7, <3>2 DEF Settle
      <4>2. nrTaken' > 2 * (MaxExtraKicks + NrKicks)
        BY <3>2 DEF CheckScore
      <4> QED  BY <1>b, <3>1, <4>1, <4>2 DEF TossInv, TossIsLastResort
    <3>3. CASE CheckScore(nrTaken', scored', curTaker) # "exhausted"
      BY <2>1, <2>7, <3>3 DEF Settle, TossInv, TossIsLastResort
    <3> QED  BY <3>2, <3>3
  <2> QED  BY <2>6, <2>8
<1>2. CASE SetupKind
  <2>1. PICK t \in Sides :
          /\ curTaker' = Opp(t) /\ playmode' = PM("PenaltySetup", Opp(t))
          /\ playmode = PlayOn \/ (Settling /\ t = curTaker)
    BY <1>2 DEF SetupKind, penalty_init
  <2>2. UNCHANGED <<taken, nrTaken, enabled, won, timeover>>
    BY <1>2 DEF SetupKind, countVars
  <2>3. Unsettled' /\ curTaker' \in Sides /\ Opp(t) \in Sides /\ Opp(Opp(t)) = t
    BY <2>1, Opponents, ModeFacts DEF Unsettled, Mode
  <2>4. ~ Unsettled
    BY <2>1, ModeFacts DEF Unsettled, Settling, Mode
  <2>5. AttemptsInv'
    <3> SUFFICES ASSUME enabled = Sides
                 PROVE  /\ taken[Left] + taken[Right] = nrTaken
                        /\ taken[Opp(t)] - taken[t] \in {-1, 0}
      BY <2>1, <2>2, <2>3 DEF AttemptsInv
    <3>1. t = Left \/ t = Right
      BY DEF Sides
    <3>2. CASE playmode = PlayOn
      BY <1>a, <1>b, <3>1, <3>2 DEF AttemptsInv, StageInv
    <3>3. CASE Settling /\ t = curTaker
      BY <1>b, <2>4, <3>1, <3>3 DEF AttemptsInv
    <3> QED  BY <2>1, <3>2, <3>3
  <2>6. TossInv'
    BY <2>1, <2>2, ModeFacts DEF TossInv, TossIsLastResort, Settling, Mode
  <2> QED  BY <2>5, <2>6
<1>3. CASE TakeKind
  <2>1. curTaker \in Sides /\ playmode # TimeOver /\ Unsettled
    BY <1>3, <1>a, ModeFacts DEF TakeKind, Mode, StageInv, Unsettled
  <2>2. Unsettled'
    BY <1>3, <2>1, ModeFacts DEF TakeKind, Mode, Unsettled
  <2> QED
    BY <1>3, <2>1, <2>2
    DEF TakeKind, AttemptsInv, TossInv, TossIsLastResort, countVars
<1>4. CASE QuietKind
  <2>1. Unsettled' <=> Unsettled
    <3>1. timeover => ~ Unsettled
      BY <1>a, ModeFacts DEF StageInv, Settling, Unsettled, Mode
    <3>2. playmode' = TimeOver => ~ Unsettled'
      BY ModeFacts DEF Unsettled, Mode
    <3>3. playmode' = playmode => (Unsettled' <=> Unsettled)
      BY DEF Unsettled, Mode
    <3> QED  BY <1>4, <3>1, <3>2, <3>3 DEF QuietKind
  <2>2. playmode = TimeOver => playmode' = TimeOver
    BY <1>4, ModeFacts DEF QuietKind, Unsettled, Mode
  <2> QED
    BY <1>4, <2>1, <2>2 DEF QuietKind, AttemptsInv, TossInv, TossIsLastResort, countVars
<1> QED  BY <1>1, <1>2, <1>3, <1>4, StepKinds

\* The counts are invariant.
LEMMA CountsHold == Spec => [](Inv /\ AttemptsInv /\ TossInv)
<1>1. Init => AttemptsInv /\ TossInv
  BY ModeFacts
  DEF Init, AttemptsInv, TossInv, TossIsLastResort, Sides
<1> QED  BY <1>1, InvHolds, CountStep, PTL DEF Spec

\* The attempts of the two teams add up and never differ by more than one,
\* although the referee and the teams count separately.
THEOREM AttemptsAddUpHolds == Spec => []AttemptsAddUp
<1>1. Inv /\ AttemptsInv => AttemptsAddUp
  <2> SUFFICES ASSUME Inv, AttemptsInv, enabled = Sides
               PROVE  /\ taken[Left] + taken[Right] = nrTaken
                      /\ taken[Left] - taken[Right] \in {-1, 0, 1}
    BY DEF AttemptsAddUp
  <2>1. /\ taken[Left] \in Nat /\ taken[Right] \in Nat
        /\ Opp(Left) = Right /\ Opp(Right) = Left
    BY DEF Inv, TypeOK, Sides, Opp, Left, Right
  <2>2. CASE curTaker \in Sides
    <3>1. curTaker = Left \/ curTaker = Right
      BY <2>2 DEF Sides
    <3> QED  BY <2>1, <2>2, <3>1 DEF AttemptsInv
  <2>3. CASE curTaker \notin Sides
    BY <2>1, <2>3 DEF AttemptsInv, Inv, StageInv
  <2> QED  BY <2>2, <2>3
<1> QED  BY <1>1, CountsHold, PTL

\* The toss decides nothing but a shoot-out without a kick left.
THEOREM TossIsLastResortHolds == Spec => []TossIsLastResort
<1>1. TossInv => TossIsLastResort
  BY DEF TossInv
<1> QED  BY <1>1, CountsHold, PTL

\* The players in the set of takers are one penalty ahead of all the others.
Ahead(s, b) == \A u \in Unums : kicks[s][u] = IF u \in penTaken[s] THEN b + 1 ELSE b
TakersInv   == \A s \in Sides : \E b \in Nat : Ahead(s, b)

\* Every step keeps them there, as long as only the takers' side can take a
\* penalty.
LEMMA TakersStep ==
    ASSUME ~ GoalieNearSpot, Inv, TakersInv, [Next]_vars
    PROVE  TakersInv'
<1>1. CASE UNCHANGED <<penTaken, kicks>>
  BY <1>1 DEF TakersInv, Ahead
<1>2. CASE TakeKind
  <2>1. PICK s \in Sides, u \in Unums : KickFoul(s, u) = Neutral /\ KickBall(s, u)
    BY <1>2 DEF TakeKind
  <2>2. /\ s = curTaker
        /\ penTaken' = [penTaken EXCEPT ![s] = TakersWith(@, u)]
        /\ kicks' = [kicks EXCEPT ![s][u] = @ + 1]
    BY <1>2, <2>1 DEF TakeKind, KickBall
  <2>3. u \notin penTaken[s]
    <3>1. KickFoul(s, u) # curTaker
      BY <2>1, <2>2, ModeFacts
    <3> QED  BY <1>2, <2>2, <3>1 DEF TakeKind, KickFoul, Mode
  <2>4. penTaken \in [Sides -> SUBSET Unums] /\ kicks \in [Sides -> [Unums -> Nat]]
    BY DEF Inv, TypeOK
  <2>5. ASSUME NEW r \in Sides PROVE \E b \in Nat : Ahead(r, b)'
    <3>1. PICK b \in Nat : Ahead(r, b)
      BY DEF TakersInv
    <3>2. CASE r # s
      BY <2>2, <2>4, <3>1, <3>2 DEF Ahead
    <3>3. CASE r = s /\ penTaken[s] \cup {u} = Unums
      <4>1. penTaken'[s] = {}
        BY <2>2, <2>4, <3>3 DEF TakersWith
      <4>2. \A v \in Unums : kicks'[s][v] = b + 1
        BY <2>2, <2>3, <2>4, <3>1, <3>3 DEF Ahead
      <4>3. Ahead(r, b + 1)'
        BY <3>3, <4>1, <4>2 DEF Ahead
      <4> QED  BY <4>3
    <3>4. CASE r = s /\ penTaken[s] \cup {u} # Unums
      <4>1. penTaken'[s] = penTaken[s] \cup {u}
        BY <2>2, <2>4, <3>4 DEF TakersWith
      <4>2. \A v \in Unums :
              kicks'[s][v] = IF v = u THEN kicks[s][v] + 1 ELSE kicks[s][v]
        BY <2>2, <2>4
      <4>3. Ahead(r, b)'
        BY <2>3, <2>4, <3>1, <3>4, <4>1, <4>2 DEF Ahead
      <4> QED  BY <4>3
    <3> QED  BY <3>2, <3>3, <3>4
  <2> QED  BY <2>5 DEF TakersInv
<1> QED
  BY <1>1, <1>2, StepKinds DEF SettleKind, SetupKind, QuietKind

\* As long as the defending goalie cannot reach the ball on the spot, nobody
\* takes a second penalty before everybody has taken one.
THEOREM NoRepeatTakerHolds ==
    ASSUME ~ GoalieNearSpot
    PROVE  Spec => []NoRepeatTaker
<1>1. Init => TakersInv
  <2> SUFFICES ASSUME Init, NEW s \in Sides PROVE \E b \in Nat : Ahead(s, b)
    BY DEF TakersInv
  <2>1. Ahead(s, 0)
    BY DEF Init, Ahead
  <2> QED  BY <2>1
<1>2. Inv /\ TakersInv /\ [Next]_vars => TakersInv'
  BY TakersStep
<1>3. TakersInv => NoRepeatTaker
  <2> SUFFICES ASSUME TakersInv, NEW s \in Sides, NEW u \in Unums, NEW v \in Unums
               PROVE  kicks[s][u] <= kicks[s][v] + 1
    BY DEF NoRepeatTaker
  <2>1. PICK b \in Nat : Ahead(s, b)
    BY DEF TakersInv
  <2> QED  BY <2>1 DEF Ahead
<1> QED  BY <1>1, <1>2, <1>3, InvHolds, PTL DEF Spec
=============================================================================
