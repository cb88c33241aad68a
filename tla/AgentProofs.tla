---------------------------- MODULE AgentProofs ----------------------------
(***************************************************************************)
(* Proofs about what the server keeps for an agent: PlayerBody, for every  *)
(* length of the freezes and bans, every stamina and capacity and every    *)
(* limit on the goalie's moves; Hear, for all speakers, limits and numbers *)
(* of messages; Coach, for all team sizes, player types and quotas; Clang, *)
(* for all numbers of builder calls.                                       *)
(***************************************************************************)
EXTENDS PlayerBody, Hear, Coach, Clang, FiniteSetTheorems, WellFoundedInduction, TLAPS

------------------------------------------------------------------------------
(* The body of a player.                                                    *)

Plays == {"on", "dead", "place", "mine"}
LegCommands == [does : {"none", "dash", "turn", "tackle", "move"}, cost : 0..2]
Capacities == IF StaminaCapacity < 0 THEN {StaminaCapacity} ELSE 0 .. StaminaCapacity

\* Every counter stays in its range: stamina between nothing and stamina_max,
\* the capacity at most stamina_capacity and never below zero, recovery and
\* effort between their extremes, and the goalie's moves with a caught ball
\* within goalie_max_moves.
BodyTypeOK ==
    /\ play \in Plays /\ commandDone \in BOOLEAN /\ neckDone \in BOOLEAN
    /\ leg \in [Legs -> LegCommands]
    /\ kickCycles \in {-1, 0, 1}
    /\ idleT \in Nat /\ idleF \in Nat /\ catchBan \in Nat
    /\ moves \in Nat /\ (GoalieMoves >= 0 => moves <= GoalieMoves)
    /\ arm \in Nat
    /\ stamina \in 0 .. StaminaMax /\ capacityLeft \in Capacities
    /\ recovery \in 1 .. MaxLevel /\ effort \in 1 .. MaxLevel
    /\ idle \in BOOLEAN /\ acts \in Nat

\* Whoever is on the ground, and whoever has had his command, has the flag set.
DoneWhenDown ==
    /\ idleT > 0 \/ idleF > 0 \/ idle \/ acts > 0 => commandDone
    /\ OneCommand

\* The product of two naturals is a natural.
LEMMA ProductNat == ASSUME NEW a \in Nat, NEW b \in Nat PROVE a * b \in Nat
  OBVIOUS

\* The commands that Leg::dash, turn, move and tackle leave in a leg.
LEMMA ToldType ==
    ASSUME leg \in [Legs -> LegCommands],
           NEW what \in {"dash", "turn", "tackle", "move"}, NEW cost \in 0..2
    PROVE  [x \in Legs |-> Told(x, what, cost)] \in [Legs -> LegCommands]
  BY DEF Told, LegCommands

\* applyDashEffect takes stamina away and leaves none below zero, whatever the
\* legs cost and whatever extra stamina the player has.
LEMMA DashCosts ==
    ASSUME BodyTypeOK
    PROVE  applyDashEffect \in 0 .. stamina
<1>1. leg["l"].cost \in 0..2 /\ leg["r"].cost \in 0..2
  BY DEF BodyTypeOK, LegCommands, Legs
<1>2. stamina \in Nat /\ ExtraStamina \in Nat
  BY BodyAssumption DEF BodyTypeOK
<1> QED  BY <1>1, <1>2 DEF applyDashEffect, Least

\* updateStamina gives back no more than is missing and than the capacity
\* allows.
LEMMA IncFits ==
    ASSUME BodyTypeOK, NEW s \in 0 .. StaminaMax
    PROVE  /\ StaminaInc(s) \in 0 .. StaminaMax - s
           /\ StaminaCapacity >= 0 => StaminaInc(s) <= capacityLeft
           /\ RecoveryFor(s) \in 1 .. MaxLevel /\ EffortFor(s) \in 1 .. MaxLevel
<1> USE BodyAssumption
<1>1. RecoveryFor(s) \in 1 .. MaxLevel /\ EffortFor(s) \in 1 .. MaxLevel
  BY DEF BodyTypeOK, RecoveryFor, EffortFor
<1>2. RecoveryFor(s) \in Nat /\ IncMax \in Nat
  BY <1>1
<1>3. RecoveryFor(s) * IncMax \in Nat
  BY <1>2, ProductNat
<1>4. StaminaIncFree(s) \in 0 .. StaminaMax - s
  BY <1>3 DEF StaminaIncFree, Least
<1>5. capacityLeft \in Int /\ (StaminaCapacity >= 0 => capacityLeft \in Nat)
  BY DEF BodyTypeOK, Capacities
<1> QED  BY <1>1, <1>4, <1>5 DEF StaminaInc, Least

------------------------------------------------------------------------------
\* Every command and every step keeps the counters of a player's body in range.
THEOREM BodyTypeHolds == BodySpec => []BodyTypeOK
<1> USE BodyAssumption
<1>1. BodyInit => BodyTypeOK
  <2> SUFFICES ASSUME BodyInit PROVE BodyTypeOK
    OBVIOUS
  <2>1. leg \in [Legs -> LegCommands] /\ play \in Plays
    BY DEF BodyInit, LegCommands, Rest, Plays
  <2>2. /\ stamina \in 0 .. StaminaMax /\ capacityLeft \in Capacities
        /\ recovery \in 1 .. MaxLevel /\ effort \in 1 .. MaxLevel
        /\ arm \in Nat
    BY DEF BodyInit, Capacities
  <2> QED  BY <2>1, <2>2 DEF BodyInit, BodyTypeOK
<1>2. BodyTypeOK /\ [BodyNext]_bvars => BodyTypeOK'
  <2> SUFFICES ASSUME BodyTypeOK, [BodyNext]_bvars PROVE BodyTypeOK'
    OBVIOUS
  <2> USE DEF BodyTypeOK
  <2>1. ASSUME NEW cost \in 0..2, dash(cost) PROVE BodyTypeOK'
    BY <2>1, ToldType DEF dash, Carry, energy, Capacities
  <2>2. ASSUME NEW cost \in 0..2, NEW x \in Legs, dashLeg(x, cost) PROVE BodyTypeOK'
    BY <2>2 DEF dashLeg, energy, Capacities, LegCommands
  <2>3. CASE turn
    BY <2>3, ToldType DEF turn, Carry, energy, Capacities
  <2>4. CASE turn_neck
    BY <2>4 DEF turn_neck, energy, Capacities
  <2>5. CASE kick
    BY <2>5 DEF kick, Carry, energy, Capacities
  <2>6. CASE move
    BY <2>6, ToldType DEF move, Carry, energy, Capacities
  <2>7. ASSUME NEW foul \in BOOLEAN, NEW wins \in BOOLEAN, tackle(foul, wins)
        PROVE  BodyTypeOK'
    BY <2>7, ToldType DEF tackle, Carry, energy, Capacities
  <2>8. ASSUME NEW reach \in BOOLEAN, goalieCatch(reach) PROVE BodyTypeOK'
    BY <2>8 DEF goalieCatch, Carry, energy, Capacities, Plays
  <2>9. ASSUME NEW stop \in BOOLEAN, pointto(stop) PROVE BodyTypeOK'
    BY <2>9 DEF pointto, energy, Capacities
  <2>10. CASE setFoulCharged
    BY <2>10 DEF setFoulCharged, energy, Capacities
  <2>11. CASE recoverAll
    BY <2>11 DEF recoverAll, Capacities
  <2>12. CASE recoverStaminaCapacity
    BY <2>12 DEF recoverStaminaCapacity, Capacities
  <2>13. ASSUME NEW m \in {"on", "dead", "place"}, Whistle(m) PROVE BodyTypeOK'
    BY <2>13 DEF Whistle, energy, Capacities, Plays
  <2>14. CASE BodyStep
    <3> DEFINE s == applyDashEffect
    <3>1. s \in 0 .. StaminaMax
      BY DashCosts
    <3>2. /\ StaminaInc(s) \in 0 .. StaminaMax - s
          /\ StaminaCapacity >= 0 => StaminaInc(s) <= capacityLeft
          /\ RecoveryFor(s) \in 1 .. MaxLevel /\ EffortFor(s) \in 1 .. MaxLevel
      BY <3>1, IncFits
    <3>3. stamina' \in 0 .. StaminaMax
      BY <2>14, <3>1, <3>2 DEF BodyStep
    <3>4. capacityLeft' \in Capacities
      <4>1. CASE StaminaCapacity < 0
        BY <2>14, <4>1 DEF BodyStep, Capacities
      <4>2. CASE StaminaCapacity >= 0
        <5>1. capacityLeft \in 0 .. StaminaCapacity /\ StaminaInc(s) \in Nat
          BY <3>1, <3>2, <4>2 DEF Capacities
        <5>2. capacityLeft' = capacityLeft - StaminaInc(s)
          BY <2>14, <3>2, <4>2, <5>1 DEF BodyStep
        <5>3. StaminaInc(s) <= capacityLeft
          BY <3>2, <4>2
        <5>4. ASSUME NEW c \in 0 .. StaminaCapacity, NEW i \in Nat, i <= c
              PROVE  c - i \in 0 .. StaminaCapacity
          BY <4>2, <5>4, BodyAssumption
        <5>5. capacityLeft' \in 0 .. StaminaCapacity
          BY <5>1, <5>2, <5>3, <5>4
        <5> QED  BY <4>2, <5>5, BodyAssumption DEF Capacities
      <4> QED  BY <4>1, <4>2
    <3>5. recovery' \in 1 .. MaxLevel /\ effort' \in 1 .. MaxLevel
      BY <2>14, <3>2 DEF BodyStep
    <3>6. leg' \in [Legs -> LegCommands]
      BY <2>14 DEF BodyStep, Rest, LegCommands
    <3>7. /\ idleT' \in Nat /\ idleF' \in Nat /\ catchBan' \in Nat
          /\ kickCycles' \in {-1, 0, 1} /\ arm' \in Nat
      BY <2>14 DEF BodyStep, Decremented, Least
    <3>8. /\ commandDone' \in BOOLEAN /\ neckDone' \in BOOLEAN /\ idle' \in BOOLEAN
          /\ acts' \in Nat
      BY <2>14 DEF BodyStep, resetCommandFlags
    <3>9. UNCHANGED <<play, moves>>
      BY <2>14 DEF BodyStep
    <3> QED  BY <3>3, <3>4, <3>5, <3>6, <3>7, <3>8, <3>9 DEF Capacities
  <2>15. CASE UNCHANGED bvars
    BY <2>15 DEF bvars, Capacities
  <2> QED  BY <2>1, <2>2, <2>3, <2>4, <2>5, <2>6, <2>7, <2>8, <2>9, <2>10, <2>11,
              <2>12, <2>13, <2>14, <2>15 DEF BodyNext
<1> QED  BY <1>1, <1>2, PTL DEF BodySpec

\* The flag of the body's command is set for whoever is down or has acted.
LEMMA DoneWhenDownHolds == BodySpec => []DoneWhenDown
<1> USE BodyAssumption
<1>1. BodyInit => DoneWhenDown
  BY DEF BodyInit, DoneWhenDown, OneCommand
<1>2. BodyTypeOK /\ DoneWhenDown /\ [BodyNext]_bvars => DoneWhenDown'
  <2> SUFFICES ASSUME BodyTypeOK, DoneWhenDown, [BodyNext]_bvars PROVE DoneWhenDown'
    OBVIOUS
  <2>0. /\ acts \in Nat /\ idleT \in Nat /\ idleF \in Nat
        /\ idle \in BOOLEAN /\ commandDone \in BOOLEAN
    BY DEF BodyTypeOK
  <2>1. ASSUME Carry, UNCHANGED idle PROVE DoneWhenDown'
    BY <2>0, <2>1 DEF Carry, DoneWhenDown, OneCommand
  <2>2. ASSUME commandDone', UNCHANGED <<acts, idle>> PROVE DoneWhenDown'
    BY <2>2 DEF DoneWhenDown, OneCommand
  <2>3. ASSUME UNCHANGED <<commandDone, idleT, idleF, idle, acts>> PROVE DoneWhenDown'
    BY <2>3 DEF DoneWhenDown, OneCommand
  <2>4. CASE BodyStep
    <3>1. idle' => commandDone'
      BY <2>0, <2>4 DEF BodyStep, resetCommandFlags, Decremented, DoneWhenDown
    <3>2. acts' = 0 /\ (idleT' > 0 \/ idleF' > 0 => idle')
      BY <2>4 DEF BodyStep
    <3> QED  BY <3>1, <3>2 DEF DoneWhenDown, OneCommand
  <2>5. CASE \/ \E cost \in 0..2 : dash(cost)
             \/ turn \/ kick \/ move
             \/ \E foul, wins \in BOOLEAN : tackle(foul, wins)
             \/ \E reach \in BOOLEAN : goalieCatch(reach)
    BY <2>1, <2>5 DEF dash, turn, kick, move, tackle, goalieCatch
  <2>6. CASE setFoulCharged \/ \E cost \in 0..2, x \in Legs : dashLeg(x, cost)
    BY <2>2, <2>6 DEF setFoulCharged, dashLeg
  <2>7. CASE \/ turn_neck \/ recoverAll \/ recoverStaminaCapacity
             \/ \E stop \in BOOLEAN : pointto(stop)
             \/ \E m \in {"on", "dead", "place"} : Whistle(m)
    BY <2>3, <2>7 DEF turn_neck, recoverAll, recoverStaminaCapacity, pointto, Whistle
  <2>8. CASE UNCHANGED bvars
    BY <2>3, <2>8 DEF bvars
  <2> QED  BY <2>4, <2>5, <2>6, <2>7, <2>8 DEF BodyNext
<1> QED  BY <1>1, <1>2, BodyTypeHolds, PTL DEF BodySpec

\* One command of the body is carried out in a cycle, and none while the player
\* is down after a tackle or a foul, however long each of them lasts.
THEOREM OneCommandHolds == BodySpec => []OneCommand
<1>1. DoneWhenDown => OneCommand
  BY DEF DoneWhenDown
<1> QED  BY <1>1, DoneWhenDownHolds, PTL

\* What a player recovers comes out of his capacity, whatever the parameters of
\* his type are.
THEOREM StaminaBudgetHolds == BodySpec => StaminaBudget
<1> DEFINE Budget == StaminaCapacity >= 0 /\ ~ (recoverAll \/ recoverStaminaCapacity)
                        => stamina' + capacityLeft' <= stamina + capacityLeft
<1>1. ASSUME BodyTypeOK, BodyNext PROVE Budget
  <2> SUFFICES ASSUME StaminaCapacity >= 0, ~ recoverAll, ~ recoverStaminaCapacity
               PROVE  stamina' + capacityLeft' <= stamina + capacityLeft
    OBVIOUS
  <2>0. stamina \in 0 .. StaminaMax /\ capacityLeft \in Nat
    BY <1>1, BodyAssumption DEF BodyTypeOK, Capacities
  <2>1. CASE UNCHANGED <<stamina, capacityLeft>>
    BY <2>0, <2>1, BodyAssumption
  <2>2. CASE BodyStep
    <3> DEFINE s == applyDashEffect
    <3>1. s \in 0 .. stamina /\ s \in 0 .. StaminaMax
      BY <1>1, <2>0, DashCosts, BodyAssumption
    <3>2. StaminaInc(s) \in 0 .. StaminaMax - s /\ StaminaInc(s) <= capacityLeft
      BY <1>1, <3>1, IncFits
    <3>3. stamina' = s + StaminaInc(s) /\ capacityLeft' = capacityLeft - StaminaInc(s)
      BY <2>0, <2>2, <3>1, <3>2, BodyAssumption DEF BodyStep
    <3> QED  BY <2>0, <3>1, <3>2, <3>3, BodyAssumption
  <2> QED  BY <1>1, <2>1, <2>2
           DEF BodyNext, dash, dashLeg, turn, turn_neck, kick, move, tackle, goalieCatch,
               pointto, setFoulCharged, Whistle, energy
<1>2. BodyTypeOK /\ [BodyNext]_bvars => [Budget]_bvars
  BY <1>1
<1> QED  BY <1>2, BodyTypeHolds, PTL DEF BodySpec, StaminaBudget

------------------------------------------------------------------------------
(* Induction over the numbers up to a bound, for a set that is given, and   *)
(* functions that are defined by recursion over them.                       *)

\* A set of numbers that is not empty has a least element.
LEMMA LeastNumber ==
    ASSUME NEW S \in SUBSET Nat, S # {}
    PROVE  \E x \in S : \A y \in S : x <= y
<1>1. PICK x \in S : \A y \in S : ~ (<<y, x>> \in OpToRel(<, Nat))
  BY WFMin, NatLessThanWellFounded, Zenon
<1>2. ASSUME NEW a \in Nat, NEW b \in Nat, a < b
      PROVE  <<a, b>> \in OpToRel(<, Nat)
  BY <1>2, Zenon DEF OpToRel
<1>3. \A y \in S : y \in Nat /\ x \in Nat /\ ~ (y < x)
  BY <1>1, <1>2, Zenon
<1>4. \A y \in S : x <= y
  BY <1>3
<1> QED  BY <1>4

\* What holds of 0 and passes from each number to the next holds up to n.
LEMMA CountedUp ==
    ASSUME NEW n \in Nat, NEW T, 0 \in T,
           \A i \in 1 .. n : i - 1 \in T => i \in T
    PROVE  \A i \in 0 .. n : i \in T
<1> DEFINE S == {i \in 0 .. n : i \notin T}
<1>1. SUFFICES ASSUME S # {} PROVE FALSE
  OBVIOUS
<1>2. S \in SUBSET Nat
  OBVIOUS
<1>3. PICK x \in S : \A y \in S : x <= y
  <2> HIDE DEF S
  <2> QED  BY <1>1, <1>2, LeastNumber
<1>4. x \in 1 .. n /\ x \notin T /\ x - 1 \in 0 .. n
  BY <1>3
<1>5. x - 1 \notin S
  BY <1>3, <1>4
<1>6. x - 1 \in T
  BY <1>4, <1>5
<1> QED  BY <1>4, <1>6

\* A function that starts with s and takes each value from the one before.
Recursion(n, S, s, F, f) ==
    /\ f \in [0 .. n -> S]
    /\ f[0] = s
    /\ \A i \in 1 .. n : f[i] = F[<<i, f[i - 1]>>]

NextOnes(n, S) == [(1 .. n) \X S -> S]

\* There is such a function.
LEMMA RecursionMeets ==
    ASSUME NEW n \in Nat, NEW S, NEW s \in S, NEW F \in NextOnes(n, S)
    PROVE  \E f : Recursion(n, S, s, F, f)
<1> DEFINE Good(k, f) == f[0] = s /\ \A i \in 1 .. k : f[i] = F[<<i, f[i - 1]>>]
           T == {k \in 0 .. n : \E f \in [0 .. k -> S] : Good(k, f)}
<1>1. 0 \in T
  <2> DEFINE f == [i \in 0 .. 0 |-> s]
  <2>1. f \in [0 .. 0 -> S] /\ f[0] = s
    OBVIOUS
  <2>2. \A i \in 1 .. 0 : FALSE
    OBVIOUS
  <2>3. Good(0, f)
    BY <2>1, <2>2
  <2>4. 0 \in 0 .. n
    OBVIOUS
  <2> HIDE DEF f, Good
  <2> QED  BY <2>1, <2>3, <2>4
<1>2. ASSUME NEW k \in 1 .. n, k - 1 \in T PROVE k \in T
  <2>1. PICK f \in [0 .. k - 1 -> S] : Good(k - 1, f)
    BY <1>2
  <2> DEFINE v == F[<<k, f[k - 1]>>]
             g == [i \in 0 .. k |-> IF i = k THEN v ELSE f[i]]
  <2>2. f[k - 1] \in S
    OBVIOUS
  <2>3. v \in S
    BY <2>2 DEF NextOnes
  <2>4. g \in [0 .. k -> S]
    BY <2>3
  <2>5. g[0] = s
    BY <2>1
  <2>6. ASSUME NEW i \in 1 .. k PROVE g[i] = F[<<i, g[i - 1]>>]
    <3>1. CASE i = k
      <4>1. g[i] = v /\ g[i - 1] = f[k - 1]
        BY <3>1
      <4> QED  BY <3>1, <4>1
    <3>2. CASE i # k
      <4>1. i \in 1 .. k - 1 /\ g[i] = f[i] /\ g[i - 1] = f[i - 1]
        BY <3>2
      <4> QED  BY <2>1, <4>1
    <3> QED  BY <3>1, <3>2
  <2>7. Good(k, g)
    BY <2>5, <2>6
  <2>8. k \in 0 .. n
    OBVIOUS
  <2> HIDE DEF Good, g
  <2> QED  BY <2>4, <2>7, <2>8
<1>3. n \in T
  <2> HIDE DEF T
  <2> QED  BY <1>1, <1>2, CountedUp
<1>4. PICK f \in [0 .. n -> S] : Good(n, f)
  BY <1>3
<1>5. Recursion(n, S, s, F, f)
  BY <1>4 DEF Recursion
<1> QED  BY <1>5, Zenon

------------------------------------------------------------------------------
(* Hearing.                                                                 *)

HearStates == [cap : [Sides -> Nat], out : Seq(Speakers)]
Modes == {"complete", "partial"}

\* The entries of a sequence of speakers that are of a side.
OfSide(h, s) == {i \in DOMAIN h : SideOf(h[i]) = s}

\* One message more of a side, or none.
LEMMA OfSideFinite ==
    ASSUME NEW h \in Seq(Speakers), NEW s
    PROVE  IsFiniteSet(OfSide(h, s)) /\ Cardinality(OfSide(h, s)) \in Nat
<1>1. OfSide(h, s) \subseteq 1 .. Len(h) /\ Len(h) \in Nat
  BY DEF OfSide
<1>2. IsFiniteSet(1 .. Len(h))
  BY <1>1, FS_Interval
<1>3. IsFiniteSet(OfSide(h, s))
  BY <1>1, <1>2, FS_Subset
<1> QED  BY <1>3, FS_CardinalityType

LEMMA OfSideAppended ==
    ASSUME NEW h \in Seq(Speakers), NEW p \in Speakers, NEW s
    PROVE  Cardinality(OfSide(Append(h, p), s))
             = Cardinality(OfSide(h, s)) + (IF SideOf(p) = s THEN 1 ELSE 0)
<1> DEFINE q == Append(h, p)
<1>1. Len(h) \in Nat /\ Len(q) = Len(h) + 1 /\ q[Len(h) + 1] = p
      /\ DOMAIN q = 1 .. Len(h) + 1 /\ DOMAIN h = 1 .. Len(h)
      /\ \A i \in DOMAIN h : q[i] = h[i]
  OBVIOUS
<1>2. Len(h) + 1 \notin OfSide(h, s)
  BY <1>1 DEF OfSide
<1>3. IsFiniteSet(OfSide(h, s)) /\ Cardinality(OfSide(h, s)) \in Nat
  BY OfSideFinite
<1> HIDE DEF q
<1>4. CASE SideOf(p) = s
  <2>1. OfSide(q, s) = OfSide(h, s) \cup {Len(h) + 1}
    BY <1>1, <1>4 DEF OfSide
  <2> QED  BY <1>2, <1>3, <1>4, <2>1, FS_AddElement DEF q
<1>5. CASE SideOf(p) # s
  <2>1. OfSide(q, s) = OfSide(h, s)
    BY <1>1, <1>5 DEF OfSide
  <2> QED  BY <1>3, <1>5, <2>1 DEF q
<1> QED  BY <1>4, <1>5

LEMMA OfSideJoined ==
    ASSUME NEW h \in Seq(Speakers), NEW p \in Speakers, NEW s, NEW k \in Nat
    PROVE  /\ h \o [i \in 1 .. k |-> p] \in Seq(Speakers)
           /\ Cardinality(OfSide(h \o [i \in 1 .. k |-> p], s))
                = Cardinality(OfSide(h, s)) + (IF SideOf(p) = s THEN k ELSE 0)
<1> DEFINE e == [i \in 1 .. k |-> p]
           q == h \o e
           n == Len(h)
           more == n + 1 .. n + k
<1>1. e \in Seq(Speakers) /\ Len(e) = k
  OBVIOUS
<1>2. q \in Seq(Speakers) /\ Len(q) = n + k /\ n \in Nat
      /\ DOMAIN q = 1 .. n + k /\ DOMAIN h = 1 .. n
  BY <1>1
<1>3. \A i \in 1 .. n : q[i] = h[i]
  BY <1>1
<1>4. \A i \in more : q[i] = p
  BY <1>1
<1>5. IsFiniteSet(OfSide(h, s)) /\ Cardinality(OfSide(h, s)) \in Nat
  BY OfSideFinite
<1> HIDE DEF q
<1>6. CASE SideOf(p) = s
  <2>1. OfSide(q, s) = OfSide(h, s) \cup more
    BY <1>2, <1>3, <1>4, <1>6 DEF OfSide
  <2>2. OfSide(h, s) \cap more = {}
    BY <1>2 DEF OfSide
  <2>3. IsFiniteSet(more) /\ Cardinality(more) = k
    <3>1. n + 1 \in Int /\ n + k \in Int
      BY <1>2
    <3>2. Cardinality(more) = IF n + 1 > n + k THEN 0 ELSE (n + k) - (n + 1) + 1
      BY <3>1, FS_Interval
    <3> QED  BY <1>2, <3>1, <3>2, FS_Interval
  <2> HIDE DEF more
  <2>4. Cardinality(OfSide(q, s)) = Cardinality(OfSide(h, s)) + k - Cardinality({})
    BY <1>5, <2>1, <2>2, <2>3, FS_Union
  <2> QED  BY <1>2, <1>5, <1>6, <2>4, FS_EmptySet DEF q
<1>7. CASE SideOf(p) # s
  <2>1. OfSide(q, s) = OfSide(h, s)
    BY <1>2, <1>3, <1>4, <1>7 DEF OfSide
  <2> QED  BY <1>2, <1>5, <1>7, <2>1 DEF q
<1> QED  BY <1>6, <1>7

\* A message leaves the sender with what was heard in full and what is left
\* of the capacity in balance.
LEMMA MessageCosts ==
    ASSUME NEW r \in HearStates, NEW p \in Speakers
    PROVE  LET w == sendCachedNonSelfPlayerAudio(r, p)
           IN  /\ w \in HearStates
               /\ \A s \in Sides :
                    /\ Cardinality(OfSide(w.out, s)) * HearDecay + w.cap[s]
                         = Cardinality(OfSide(r.out, s)) * HearDecay + r.cap[s]
                    /\ w.cap[s] <= r.cap[s]
<1> DEFINE w == sendCachedNonSelfPlayerAudio(r, p)
           d == SideOf(p)
<1>1. CASE canHearFullFrom(r.cap, p) /\ "complete" \in ear[SideOf(p)]
  <2>1. w = [cap |-> [r.cap EXCEPT ![d] = @ - HearDecay], out |-> Append(r.out, p)]
    BY <1>1 DEF sendCachedNonSelfPlayerAudio
  <2>2. r.cap \in [Sides -> Nat] /\ r.out \in Seq(Speakers) /\ d \in Sides
    BY DEF HearStates, Sides, SideOf
  <2>3. r.cap[d] >= HearDecay
    BY <1>1 DEF canHearFullFrom
  <2>4. w.out = Append(r.out, p) /\ w.cap = [r.cap EXCEPT ![d] = @ - HearDecay]
    BY <2>1
  <2> HIDE DEF w, d
  <2>5. w.cap \in [Sides -> Nat]
    BY <2>2, <2>3, <2>4, HearAssumption
  <2>6. w.out \in Seq(Speakers)
    BY <2>2, <2>4
  <2>7. w \in HearStates
    BY <2>1, <2>4, <2>5, <2>6 DEF HearStates
  <2>8. ASSUME NEW s \in Sides
        PROVE  /\ Cardinality(OfSide(w.out, s)) * HearDecay + w.cap[s]
                    = Cardinality(OfSide(r.out, s)) * HearDecay + r.cap[s]
               /\ w.cap[s] <= r.cap[s]
    <3>1. Cardinality(OfSide(w.out, s))
            = Cardinality(OfSide(r.out, s)) + (IF d = s THEN 1 ELSE 0)
      BY <2>2, <2>4, OfSideAppended DEF d
    <3>2. Cardinality(OfSide(r.out, s)) \in Nat
      BY <2>2, OfSideFinite
    <3>3. w.cap[s] = r.cap[s] - (IF d = s THEN HearDecay ELSE 0)
      BY <2>2, <2>4, HearAssumption
    <3>4. w.cap[s] <= r.cap[s]
      BY <2>2, <3>3, HearAssumption
    <3>5. Cardinality(OfSide(w.out, s)) * HearDecay + w.cap[s]
            = Cardinality(OfSide(r.out, s)) * HearDecay + r.cap[s]
      BY <2>2, <3>1, <3>2, <3>3, HearAssumption
    <3> QED  BY <3>4, <3>5
  <2> QED  BY <2>7, <2>8 DEF w
<1>2. CASE ~ (canHearFullFrom(r.cap, p) /\ "complete" \in ear[SideOf(p)])
  <2>1. w = r
    BY <1>2 DEF sendCachedNonSelfPlayerAudio
  <2>2. \A s \in Sides : r.cap[s] <= r.cap[s]
    BY DEF HearStates
  <2> QED  BY <2>1, <2>2
<1> QED  BY <1>1, <1>2

\* The recursion over the messages of an order is well defined.
LEMMA SendCachedMeets ==
    ASSUME capacity \in [Sides -> Nat], heard \in Seq(Speakers), NEW order \in Seq(Speakers)
    PROVE  /\ sendCached(order)[0] = [cap |-> capacity, out |-> heard]
           /\ \A i \in 1 .. Len(order) :
                sendCached(order)[i]
                  = sendCachedNonSelfPlayerAudio(sendCached(order)[i - 1], order[i])
<1> DEFINE n == Len(order)
           s0 == [cap |-> capacity, out |-> heard]
           F == [q \in (1 .. n) \X HearStates |->
                   sendCachedNonSelfPlayerAudio(q[2], order[q[1]])]
           Step(g) == [i \in 0 .. n |->
                         IF i = 0 THEN s0
                         ELSE sendCachedNonSelfPlayerAudio(g[i - 1], order[i])]
<1>1. n \in Nat /\ s0 \in HearStates
  BY DEF HearStates
<1>2. \A i \in 1 .. n : order[i] \in Speakers
  OBVIOUS
<1>3. ASSUME NEW q \in (1 .. n) \X HearStates
      PROVE  sendCachedNonSelfPlayerAudio(q[2], order[q[1]]) \in HearStates
  <2>1. q[1] \in 1 .. n /\ q[2] \in HearStates
    OBVIOUS
  <2> QED  BY <1>2, <2>1, MessageCosts
<1>4. F \in NextOnes(n, HearStates)
  BY <1>3 DEF NextOnes
<1>5. \A i \in 1 .. n, x \in HearStates :
        F[<<i, x>>] = sendCachedNonSelfPlayerAudio(x, order[i])
  OBVIOUS
<1> HIDE DEF F, s0, n
<1>11. PICK f : Recursion(n, HearStates, s0, F, f)
  BY <1>1, <1>4, RecursionMeets
<1>6. f \in [0 .. n -> HearStates] /\ f[0] = s0
      /\ \A i \in 1 .. n : f[i] = F[<<i, f[i - 1]>>]
  BY <1>11 DEF Recursion
<1>7. f = Step(f)
  <2>1. ASSUME NEW i \in 0 .. n PROVE f[i] = Step(f)[i]
    <3>1. CASE i = 0
      BY <1>6, <3>1
    <3>2. CASE i # 0
      <4>1. i \in 1 .. n /\ i - 1 \in 0 .. n
        BY <1>1, <3>2
      <4> QED  BY <1>5, <1>6, <3>2, <4>1
    <3> QED  BY <3>1, <3>2
  <2> QED  BY <1>6, <2>1
<1> DEFINE r == CHOOSE g : g = Step(g)
<1>8. r = Step(r)
  <2> HIDE DEF Step
  <2> QED  BY <1>7, Zenon
<1>9. sendCached(order) = r
  BY Zenon DEF sendCached, s0, n
<1> HIDE DEF r
<1>10. r[0] = s0 /\ \A i \in 1 .. n : r[i] = sendCachedNonSelfPlayerAudio(r[i - 1], order[i])
  <2>1. 0 \in 0 .. n /\ \A i \in 1 .. n : i \in 0 .. n /\ i # 0
    BY <1>1
  <2> QED  BY <1>8, <2>1
<1> QED  BY <1>9, <1>10 DEF s0, n

\* Every message of an order, and every state on the way, is of its type.
LEMMA OrderType ==
    ASSUME NEW order \in Orders
    PROVE  order \in Seq(Speakers)
<1>1. order \in BoundedSeq(Speakers, MaxSaid)
  BY DEF Orders, RandomOrders
<1>2. PICK m \in 0 .. MaxSaid : order \in [1 .. m -> Speakers]
  BY <1>1, Zenon DEF BoundedSeq, SeqOf
<1> QED  BY <1>2, HearAssumption

\* What passing on an order leaves and what it spends are in balance.
LEMMA OrderCosts ==
    ASSUME capacity \in [Sides -> Nat], heard \in Seq(Speakers), NEW order \in Seq(Speakers)
    PROVE  \A i \in 0 .. Len(order) :
             /\ sendCached(order)[i] \in HearStates
             /\ \A s \in Sides :
                  /\ Cardinality(OfSide(sendCached(order)[i].out, s)) * HearDecay
                         + sendCached(order)[i].cap[s]
                       = Cardinality(HeardOf(s)) * HearDecay + capacity[s]
                  /\ sendCached(order)[i].cap[s] <= capacity[s]
<1> DEFINE n == Len(order)
           f == sendCached(order)
           Fair(r) == /\ r \in HearStates
                      /\ \A s \in Sides :
                           /\ Cardinality(OfSide(r.out, s)) * HearDecay + r.cap[s]
                                = Cardinality(HeardOf(s)) * HearDecay + capacity[s]
                           /\ r.cap[s] <= capacity[s]
           T == {i \in 0 .. n : Fair(f[i])}
<1>1. n \in Nat /\ \A i \in 1 .. n : order[i] \in Speakers
  OBVIOUS
<1>2. f[0] = [cap |-> capacity, out |-> heard]
      /\ \A i \in 1 .. n : f[i] = sendCachedNonSelfPlayerAudio(f[i - 1], order[i])
  <2> HIDE DEF f, n
  <2> QED  BY SendCachedMeets DEF f, n
<1> HIDE DEF f, n
<1>3. Fair(f[0])
  <2>1. f[0].cap = capacity /\ f[0].out = heard /\ f[0] \in HearStates
    BY <1>2 DEF HearStates
  <2>2. \A s \in Sides : capacity[s] <= capacity[s]
    OBVIOUS
  <2>3. \A s \in Sides : OfSide(heard, s) = HeardOf(s)
    BY DEF OfSide, HeardOf
  <2> QED  BY <2>1, <2>2, <2>3
<1>4. ASSUME NEW r, Fair(r), NEW p \in Speakers
      PROVE  Fair(sendCachedNonSelfPlayerAudio(r, p))
  <2> DEFINE w == sendCachedNonSelfPlayerAudio(r, p)
  <2>1. /\ w \in HearStates
        /\ \A s \in Sides :
             /\ Cardinality(OfSide(w.out, s)) * HearDecay + w.cap[s]
                  = Cardinality(OfSide(r.out, s)) * HearDecay + r.cap[s]
             /\ w.cap[s] <= r.cap[s]
    BY <1>4, MessageCosts
  <2> HIDE DEF w
  <2>2. \A s \in Sides : w.cap[s] \in Nat /\ r.cap[s] \in Nat /\ capacity[s] \in Nat
    BY <1>4, <2>1 DEF HearStates
  <2>3. \A s \in Sides : w.cap[s] <= capacity[s]
    BY <1>4, <2>1, <2>2
  <2>4. Fair(w)
    BY <1>4, <2>1, <2>3
  <2> QED  BY <2>4 DEF w
<1> HIDE DEF Fair
<1>5. 0 \in T
  BY <1>1, <1>3
<1>6. ASSUME NEW i \in 1 .. n, i - 1 \in T PROVE i \in T
  <2>1. Fair(f[i - 1]) /\ order[i] \in Speakers /\ i \in 0 .. n
    BY <1>1, <1>6
  <2>2. Fair(f[i])
    BY <1>2, <1>4, <2>1
  <2> QED  BY <2>1, <2>2
<1>7. \A i \in 0 .. n : i \in T
  <2> HIDE DEF T
  <2> QED  BY <1>1, <1>5, <1>6, CountedUp
<1>8. \A i \in 0 .. n : Fair(f[i])
  BY <1>7
<1> QED  BY <1>8 DEF Fair, f, n

\* The player's ears, his focus and his capacity are of their types.
HearTypeOK ==
    /\ keeps \in BOOLEAN /\ awake \in BOOLEAN /\ entries \in 0 .. 2
    /\ capacity \in [Sides -> 0 .. HearMax]
    /\ ear \in [Sides -> SUBSET Modes]
    /\ focus \in SUBSET Speakers /\ (\A p, q \in focus : p = q)
    /\ cache \in [Speakers -> Nat]
    /\ heard \in Seq(Speakers) /\ renewed \in BOOLEAN

\* What was heard in full since the last update was paid for.
HeardWasPaid ==
    ~ renewed => \A s \in Sides :
                   Cardinality(HeardOf(s)) * HearDecay + capacity[s] <= HearMax

HearInv == HearTypeOK /\ HeardWasPaid

LEMMA HearInitInv == HearInit => HearInv
<1> SUFFICES ASSUME HearInit PROVE HearInv
  OBVIOUS
<1>1. HearTypeOK
  <2>1. keeps \in BOOLEAN /\ awake \in BOOLEAN /\ renewed \in BOOLEAN
    BY Zenon DEF HearInit
  <2>2. entries \in 0 .. 2 /\ capacity \in [Sides -> 0 .. HearMax]
    BY HearAssumption DEF HearInit
  <2>3. ear \in [Sides -> SUBSET Modes]
    BY DEF HearInit, Modes
  <2>4. focus \in SUBSET Speakers /\ (\A p, q \in focus : p = q)
    BY DEF HearInit
  <2>5. cache \in [Speakers -> Nat] /\ heard \in Seq(Speakers)
    BY DEF HearInit, NoMessages
  <2> QED  BY <2>1, <2>2, <2>3, <2>4, <2>5, Zenon DEF HearTypeOK
<1>2. ASSUME NEW s \in Sides
      PROVE Cardinality(HeardOf(s)) = 0 /\ capacity[s] = HearMax
  <2>1. HeardOf(s) = {}
    BY DEF HearInit, HeardOf
  <2> QED  BY <2>1, FS_EmptySet DEF HearInit
<1> QED  BY <1>1, <1>2, HearAssumption DEF HearInv, HeardWasPaid

\* Nothing is bought that the capacity does not pay for.
LEMMA RoomIsPaid ==
    ASSUME NEW c \in Nat, NEW d \in Nat \ {0}, NEW n \in Nat, NEW full,
           full = IF c \div d < n THEN c \div d ELSE n
    PROVE  full \in Nat /\ full * d <= c /\ c - full * d \in 0 .. c
<1>1. c \div d \in Nat /\ (c \div d) * d <= c
  <2>1. c = d * (c \div d) + (c % d) /\ c % d \in 0 .. d - 1 /\ c \div d \in Int
    OBVIOUS
  <2>2. (c \div d) * d = d * (c \div d)
    BY <2>1
  <2>3. c \div d >= 0
    OBVIOUS
  <2> QED  BY <2>1, <2>2, <2>3
<1>2. full \in Nat /\ full <= c \div d
  BY <1>1
<1>3. full * d <= (c \div d) * d
  <2> DEFINE k == c \div d
  <2>1. k \in Nat
    BY <1>1
  <2>2. full <= k
    BY <1>2
  <2> HIDE DEF k
  <2>3. full * d <= k * d
    BY <1>2, <2>1, <2>2
  <2> QED  BY <2>3 DEF k
<1>4. full * d \in Nat
  BY <1>2
<1>5. full * d <= c
  <2> DEFINE a == full * d  b == (c \div d) * d
  <2>1. a <= b /\ b <= c /\ a \in Nat /\ b \in Int
    BY <1>1, <1>3, <1>4
  <2> HIDE DEF a, b
  <2>2. a <= c
    BY <2>1
  <2> QED  BY <2>2 DEF a
<1> QED
  <2> DEFINE a == full * d
  <2>1. a \in Nat /\ a <= c
    BY <1>4, <1>5
  <2> HIDE DEF a
  <2>2. c - a \in 0 .. c
    BY <2>1
  <2> QED  BY <1>2, <2>1, <2>2 DEF a

\* The budget of a state that was reached within it.
LEMMA StillPaid ==
    ASSUME renewed' => renewed, renewed => renewed', HeardWasPaid,
           \A s \in Sides : Cardinality(HeardOf(s)') * HearDecay + capacity'[s]
                              = Cardinality(HeardOf(s)) * HearDecay + capacity[s]
    PROVE  HeardWasPaid'
  BY Zenon DEF HeardWasPaid

LEMMA HeardUnchanged ==
    ASSUME UNCHANGED <<capacity, heard, renewed>>, HeardWasPaid
    PROVE  HeardWasPaid'
<1>1. \A s \in Sides : HeardOf(s)' = HeardOf(s)
  BY DEF HeardOf
<1> QED  BY <1>1, Zenon DEF HeardWasPaid

LEMMA PassOnInv ==
    ASSUME HearTypeOK, HeardWasPaid, NEW p \in Speakers, NEW n \in Nat, passOn(p, n),
           UNCHANGED <<keeps, awake, entries, ear, focus, renewed>>
    PROVE  HearTypeOK' /\ HeardWasPaid'
<1> DEFINE d == SideOf(p)
           c == capacity[d]
           full == IF c \div HearDecay < n THEN c \div HearDecay ELSE n
<1>1. d \in Sides /\ capacity \in [Sides -> 0 .. HearMax] /\ heard \in Seq(Speakers)
  BY DEF HearTypeOK, SideOf, Sides
<1>2. c \in Nat /\ c <= HearMax /\ HearMax \in Nat /\ HearDecay \in Nat \ {0}
  BY <1>1, HearAssumption
<1>3. capacity' = [capacity EXCEPT ![d] = c - full * HearDecay]
      /\ heard' = heard \o [i \in 1 .. full |-> p] /\ cache' = cache
  BY <1>1 DEF passOn
<1>4. full \in Nat /\ full * HearDecay <= c /\ c - full * HearDecay \in 0 .. c
  <2> HIDE DEF c
  <2>1. full = IF c \div HearDecay < n THEN c \div HearDecay ELSE n
    OBVIOUS
  <2> HIDE DEF full
  <2> QED  BY <1>2, <2>1, RoomIsPaid
<1> HIDE DEF full, c, d
<1>5. heard' \in Seq(Speakers)
      /\ \A s \in Sides : Cardinality(OfSide(heard', s))
             = Cardinality(OfSide(heard, s)) + (IF d = s THEN full ELSE 0)
  BY <1>1, <1>3, <1>4, OfSideJoined, ZenonT(60) DEF d
<1>6. capacity' \in [Sides -> 0 .. HearMax]
  <2>1. c - full * HearDecay \in 0 .. HearMax
    <3> DEFINE k == c - full * HearDecay
    <3>1. k \in 0 .. c
      BY <1>4
    <3> HIDE DEF k
    <3>2. k \in 0 .. HearMax
      BY <1>2, <3>1
    <3> QED  BY <3>2 DEF k
  <2> QED  BY <1>1, <1>3, <2>1
<1>7. HearTypeOK'
  <2>1. keeps' \in BOOLEAN /\ awake' \in BOOLEAN /\ renewed' \in BOOLEAN
        /\ entries' \in 0 .. 2 /\ ear' \in [Sides -> SUBSET Modes]
        /\ focus' \in SUBSET Speakers /\ (\A x, y \in focus' : x = y)
        /\ cache' \in [Speakers -> Nat]
    BY <1>3, Zenon DEF HearTypeOK
  <2> QED  BY <1>5, <1>6, <2>1, Zenon DEF HearTypeOK
<1>8. ASSUME NEW s \in Sides
      PROVE  Cardinality(HeardOf(s)') * HearDecay + capacity'[s]
               = Cardinality(HeardOf(s)) * HearDecay + capacity[s]
  <2>1. HeardOf(s)' = OfSide(heard', s) /\ HeardOf(s) = OfSide(heard, s)
    BY DEF HeardOf, OfSide
  <2>2. Cardinality(OfSide(heard, s)) \in Nat
    BY <1>1, OfSideFinite
  <2>3. Cardinality(OfSide(heard', s))
          = Cardinality(OfSide(heard, s)) + (IF d = s THEN full ELSE 0)
    BY <1>5
  <2>4. CASE d = s
    <3>1. capacity'[s] = capacity[s] - full * HearDecay /\ capacity[s] \in Nat
      BY <1>1, <1>2, <1>3, <2>4 DEF c
    <3>2. ASSUME NEW a \in Nat, NEW b \in Nat, NEW e \in Nat, NEW g \in Nat
          PROVE  (a + b) * e + (g - b * e) = a * e + g
      OBVIOUS
    <3> QED  BY <1>2, <1>4, <2>1, <2>2, <2>3, <2>4, <3>1, <3>2
  <2>5. CASE d # s
    <3>1. capacity'[s] = capacity[s]
      BY <1>1, <1>3, <2>5
    <3> QED  BY <2>1, <2>2, <2>3, <2>5, <3>1
  <2> QED  BY <2>4, <2>5
<1> QED  BY <1>7, <1>8, StillPaid

LEMMA KeepInv ==
    ASSUME HearTypeOK, HeardWasPaid, NEW p \in Speakers, NEW n \in Nat, keep(p, n),
           UNCHANGED <<keeps, awake, entries, ear, focus, renewed>>
    PROVE  HearTypeOK' /\ HeardWasPaid'
<1> DEFINE kept == IF ear[SideOf(p)] = {} THEN 0 ELSE n
<1>1. cache' = [cache EXCEPT ![p] = @ + kept] /\ UNCHANGED <<capacity, heard>>
  BY DEF keep
<1>2. kept \in Nat
  OBVIOUS
<1> HIDE DEF kept
<1>3. cache' \in [Speakers -> Nat]
  BY <1>1, <1>2 DEF HearTypeOK
<1>4. HearTypeOK'
  BY <1>1, <1>3, Zenon DEF HearTypeOK
<1> QED  BY <1>1, <1>4, HeardUnchanged

LEMMA NewCycleInv ==
    ASSUME HearTypeOK, HeardWasPaid, NEW order \in Orders, newCycle(order)
    PROVE  HearTypeOK' /\ HeardWasPaid'
<1> DEFINE n == Len(order)
           r == sendCached(order)[n]
<1>1. order \in Seq(Speakers) /\ n \in 0 .. n
  BY OrderType
<1>2. capacity' = r.cap /\ heard' = r.out /\ cache' = NoMessages
      /\ UNCHANGED <<keeps, awake, entries, ear, focus, renewed>>
  BY DEF newCycle
<1>3. capacity \in [Sides -> Nat] /\ heard \in Seq(Speakers)
      /\ \A s \in Sides : capacity[s] \in 0 .. HearMax
  BY HearAssumption DEF HearTypeOK
<1>4. /\ r \in HearStates
      /\ \A s \in Sides :
           /\ Cardinality(OfSide(r.out, s)) * HearDecay + r.cap[s]
                = Cardinality(HeardOf(s)) * HearDecay + capacity[s]
           /\ r.cap[s] <= capacity[s]
  <2> HIDE DEF n
  <2> QED  BY <1>1, <1>3, OrderCosts DEF n
<1> HIDE DEF r
<1>5. heard' \in Seq(Speakers) /\ capacity' \in [Sides -> Nat]
  BY <1>2, <1>4 DEF HearStates
<1>6. \A s \in Sides : Cardinality(HeardOf(s)') * HearDecay + capacity'[s]
                         = Cardinality(HeardOf(s)) * HearDecay + capacity[s]
  <2>1. \A s \in Sides : HeardOf(s)' = OfSide(r.out, s)
    BY <1>2 DEF HeardOf, OfSide
  <2> QED  BY <1>2, <1>4, <2>1
<1>7. \A s \in Sides : r.cap[s] <= capacity[s]
  BY <1>4
<1>8. HearTypeOK'
  <2>1. capacity' \in [Sides -> 0 .. HearMax]
    BY <1>2, <1>3, <1>5, <1>7, HearAssumption
  <2>2. cache' \in [Speakers -> Nat]
    BY <1>2 DEF NoMessages
  <2> QED  BY <1>2, <1>5, <2>1, <2>2, Zenon DEF HearTypeOK
<1> QED  BY <1>2, <1>6, <1>8, StillPaid

LEMMA UpdateInv ==
    ASSUME HearTypeOK, updateCapacity
    PROVE  HearTypeOK' /\ HeardWasPaid'
<1>1. capacity' \in [Sides -> 0 .. HearMax]
  <2>1. ASSUME NEW s \in Sides
        PROVE  capacity[s] \in 0 .. HearMax
               /\ (capacity[s] + HearInc > HearMax \/ capacity[s] + HearInc \in 0 .. HearMax)
               /\ HearMax \in 0 .. HearMax
    BY HearAssumption DEF HearTypeOK
  <2>2. DOMAIN capacity' = Sides
    BY DEF updateCapacity
  <2>3. ASSUME NEW s \in Sides PROVE capacity'[s] \in 0 .. HearMax
    BY <2>1, Zenon DEF updateCapacity
  <2>4. capacity' = [s \in Sides |-> capacity'[s]]
    BY DEF updateCapacity
  <2> QED  BY <2>3, <2>4
<1>2. heard' = <<>> /\ UNCHANGED <<keeps, awake, entries, ear, focus, cache>>
      /\ renewed' \in BOOLEAN
  BY Zenon DEF updateCapacity
<1>3. heard' \in Seq(Speakers)
  BY <1>2
<1>4. HearTypeOK'
  BY <1>1, <1>2, <1>3, Zenon DEF HearTypeOK
<1>5. ASSUME NEW s \in Sides
      PROVE  Cardinality(HeardOf(s)') * HearDecay + capacity'[s] <= HearMax
  <2>1. HeardOf(s)' = {}
    BY <1>2 DEF HeardOf
  <2>2. Cardinality(HeardOf(s)') = 0
    BY <2>1, FS_EmptySet
  <2> QED  BY <1>1, <2>2, HearAssumption
<1> QED  BY <1>4, <1>5, Zenon DEF HeardWasPaid

LEMMA RestoreInv ==
    ASSUME HearTypeOK, restoreHearing
    PROVE  HearTypeOK' /\ HeardWasPaid'
<1>1. capacity' \in [Sides -> 0 .. HearMax]
  BY HearAssumption DEF restoreHearing
<1>2. renewed' = TRUE /\ UNCHANGED <<keeps, awake, entries, ear, focus, cache, heard>>
  BY DEF restoreHearing
<1>3. HearTypeOK'
  BY <1>1, <1>2, Zenon DEF HearTypeOK
<1> QED  BY <1>2, <1>3, Zenon DEF HeardWasPaid

LEMMA SetEarInv ==
    ASSUME HearTypeOK, HeardWasPaid, NEW flag \in BOOLEAN, NEW sides,
           NEW modes \in SUBSET Modes, setEar(flag, sides, modes)
    PROVE  HearTypeOK' /\ HeardWasPaid'
<1>1. ear' \in [Sides -> SUBSET Modes]
  <2>1. ear \in [Sides -> SUBSET Modes]
    BY DEF HearTypeOK
  <2>2. ear' = [s \in Sides |-> IF s \notin sides THEN ear[s]
                               ELSE IF flag THEN ear[s] \cup modes ELSE ear[s] \ modes]
    BY Zenon DEF setEar
  <2>3. \A s \in Sides : ear[s] \in SUBSET Modes /\ ear[s] \cup modes \in SUBSET Modes
                         /\ ear[s] \ modes \in SUBSET Modes
    BY <2>1
  <2> QED  BY <2>2, <2>3, Zenon
<1>2. UNCHANGED <<keeps, awake, entries, capacity, focus, cache, heard, renewed>>
  BY Zenon DEF setEar
<1>3. HearTypeOK'
  BY <1>1, <1>2, Zenon DEF HearTypeOK
<1> QED  BY <1>2, <1>3, HeardUnchanged

LEMMA AttentionInv ==
    ASSUME HearTypeOK, HeardWasPaid,
           NEW who \in {{}} \cup {{p} : p \in Speakers}, attentionto(who)
    PROVE  HearTypeOK' /\ HeardWasPaid'
<1>1. focus' \in SUBSET Speakers /\ (\A p, q \in focus' : p = q)
  BY DEF attentionto
<1>2. UNCHANGED <<keeps, awake, entries, capacity, ear, cache, heard, renewed>>
  BY DEF attentionto
<1>3. HearTypeOK'
  BY <1>1, <1>2, Zenon DEF HearTypeOK
<1> QED  BY <1>2, <1>3, HeardUnchanged

LEMMA ReturnsInv ==
    ASSUME HearTypeOK, HeardWasPaid, HearerReturns
    PROVE  HearTypeOK' /\ HeardWasPaid'
<1>1. entries' \in 0 .. 2 /\ focus' = {} /\ cache' \in [Speakers -> Nat]
      /\ ear' \in [Sides -> SUBSET Modes]
  BY DEF HearTypeOK, HearerReturns, NoMessages, Modes
<1>2. UNCHANGED <<keeps, capacity, heard, renewed>> /\ awake' = TRUE
  BY DEF HearerReturns
<1>3. focus' \in SUBSET Speakers /\ (\A p, q \in focus' : p = q)
  BY <1>1
<1>4. HearTypeOK'
  BY <1>1, <1>2, <1>3, Zenon DEF HearTypeOK
<1> QED  BY <1>2, <1>4, HeardUnchanged

LEMMA LeavesInv ==
    ASSUME HearTypeOK, HeardWasPaid, HearerLeaves
    PROVE  HearTypeOK' /\ HeardWasPaid'
<1>1. awake' = FALSE /\ entries' = 0
      /\ UNCHANGED <<keeps, capacity, ear, focus, cache, heard, renewed>>
  BY DEF HearerLeaves
<1>2. 0 \in 0 .. 2
  OBVIOUS
<1>3. HearTypeOK'
  BY <1>1, <1>2, Zenon DEF HearTypeOK
<1> QED  BY <1>1, <1>3, HeardUnchanged

LEMMA AudioInv ==
    ASSUME HearTypeOK, HeardWasPaid, NEW p \in Speakers, NEW near \in BOOLEAN,
           sendPlayerAudio(p, near)
    PROVE  HearTypeOK' /\ HeardWasPaid'
<1> DEFINE n == IF awake /\ near THEN entries ELSE 0
<1>1. n \in Nat
  BY DEF HearTypeOK
<1> HIDE DEF n
<1>2. UNCHANGED <<keeps, awake, entries, ear, focus, renewed>>
      /\ IF keeps THEN keep(p, n) ELSE passOn(p, n)
  BY Zenon DEF sendPlayerAudio, n
<1>3. CASE keeps
  <2>1. keep(p, n)
    BY <1>2, <1>3, Zenon
  <2> QED  BY <1>1, <1>2, <2>1, KeepInv
<1>4. CASE ~ keeps
  <2>1. passOn(p, n)
    BY <1>2, <1>4, Zenon
  <2> QED  BY <1>1, <1>2, <2>1, PassOnInv
<1> QED  BY <1>3, <1>4

LEMMA HearStepInv == HearInv /\ [HearNext]_hvars => HearInv'
<1> SUFFICES ASSUME HearInv, [HearNext]_hvars PROVE HearInv'
  OBVIOUS
<1>1. HearTypeOK /\ HeardWasPaid
  BY DEF HearInv
<1>2. CASE \E p \in Speakers, near \in BOOLEAN : sendPlayerAudio(p, near)
  BY <1>1, <1>2, AudioInv, Zenon DEF HearInv
<1>3. CASE \E order \in Orders : newCycle(order)
  BY <1>1, <1>3, NewCycleInv, Zenon DEF HearInv
<1>4. CASE updateCapacity \/ restoreHearing
  BY <1>1, <1>4, UpdateInv, RestoreInv DEF HearInv
<1>5. CASE \E flag \in BOOLEAN, sides \in {{Left}, {Right}, Sides},
             modes \in {{"complete"}, {"partial"}, {"complete", "partial"}} :
               setEar(flag, sides, modes)
  <2>1. PICK flag \in BOOLEAN, sides \in {{Left}, {Right}, Sides},
             modes \in {{"complete"}, {"partial"}, {"complete", "partial"}} :
               setEar(flag, sides, modes)
    BY <1>5, Zenon
  <2>2. modes \in SUBSET Modes
    BY DEF Modes
  <2> QED  BY <1>1, <2>1, <2>2, SetEarInv, Zenon DEF HearInv
<1>6. CASE \E who \in {{}} \cup {{p} : p \in Speakers} : attentionto(who)
  BY <1>1, <1>6, AttentionInv, Zenon DEF HearInv
<1>7. CASE HearerReturns \/ HearerLeaves
  BY <1>1, <1>7, ReturnsInv, LeavesInv DEF HearInv
<1>8. CASE UNCHANGED hvars
  <2>1. UNCHANGED <<keeps, awake, entries, capacity, ear, focus, cache, heard, renewed>>
    BY <1>8, Zenon DEF hvars
  <2>2. HearTypeOK'
    BY <1>1, <2>1, Zenon DEF HearTypeOK
  <2> QED  BY <1>1, <2>1, <2>2, HeardUnchanged DEF HearInv
<1> QED  BY <1>2, <1>3, <1>4, <1>5, <1>6, <1>7, <1>8, Zenon DEF HearNext

\* The hearing of a player keeps its types and its budget.
THEOREM HearInvHolds == HearSpec => []HearInv
  BY HearInitInv, HearStepInv, PTL DEF HearSpec

\* A player hears no more messages of a team in full between two updates than
\* hear_max and hear_decay allow (HearingLimited), for all teams, limits and
\* numbers of messages.
THEOREM HearingLimitedHolds == HearSpec => []HearingLimited
<1>1. HearInv => HearingLimited
  <2> SUFFICES ASSUME HearTypeOK, HeardWasPaid, ~ renewed, NEW s \in Sides
               PROVE  Cardinality(HeardOf(s)) * HearDecay <= HearMax
    BY Zenon DEF HearInv, HearingLimited
  <2>1. Cardinality(HeardOf(s)) * HearDecay + capacity[s] <= HearMax
    BY Zenon DEF HeardWasPaid
  <2>2. capacity[s] \in Nat
    BY HearAssumption DEF HearTypeOK
  <2>3. HeardOf(s) = OfSide(heard, s)
    BY DEF HeardOf, OfSide
  <2>4. Cardinality(HeardOf(s)) \in Nat
    BY <2>3, OfSideFinite DEF HearTypeOK
  <2>5. Cardinality(HeardOf(s)) * HearDecay \in Nat
    BY <2>4, HearAssumption
  <2> QED  BY <2>1, <2>2, <2>5, HearAssumption
<1> QED  BY <1>1, HearInvHolds, PTL

\* An order takes the messages of the player in focus first.
LEMMA FocusLeads ==
    ASSUME HearTypeOK, NEW order \in Orders, NEW f \in focus, cache[f] > 0
    PROVE  order \in Seq(Speakers) /\ Len(order) \in Nat \ {0} /\ order[1] = f
<1> DEFINE mine == {i \in DOMAIN order : order[i] = f}
<1>1. order \in Seq(Speakers)
  BY OrderType
<1>2. f \in Speakers
  BY DEF HearTypeOK
<1>3. Cardinality(mine) = cache[f]
  BY <1>2, Zenon DEF Orders, RandomOrders
<1>4. mine # {}
  <2>1. SUFFICES ASSUME mine = {} PROVE FALSE
    OBVIOUS
  <2>2. Cardinality(mine) = 0
    BY <2>1, FS_EmptySet
  <2> HIDE DEF mine
  <2> QED  BY <1>3, <2>2
<1>5. PICK k \in DOMAIN order : order[k] = f
  BY <1>4
<1>6. k \in 1 .. Len(order) /\ Len(order) \in Nat /\ 1 \in DOMAIN order
  BY <1>1, <1>5
<1>7. \A i, j \in DOMAIN order : order[i] \notin focus /\ order[j] \in focus => j < i
  BY Zenon DEF Orders
<1>8. order[1] \in focus
  <2>1. SUFFICES ASSUME order[1] \notin focus PROVE FALSE
    OBVIOUS
  <2>2. k < 1
    BY <1>5, <1>6, <1>7, <2>1
  <2> QED  BY <1>6, <2>2
<1>9. order[1] = f
  BY <1>8 DEF HearTypeOK
<1> QED  BY <1>1, <1>6, <1>9

\* Once heard, in its place.
LEMMA PlaceKept ==
    ASSUME NEW r \in HearStates, NEW p \in Speakers, NEW f, NEW k \in Nat \ {0},
           Len(r.out) >= k, r.out[k] = f
    PROVE  LET w == sendCachedNonSelfPlayerAudio(r, p)
           IN  w \in HearStates /\ Len(w.out) >= k /\ w.out[k] = f
<1> DEFINE w == sendCachedNonSelfPlayerAudio(r, p)
<1>1. w \in HearStates
  BY MessageCosts
<1>2. w.out = r.out \/ w.out = Append(r.out, p)
  BY DEF sendCachedNonSelfPlayerAudio
<1> HIDE DEF w
<1>3. r.out \in Seq(Speakers)
  BY DEF HearStates
<1>4. Len(w.out) >= k /\ w.out[k] = f
  BY <1>2, <1>3
<1> QED  BY <1>1, <1>4 DEF w

\* Without the capacity for a side, or with its complete messages turned off,
\* nothing of that side is heard.
Deaf(r, n, d) ==
    /\ r \in HearStates
    /\ r.cap[d] < HearDecay \/ "complete" \notin ear[d]
    /\ Len(r.out) >= n
    /\ \A i \in n + 1 .. Len(r.out) : SideOf(r.out[i]) # d

LEMMA StaysDeaf ==
    ASSUME NEW r, NEW n \in Nat, NEW d \in Sides, Deaf(r, n, d), NEW p \in Speakers
    PROVE  Deaf(sendCachedNonSelfPlayerAudio(r, p), n, d)
<1> DEFINE w == sendCachedNonSelfPlayerAudio(r, p)
<1>1. w \in HearStates
  BY MessageCosts DEF Deaf
<1>2. r \in HearStates /\ r.out \in Seq(Speakers) /\ r.cap \in [Sides -> Nat]
      /\ SideOf(p) \in Sides
  BY DEF Deaf, HearStates, SideOf, Sides
<1>3. CASE canHearFullFrom(r.cap, p) /\ "complete" \in ear[SideOf(p)]
  <2>1. w = [cap |-> [r.cap EXCEPT ![SideOf(p)] = @ - HearDecay], out |-> Append(r.out, p)]
    BY <1>3 DEF sendCachedNonSelfPlayerAudio
  <2>2. SideOf(p) # d
    BY <1>2, <1>3, HearAssumption DEF canHearFullFrom, Deaf
  <2>3. w.cap[d] = r.cap[d] /\ w.out = Append(r.out, p)
    BY <1>2, <2>1, <2>2
  <2> HIDE DEF w
  <2>4. Len(w.out) = Len(r.out) + 1 /\ w.out[Len(r.out) + 1] = p
        /\ (\A i \in 1 .. Len(r.out) : w.out[i] = r.out[i]) /\ Len(r.out) \in Nat
    BY <1>2, <2>3
  <2>5. \A i \in n + 1 .. Len(w.out) : SideOf(w.out[i]) # d
    BY <2>2, <2>4 DEF Deaf
  <2>6. Len(w.out) >= n
    BY <2>4 DEF Deaf
  <2>7. Deaf(w, n, d)
    BY <1>1, <2>3, <2>5, <2>6 DEF Deaf
  <2> QED  BY <2>7 DEF w
<1>4. CASE ~ (canHearFullFrom(r.cap, p) /\ "complete" \in ear[SideOf(p)])
  BY <1>4 DEF sendCachedNonSelfPlayerAudio
<1> QED  BY <1>3, <1>4

\* The messages of an order, passed on: the player in focus is the first of his
\* team to be heard.
LEMMA FocusIsFirst ==
    ASSUME HearTypeOK, NEW order \in Orders, NEW f \in focus, cache[f] > 0,
           newCycle(order),
           NEW i \in Len(heard) + 1 .. Len(heard'), SideOf(heard'[i]) = SideOf(f)
    PROVE  \E j \in Len(heard) + 1 .. i : heard'[j] = f
<1> DEFINE n == Len(order)
           g == sendCached(order)
           N == Len(heard)
           d == SideOf(f)
<1>1. order \in Seq(Speakers) /\ n \in Nat \ {0} /\ order[1] = f
      /\ \A k \in 1 .. n : order[k] \in Speakers
  BY FocusLeads
<1>2. capacity \in [Sides -> Nat] /\ heard \in Seq(Speakers) /\ N \in Nat
      /\ f \in Speakers /\ d \in Sides
  BY HearAssumption DEF HearTypeOK, SideOf, Sides
<1>3. g[0] = [cap |-> capacity, out |-> heard]
      /\ \A k \in 1 .. n : g[k] = sendCachedNonSelfPlayerAudio(g[k - 1], order[k])
  <2> HIDE DEF g, n
  <2> QED  BY <1>1, <1>2, SendCachedMeets DEF g, n
<1>4. heard' = g[n].out
  BY DEF newCycle
<1> HIDE DEF g, n
<1>5. g[0] \in HearStates /\ g[0].cap = capacity /\ g[0].out = heard
  BY <1>2, <1>3 DEF HearStates
<1>6. CASE capacity[d] >= HearDecay /\ "complete" \in ear[d]
  <2> DEFINE Done(r) == r \in HearStates /\ Len(r.out) >= N + 1 /\ r.out[N + 1] = f
             T == {k \in 0 .. n : k = 0 \/ Done(g[k])}
  <2>1. Done(g[1])
    <3>1. g[1] = sendCachedNonSelfPlayerAudio(g[0], f)
      BY <1>1, <1>3
    <3>2. g[1].out = Append(heard, f)
      BY <1>5, <1>6, <3>1 DEF sendCachedNonSelfPlayerAudio, canHearFullFrom
    <3>3. g[1] \in HearStates
      BY <1>2, <1>5, <3>1, MessageCosts
    <3> QED  BY <1>2, <3>2, <3>3
  <2>2. ASSUME NEW r, Done(r), NEW p \in Speakers
        PROVE  Done(sendCachedNonSelfPlayerAudio(r, p))
    <3>1. N + 1 \in Nat \ {0}
      BY <1>2
    <3> QED  BY <2>2, <3>1, PlaceKept
  <2> HIDE DEF Done
  <2>3. 0 \in T
    BY <1>1
  <2>4. ASSUME NEW k \in 1 .. n, k - 1 \in T PROVE k \in T
    <3>1. CASE k = 1
      BY <1>1, <2>1, <3>1
    <3>2. CASE k # 1
      <4>1. k - 1 # 0 /\ k \in 0 .. n
        BY <1>1, <3>2
      <4>2. Done(g[k - 1])
        BY <2>4, <4>1
      <4>3. Done(g[k])
        BY <1>1, <1>3, <2>2, <4>2
      <4> QED  BY <4>1, <4>3
    <3> QED  BY <3>1, <3>2
  <2>5. n \in T
    <3>1. \A k \in 0 .. n : k \in T
      <4> HIDE DEF T
      <4> QED  BY <1>1, <2>3, <2>4, CountedUp
    <3> QED  BY <1>1, <3>1
  <2>6. heard'[N + 1] = f
    BY <1>1, <1>4, <2>5 DEF Done
  <2>7. N + 1 \in N + 1 .. i
    BY <1>2
  <2> QED  BY <2>6, <2>7
<1>7. CASE ~ (capacity[d] >= HearDecay /\ "complete" \in ear[d])
  <2> DEFINE T == {k \in 0 .. n : Deaf(g[k], N, d)}
  <2>1. Deaf(g[0], N, d)
    BY <1>2, <1>5, <1>7, HearAssumption DEF Deaf
  <2>2. 0 \in T
    BY <1>1, <2>1
  <2>3. ASSUME NEW k \in 1 .. n, k - 1 \in T PROVE k \in T
    <3>1. Deaf(g[k - 1], N, d) /\ k \in 0 .. n
      BY <1>1, <2>3
    <3>2. Deaf(g[k], N, d)
      BY <1>1, <1>2, <1>3, <3>1, StaysDeaf
    <3> QED  BY <3>1, <3>2
  <2>4. \A k \in 0 .. n : k \in T
    <3> HIDE DEF T
    <3> QED  BY <1>1, <2>2, <2>3, CountedUp
  <2>5. Deaf(g[n], N, d)
    BY <1>1, <2>4
  <2>6. \A k \in N + 1 .. Len(heard') : SideOf(heard'[k]) # d
    BY <1>4, <2>5 DEF Deaf
  <2> QED  BY <2>6
<1> QED  BY <1>6, <1>7

\* When the sense_body comes, nobody of a team is heard in full before the
\* player in focus of that team who spoke (FocusFirst): the kept messages are
\* taken in an order that begins with his, and what the capacity refuses to him
\* it refuses to his whole team.
THEOREM FocusFirstHolds == HearSpec => FocusFirst
<1> DEFINE A == \A f \in focus :
                  cache[f] > 0 /\ cache' = NoMessages /\ entries' = entries =>
                    \A i \in Len(heard) + 1 .. Len(heard') :
                      SideOf(heard'[i]) = SideOf(f) =>
                        \E j \in Len(heard) + 1 .. i : heard'[j] = f
<1>1. HearInv /\ [HearNext]_hvars => A
  <2> SUFFICES ASSUME HearTypeOK, [HearNext]_hvars, NEW f \in focus,
                      cache[f] > 0, cache' = NoMessages, entries' = entries,
                      NEW i \in Len(heard) + 1 .. Len(heard'),
                      SideOf(heard'[i]) = SideOf(f)
               PROVE  \E j \in Len(heard) + 1 .. i : heard'[j] = f
    BY Zenon DEF HearInv
  <2>1. f \in Speakers /\ cache \in [Speakers -> Nat] /\ cache[f] \in Nat
    BY DEF HearTypeOK
  <2>2. cache'[f] = 0
    BY <2>1 DEF NoMessages
  <2>3. cache' # cache
    BY <2>1, <2>2
  <2>4. CASE \E p \in Speakers, near \in BOOLEAN : sendPlayerAudio(p, near)
    <3>1. PICK p \in Speakers, near \in BOOLEAN : sendPlayerAudio(p, near)
      BY <2>4, Zenon
    <3> DEFINE n == IF awake /\ near THEN entries ELSE 0
    <3>2. n \in Nat
      BY DEF HearTypeOK
    <3> HIDE DEF n
    <3>3. keep(p, n) \/ passOn(p, n)
      BY <3>1, Zenon DEF sendPlayerAudio, n
    <3>4. keep(p, n)
      BY <2>3, <3>3 DEF passOn
    <3> DEFINE kept == IF ear[SideOf(p)] = {} THEN 0 ELSE n
    <3>5. cache' = [cache EXCEPT ![p] = @ + kept] /\ kept \in Nat
      BY <3>2, <3>4 DEF keep
    <3> HIDE DEF kept
    <3>6. cache'[f] >= cache[f]
      BY <2>1, <3>5
    <3> QED  BY <2>1, <2>2, <3>6
  <2>5. CASE \E order \in Orders : newCycle(order)
    BY <2>5, FocusIsFirst
  <2>6. CASE updateCapacity \/ restoreHearing
    BY <2>3, <2>6 DEF updateCapacity, restoreHearing
  <2>7. CASE \E flag \in BOOLEAN, sides \in {{Left}, {Right}, Sides},
               modes \in {{"complete"}, {"partial"}, {"complete", "partial"}} :
                 setEar(flag, sides, modes)
    <3>1. cache' = cache
      BY <2>7, Zenon DEF setEar
    <3> QED  BY <2>3, <3>1
  <2>8. CASE \E who \in {{}} \cup {{p} : p \in Speakers} : attentionto(who)
    BY <2>3, <2>8, Zenon DEF attentionto
  <2>9. CASE HearerReturns
    BY <2>9 DEF HearerReturns, HearTypeOK
  <2>10. CASE HearerLeaves
    BY <2>3, <2>10 DEF HearerLeaves
  <2>11. CASE UNCHANGED hvars
    BY <2>3, <2>11 DEF hvars
  <2> QED  BY <2>4, <2>5, <2>6, <2>7, <2>8, <2>9, <2>10, <2>11, Zenon DEF HearNext
<1>2. FocusFirst <=> [][A]_hvars
  BY DEF FocusFirst
<1> HIDE DEF A
<1> QED  BY <1>1, <1>2, HearInvHolds, PTL DEF HearSpec

------------------------------------------------------------------------------
(* Player types.                                                            *)

TypeKeys == Types \cup {NoType}

Teams == [size : Squad .. Squad + Extra, type : [Unum -> Types], subst : SUBSET Unum,
          count : [TypeKeys -> Int], used : [TypeKeys -> Int], subs : Nat]

\* A team record whose substituted players are in the team.
TeamOK(r) == r \in Teams /\ r.subst \subseteq 1 .. r.size

\* The players to whom a type was given.
Has(r, t) == {u \in 1 .. r.size : u \in r.subst /\ r.type[u] = t}

\* The counter of a type is at least the number of its players, and no limited
\* type has more of them than it may.
Quotas(r) ==
    \A t \in Types : /\ Cardinality(Has(r, t)) <= r.count[t]
                     /\ ~ Free(t) => Cardinality(Has(r, t)) <= PtMax

LEMMA HasFinite ==
    ASSUME NEW r, r.size \in Int, NEW t
    PROVE  IsFiniteSet(Has(r, t)) /\ Cardinality(Has(r, t)) \in Nat
<1>1. Has(r, t) \subseteq 1 .. r.size
  BY DEF Has
<1>2. IsFiniteSet(1 .. r.size)
  BY FS_Interval
<1>3. IsFiniteSet(Has(r, t))
  BY <1>1, <1>2, FS_Subset
<1> QED  BY <1>3, FS_CardinalityType

LEMMA TeamTypes ==
    ASSUME NEW r, TeamOK(r)
    PROVE  /\ r.size \in Squad .. Squad + Extra /\ r.size \in Nat /\ 1 .. r.size \subseteq Unum
           /\ r.type \in [Unum -> Types] /\ r.subst \in SUBSET Unum
           /\ r.subst \subseteq 1 .. r.size
           /\ r.count \in [TypeKeys -> Int] /\ r.used \in [TypeKeys -> Int] /\ r.subs \in Nat
<1>1. r \in Teams /\ r.subst \subseteq 1 .. r.size
  BY DEF TeamOK
<1>2. r.size \in Squad .. Squad + Extra /\ r.type \in [Unum -> Types] /\ r.subst \in SUBSET Unum
      /\ r.count \in [TypeKeys -> Int] /\ r.used \in [TypeKeys -> Int] /\ r.subs \in Nat
  BY <1>1 DEF Teams
<1>3. r.size \in Nat /\ r.size <= Squad + Extra
  BY <1>2, CoachAssumption
<1>4. 1 .. r.size \subseteq Unum
  BY <1>3, CoachAssumption DEF Unum
<1> QED  BY <1>1, <1>2, <1>3, <1>4

LEMMA KeyTypes ==
    /\ Types \subseteq TypeKeys /\ NoType \in TypeKeys /\ NoType \notin Types
    /\ \A t \in Types : t \in Nat
  BY CoachAssumption DEF TypeKeys, Types, NoType

LEMMA CountedAsKey ==
    ASSUME NEW r, TeamOK(r), NEW u \in 1 .. r.size
    PROVE  CountedAs(r, u) \in TypeKeys
  BY TeamTypes, KeyTypes DEF CountedAs

\* A player who gets a type moves from the players of his old type to those of
\* the new one.
LEMMA PlayerMoves ==
    ASSUME NEW r, TeamOK(r), NEW u \in 1 .. r.size, NEW t \in Types, NEW w,
           w.size = r.size, w.type = [r.type EXCEPT ![u] = t], w.subst = r.subst \cup {u},
           NEW x \in Types
    PROVE  Cardinality(Has(w, x))
             = Cardinality(Has(r, x)) - (IF x = CountedAs(r, u) THEN 1 ELSE 0)
                                      + (IF x = t THEN 1 ELSE 0)
<1> DEFINE old == CountedAs(r, u)
<1>1. r.size \in Nat /\ r.type \in [Unum -> Types] /\ u \in Unum
      /\ r.subst \subseteq 1 .. r.size
  BY TeamTypes
<1>2. IsFiniteSet(Has(r, x)) /\ Cardinality(Has(r, x)) \in Nat
  BY <1>1, HasFinite
<1>3. u \in Has(r, x) <=> x = old
  BY <1>1, KeyTypes DEF Has, CountedAs
<1>4. \A v \in 1 .. r.size : v # u => w.type[v] = r.type[v]
  BY <1>1
<1>5. w.type[u] = t
  BY <1>1
<1>6. Has(w, x) = (Has(r, x) \ {u}) \cup (IF x = t THEN {u} ELSE {})
  BY <1>4, <1>5 DEF Has
<1> HIDE DEF old
<1>7. CASE x = t /\ x = old
  <2>1. Has(w, x) = Has(r, x)
    BY <1>3, <1>6, <1>7
  <2> QED  BY <1>2, <1>7, <2>1 DEF old
<1>8. CASE x = t /\ x # old
  <2>1. Has(w, x) = Has(r, x) \cup {u} /\ u \notin Has(r, x)
    BY <1>3, <1>6, <1>8
  <2>2. Cardinality(Has(w, x)) = Cardinality(Has(r, x)) + 1
    BY <1>2, <2>1, FS_AddElement
  <2> QED  BY <1>2, <1>8, <2>2 DEF old
<1>9. CASE x # t /\ x = old
  <2>1. Has(w, x) = Has(r, x) \ {u} /\ u \in Has(r, x)
    BY <1>3, <1>6, <1>9
  <2>2. Cardinality(Has(w, x)) = Cardinality(Has(r, x)) - 1
    BY <1>2, <2>1, FS_RemoveElement
  <2> QED  BY <1>2, <1>9, <2>2 DEF old
<1>10. CASE x # t /\ x # old
  <2>1. Has(w, x) = Has(r, x)
    BY <1>3, <1>6, <1>10
  <2> QED  BY <1>2, <1>10, <2>1 DEF old
<1> QED  BY <1>7, <1>8, <1>9, <1>10

\* What a substitution does to the record of the team.
LEMMA Substituted ==
    ASSUME NEW r, TeamOK(r), NEW u \in 1 .. r.size, NEW t \in Types,
           ~ (r.count[CountedAs(r, u)] <= 0), NEW w, w = substituteType(r, u, t)
    PROVE  /\ TeamOK(w)
           /\ w.size = r.size /\ w.type = [r.type EXCEPT ![u] = t] /\ w.subst = r.subst \cup {u}
           /\ \A x \in Types :
                w.count[x] = r.count[x] - (IF x = CountedAs(r, u) THEN 1 ELSE 0)
                                        + (IF x = t THEN 1 ELSE 0)
           /\ w.subs \in Nat /\ w.subs <= r.subs + 1
<1> DEFINE old == CountedAs(r, u)
           k == IF time > 0 THEN 1 ELSE 0
           c == [x \in DOMAIN r.count |-> r.count[x] - (IF x = old THEN 1 ELSE 0)
                                                     + (IF x = t THEN 1 ELSE 0)]
<1>1. w = [r EXCEPT !.type[u] = t, !.subst = @ \cup {u}, !.count = c,
                    !.subs = @ + k, !.used[t] = @ + k]
  BY DEF substituteType
<1>2. k \in {0, 1}
  OBVIOUS
<1>3. /\ r.size \in Squad .. Squad + Extra /\ r.size \in Nat /\ u \in Unum
      /\ r.type \in [Unum -> Types] /\ r.subst \in SUBSET Unum /\ r.subst \subseteq 1 .. r.size
      /\ r.count \in [TypeKeys -> Int] /\ r.used \in [TypeKeys -> Int] /\ r.subs \in Nat
  BY TeamTypes
<1>4. c \in [TypeKeys -> Int]
  BY <1>3
<1>5. \A x \in Types : c[x] = r.count[x] - (IF x = old THEN 1 ELSE 0)
                                          + (IF x = t THEN 1 ELSE 0)
  BY <1>3, KeyTypes
<1>6. r \in Teams
  BY DEF TeamOK
<1> HIDE DEF k, c
<1>7. /\ w.size = r.size /\ w.type = [r.type EXCEPT ![u] = t] /\ w.subst = r.subst \cup {u}
      /\ w.count = c /\ w.subs = r.subs + k /\ w.used = [r.used EXCEPT ![t] = @ + k]
  BY <1>1, <1>6 DEF Teams
<1>8. w \in Teams
  <2>1. w.type \in [Unum -> Types] /\ w.subst \in SUBSET Unum /\ w.subs \in Nat
    BY <1>2, <1>3, <1>7
  <2>2. w.used \in [TypeKeys -> Int]
    BY <1>2, <1>3, <1>7, KeyTypes
  <2> QED  BY <1>1, <1>3, <1>4, <1>6, <1>7, <2>1, <2>2 DEF Teams
<1>9. TeamOK(w)
  BY <1>3, <1>7, <1>8 DEF TeamOK
<1> QED  BY <1>2, <1>3, <1>5, <1>7, <1>9

\* A substitution that the coach may make leaves the quotas in order.
LEMMA SubstitutionKeeps ==
    ASSUME NEW r, TeamOK(r), NEW u \in 1 .. r.size, NEW t \in Types, NEW w,
           w = substituteType(r, u, t)
    PROVE  /\ TeamOK(w)
           /\ w.subs <= r.subs + 1
           /\ Quotas(r) /\ (Free(t) \/ r.count[t] < PtMax \/ CountedAs(r, u) = t) => Quotas(w)
<1>1. r.subs \in Nat /\ r.size \in Nat /\ \A x \in Types : r.count[x] \in Int
  BY TeamTypes, KeyTypes
<1>2. CASE r.count[CountedAs(r, u)] <= 0
  <2>1. w = r
    BY <1>2 DEF substituteType
  <2> QED  BY <1>1, <2>1
<1>3. CASE ~ (r.count[CountedAs(r, u)] <= 0)
  <2>1. /\ TeamOK(w)
        /\ w.size = r.size /\ w.type = [r.type EXCEPT ![u] = t] /\ w.subst = r.subst \cup {u}
        /\ \A x \in Types :
             w.count[x] = r.count[x] - (IF x = CountedAs(r, u) THEN 1 ELSE 0)
                                     + (IF x = t THEN 1 ELSE 0)
        /\ w.subs \in Nat /\ w.subs <= r.subs + 1
    BY <1>3, Substituted
  <2>2. ASSUME Quotas(r), Free(t) \/ r.count[t] < PtMax \/ CountedAs(r, u) = t, NEW x \in Types
        PROVE  /\ Cardinality(Has(w, x)) <= w.count[x]
               /\ ~ Free(x) => Cardinality(Has(w, x)) <= PtMax
    <3> DEFINE a == Cardinality(Has(r, x))
               b == Cardinality(Has(w, x))
    <3>1. a \in Nat
      BY <1>1, HasFinite
    <3>2. b = a - (IF x = CountedAs(r, u) THEN 1 ELSE 0) + (IF x = t THEN 1 ELSE 0)
      BY <2>1, PlayerMoves
    <3>3. a <= r.count[x] /\ (~ Free(x) => a <= PtMax) /\ r.count[x] \in Int /\ PtMax \in Nat
      BY <1>1, <2>2, CoachAssumption DEF Quotas
    <3>4. w.count[x] = r.count[x] - (IF x = CountedAs(r, u) THEN 1 ELSE 0)
                                  + (IF x = t THEN 1 ELSE 0)
      BY <2>1
    <3> HIDE DEF a, b
    <3>5. b <= w.count[x]
      BY <3>1, <3>2, <3>3, <3>4
    <3>6. ASSUME ~ Free(x) PROVE b <= PtMax
      <4>1. a <= PtMax
        BY <3>3, <3>6
      <4>2. CASE x # t \/ x = CountedAs(r, u)
        BY <3>1, <3>2, <3>3, <4>1, <4>2
      <4>3. CASE x = t /\ x # CountedAs(r, u)
        <5>1. r.count[x] < PtMax
          BY <2>2, <3>6, <4>3
        <5> QED  BY <3>1, <3>2, <3>3, <4>3, <5>1
      <4> QED  BY <4>2, <4>3
    <3> QED  BY <3>5, <3>6 DEF b
  <2>3. Quotas(r) /\ (Free(t) \/ r.count[t] < PtMax \/ CountedAs(r, u) = t) => Quotas(w)
    BY <2>2 DEF Quotas
  <2> QED  BY <2>1, <2>3
<1> QED  BY <1>2, <1>3

\* Both counters of a type are at least the number of its players.
BothCount(r) ==
    \A t \in Types : Cardinality(Has(r, t)) <= r.used[t] /\ Cardinality(Has(r, t)) <= r.count[t]

Within(r) == \A t \in Types : Cardinality(Has(r, t)) <= PtMax

\* After a recount the counters are the numbers of players.
LEMMA RecountedKeeps ==
    ASSUME NEW r, TeamOK(r), NEW w, w = Recounted(r)
    PROVE  /\ TeamOK(w) /\ BothCount(w) /\ w.subs = r.subs /\ w.size = r.size
           /\ \A t \in Types : Has(w, t) = Has(r, t)
<1> DEFINE now == [t \in Types \cup {NoType} |->
                      Cardinality({u \in 1 .. r.size : CountedAs(r, u) = t})]
<1>1. w = [r EXCEPT !.count = now, !.used = now]
  BY DEF Recounted
<1>2. r \in Teams /\ r.size \in Nat /\ r.subst \subseteq 1 .. r.size
  BY TeamTypes DEF TeamOK
<1>3. ASSUME NEW t PROVE Cardinality({u \in 1 .. r.size : CountedAs(r, u) = t}) \in Nat
  <2> DEFINE U == {u \in 1 .. r.size : CountedAs(r, u) = t}
  <2>1. U \subseteq 1 .. r.size
    OBVIOUS
  <2>2. IsFiniteSet(1 .. r.size)
    BY <1>2, FS_Interval
  <2> HIDE DEF U
  <2>3. Cardinality(U) \in Nat
    BY <2>1, <2>2, FS_Subset, FS_CardinalityType
  <2> QED  BY <2>3 DEF U
<1>4. now \in [TypeKeys -> Int]
  BY <1>3 DEF TypeKeys
<1>5. ASSUME NEW t \in Types PROVE now[t] = Cardinality(Has(r, t))
  <2>1. {u \in 1 .. r.size : CountedAs(r, u) = t} = Has(r, t)
    BY KeyTypes DEF CountedAs, Has
  <2> QED  BY <2>1
<1> HIDE DEF now
<1>6. /\ w.size = r.size /\ w.type = r.type /\ w.subst = r.subst /\ w.subs = r.subs
      /\ w.count = now /\ w.used = now
  BY <1>1, <1>2 DEF Teams
<1>7. TeamOK(w)
  <2>1. w \in Teams
    BY <1>1, <1>2, <1>4 DEF Teams
  <2> QED  BY <1>2, <1>6, <2>1 DEF TeamOK
<1>8. \A t \in Types : Has(w, t) = Has(r, t)
  BY <1>6 DEF Has
<1>9. BothCount(w)
  <2>1. \A t \in Types : Cardinality(Has(r, t)) \in Nat
    BY <1>2, HasFinite
  <2> QED  BY <1>5, <1>6, <1>8, <2>1 DEF BothCount
<1> QED  BY <1>6, <1>7, <1>8, <1>9

\* A player who is given the first open type in the line-up.
LEMMA AssignOneKeeps ==
    ASSUME NEW r, TeamOK(r), NEW u \in 1 .. r.size, NEW w, w = AssignOne(r, u)
    PROVE  /\ TeamOK(w) /\ w.subs = r.subs /\ w.size = r.size
           /\ BothCount(r) => BothCount(w)
           /\ BothCount(r) /\ Within(r) => Within(w)
<1> DEFINE old == CountedAs(r, u)
           open == {t \in Types : r.used[t] < PtMax}
           t == CHOOSE y \in open : \A x \in open : y <= x
           Moved(f) == [x \in DOMAIN f |->
                           f[x] + (IF x = t THEN 1 ELSE 0) - (IF x = old THEN 1 ELSE 0)]
           m == [r EXCEPT !.count = Moved(@), !.used = Moved(@)]
           same == (old >= 0 /\ r.used[old] <= PtMax) \/ open = {}
<1>1. w = IF same THEN r
          ELSE IF r.type[u] = t THEN m
          ELSE [m EXCEPT !.type[u] = t, !.subst = @ \cup {u}]
  BY DEF AssignOne
<1>2. CASE same
  <2>1. w = r
    BY <1>1, <1>2
  <2> QED  BY <2>1
<1>3. CASE ~ same
  <2>1. open # {} /\ open \in SUBSET Nat
    BY <1>3, KeyTypes
  <2>2. t \in open
    <3> HIDE DEF open
    <3>1. \E y \in open : \A x \in open : y <= x
      BY <2>1, LeastNumber
    <3> QED  BY <3>1, Zenon
  <2>3. t \in Types /\ r.used[t] < PtMax
    BY <2>2
  <2>4. t # old
    <3>1. ~ (old >= 0 /\ r.used[old] <= PtMax)
      BY <1>3
    <3>2. t \in Nat /\ r.used[t] \in Int /\ PtMax \in Nat
      BY <2>3, KeyTypes, TeamTypes, CoachAssumption
    <3> HIDE DEF t, old
    <3> QED  BY <2>3, <3>1, <3>2
  <2> HIDE DEF t, open, same
  <2>5. /\ r.size \in Squad .. Squad + Extra /\ r.size \in Nat /\ u \in Unum
        /\ r.type \in [Unum -> Types] /\ r.subst \in SUBSET Unum /\ r.subst \subseteq 1 .. r.size
        /\ r.count \in [TypeKeys -> Int] /\ r.used \in [TypeKeys -> Int] /\ r.subs \in Nat
        /\ r \in Teams
    BY TeamTypes DEF TeamOK
  <2>6. ASSUME NEW f \in [TypeKeys -> Int]
        PROVE  /\ Moved(f) \in [TypeKeys -> Int]
               /\ \A x \in Types : Moved(f)[x] = f[x] + (IF x = t THEN 1 ELSE 0)
                                                     - (IF x = old THEN 1 ELSE 0)
    BY KeyTypes
  <2> DEFINE c == Moved(r.count)
             s == Moved(r.used)
  <2>7. c \in [TypeKeys -> Int] /\ s \in [TypeKeys -> Int]
    BY <2>5, <2>6
  <2>8. \A x \in Types :
          /\ c[x] = r.count[x] + (IF x = t THEN 1 ELSE 0) - (IF x = old THEN 1 ELSE 0)
          /\ s[x] = r.used[x] + (IF x = t THEN 1 ELSE 0) - (IF x = old THEN 1 ELSE 0)
    BY <2>5, <2>6
  <2>9. m = [r EXCEPT !.count = c, !.used = s]
    OBVIOUS
  <2> HIDE DEF c, s, Moved, m
  <2>10. /\ m \in Teams /\ m.size = r.size /\ m.type = r.type /\ m.subst = r.subst
         /\ m.subs = r.subs /\ m.count = c /\ m.used = s
    BY <2>5, <2>7, <2>9 DEF Teams
  <2>11. \A x \in Types : /\ Cardinality(Has(r, x)) \in Nat /\ r.count[x] \in Int
                          /\ r.used[x] \in Int
    BY <2>5, HasFinite, KeyTypes
  <2>12. CASE r.type[u] = t
    <3>1. w = m
      BY <1>1, <1>3, <2>12
    <3>2. old = NoType
      BY <2>4, <2>12 DEF CountedAs
    <3>3. \A x \in Types : Has(w, x) = Has(r, x)
      BY <2>10, <3>1 DEF Has
    <3>4. TeamOK(w)
      BY <2>5, <2>10, <3>1 DEF TeamOK
    <3>5. BothCount(r) => BothCount(w)
      <4>1. ASSUME NEW x \in Types PROVE s[x] >= r.used[x] /\ c[x] >= r.count[x]
        BY <2>8, <2>11, <3>2, KeyTypes
      <4>2. \A x \in Types : c[x] \in Int /\ s[x] \in Int
        BY <2>7, KeyTypes
      <4> QED  BY <2>10, <2>11, <3>1, <3>3, <4>1, <4>2 DEF BothCount
    <3>6. Within(r) => Within(w)
      BY <3>3 DEF Within
    <3> QED  BY <2>10, <3>1, <3>4, <3>5, <3>6
  <2>13. CASE r.type[u] # t
    <3>1. w = [m EXCEPT !.type[u] = t, !.subst = @ \cup {u}]
      BY <1>1, <1>3, <2>13
    <3>2. /\ w.size = r.size /\ w.type = [r.type EXCEPT ![u] = t]
          /\ w.subst = r.subst \cup {u} /\ w.subs = r.subs /\ w.count = c /\ w.used = s
      BY <2>10, <3>1 DEF Teams
    <3>3. w.type \in [Unum -> Types] /\ w.subst \in SUBSET Unum /\ w.subst \subseteq 1 .. w.size
      BY <2>3, <2>5, <3>2
    <3>4. TeamOK(w)
      BY <2>5, <2>7, <2>10, <3>1, <3>2, <3>3 DEF Teams, TeamOK
    <3>5. \A x \in Types :
            Cardinality(Has(w, x)) = Cardinality(Has(r, x)) - (IF x = old THEN 1 ELSE 0)
                                                            + (IF x = t THEN 1 ELSE 0)
      BY <2>3, <3>2, PlayerMoves
    <3> HIDE DEF old
    <3>6. ASSUME BothCount(r), NEW x \in Types
          PROVE  Cardinality(Has(w, x)) <= w.used[x] /\ Cardinality(Has(w, x)) <= w.count[x]
      <4>1. Cardinality(Has(r, x)) <= r.used[x] /\ Cardinality(Has(r, x)) <= r.count[x]
        BY <3>6 DEF BothCount
      <4> QED  BY <2>8, <2>11, <3>2, <3>5, <4>1
    <3>7. ASSUME BothCount(r), Within(r), NEW x \in Types
          PROVE  Cardinality(Has(w, x)) <= PtMax
      <4>1. Cardinality(Has(r, x)) <= r.used[x] /\ Cardinality(Has(r, x)) <= PtMax
        BY <3>7 DEF BothCount, Within
      <4>2. PtMax \in Nat
        BY CoachAssumption
      <4>3. CASE x = t
        <5>1. Cardinality(Has(w, x)) = Cardinality(Has(r, x)) + 1
          BY <2>4, <2>11, <3>5, <4>3
        <5> QED  BY <2>3, <2>11, <4>1, <4>2, <4>3, <5>1
      <4>4. CASE x # t
        <5>1. Cardinality(Has(w, x)) <= Cardinality(Has(r, x))
              /\ Cardinality(Has(w, x)) \in Int
          BY <2>11, <3>5, <4>4
        <5> QED  BY <2>11, <4>1, <4>2, <5>1
      <4> QED  BY <4>3, <4>4
    <3> QED  BY <3>2, <3>4, <3>6, <3>7 DEF BothCount, Within
  <2> QED  BY <2>12, <2>13
<1> QED  BY <1>2, <1>3

\* Every state of the line-up on the way is of its type.
LEMMA AssignedMeets ==
    ASSUME NEW r, TeamOK(r), ~ AllowMult
    PROVE  \E f : /\ f[0] = Recounted(r)
                  /\ \A u \in 1 .. r.size : f[u] = AssignOne(f[u - 1], u)
                  /\ assignPlayerTypes(r) = f[r.size]
<1> DEFINE n == r.size
           S == {x \in Teams : TeamOK(x) /\ x.size = n}
           s0 == Recounted(r)
           F == [q \in (1 .. n) \X S |-> AssignOne(q[2], q[1])]
           Step(g) == [u \in 0 .. n |-> IF u = 0 THEN s0 ELSE AssignOne(g[u - 1], u)]
<1>1. n \in Nat
  BY TeamTypes
<1>2. s0 \in S
  BY RecountedKeeps DEF TeamOK
<1>3. ASSUME NEW u \in 1 .. n, NEW x \in S PROVE AssignOne(x, u) \in S
  BY AssignOneKeeps DEF TeamOK
<1> HIDE DEF S, s0, n
<1>4. F \in NextOnes(n, S)
  <2>1. \A q \in (1 .. n) \X S : q[1] \in 1 .. n /\ q[2] \in S
    OBVIOUS
  <2>2. \A q \in (1 .. n) \X S : AssignOne(q[2], q[1]) \in S
    BY <1>3, <2>1
  <2> QED  BY <2>2 DEF NextOnes
<1>5. \A u \in 1 .. n, x \in S : F[<<u, x>>] = AssignOne(x, u)
  OBVIOUS
<1> HIDE DEF F
<1>6. PICK f : Recursion(n, S, s0, F, f)
  BY <1>1, <1>2, <1>4, RecursionMeets
<1>7. f \in [0 .. n -> S] /\ f[0] = s0 /\ \A u \in 1 .. n : f[u] = F[<<u, f[u - 1]>>]
  BY <1>6 DEF Recursion
<1>8. f = Step(f)
  <2>1. ASSUME NEW u \in 0 .. n PROVE f[u] = Step(f)[u]
    <3>1. CASE u = 0
      BY <1>7, <3>1
    <3>2. CASE u # 0
      <4>1. u \in 1 .. n /\ u - 1 \in 0 .. n
        BY <1>1, <3>2
      <4> QED  BY <1>5, <1>7, <3>2, <4>1
    <3> QED  BY <3>1, <3>2
  <2> QED  BY <1>7, <2>1
<1> DEFINE h == CHOOSE g : g = Step(g)
<1>9. h = Step(h)
  <2> HIDE DEF Step
  <2> QED  BY <1>8, Zenon
<1>10. assignPlayerTypes(r) = h[n]
  BY Zenon DEF assignPlayerTypes, s0, n
<1> HIDE DEF h
<1>11. h[0] = s0 /\ \A u \in 1 .. n : h[u] = AssignOne(h[u - 1], u)
  <2>1. 0 \in 0 .. n /\ \A u \in 1 .. n : u \in 0 .. n /\ u # 0
    BY <1>1
  <2> QED  BY <1>9, <2>1
<1> QED  BY <1>10, <1>11, Zenon DEF s0, n

\* The line-up at the kick-off.
LEMMA LineUpKeeps ==
    ASSUME NEW r, TeamOK(r), NEW w, w = assignPlayerTypes(r)
    PROVE  TeamOK(w) /\ w.subs = r.subs /\ (Quotas(r) => Quotas(w))
<1>1. /\ TeamOK(Recounted(r)) /\ BothCount(Recounted(r)) /\ Recounted(r).subs = r.subs
      /\ Recounted(r).size = r.size
      /\ \A t \in Types : Has(Recounted(r), t) = Has(r, t)
  BY RecountedKeeps
<1>2. CASE AllowMult
  <2>1. w = Recounted(r)
    BY <1>2, Zenon DEF assignPlayerTypes
  <2>2. ASSUME Quotas(r) PROVE Quotas(w)
    BY <1>1, <2>1, <2>2 DEF Quotas, BothCount
  <2> QED  BY <1>1, <2>1, <2>2
<1>3. CASE ~ AllowMult
  <2>1. PICK f : /\ f[0] = Recounted(r)
                 /\ \A u \in 1 .. r.size : f[u] = AssignOne(f[u - 1], u)
                 /\ assignPlayerTypes(r) = f[r.size]
    BY <1>3, AssignedMeets
  <2> DEFINE n == r.size
             Good(x) == /\ TeamOK(x) /\ x.subs = r.subs /\ x.size = n /\ BothCount(x)
                        /\ Quotas(r) => Within(x)
             T == {u \in 0 .. n : Good(f[u])}
  <2>2. n \in Nat
    BY TeamTypes
  <2>3. \A t \in Types : ~ Free(t)
    BY <1>3 DEF Free
  <2>4. Good(f[0])
    <3>1. Quotas(r) => Within(Recounted(r))
      BY <1>1, <2>3 DEF Quotas, Within
    <3> QED  BY <1>1, <2>1, <3>1
  <2>5. ASSUME NEW x, Good(x), NEW u \in 1 .. n PROVE Good(AssignOne(x, u))
    BY <2>5, AssignOneKeeps
  <2>6. ASSUME NEW x, Good(x)
        PROVE  TeamOK(x) /\ x.subs = r.subs /\ (Quotas(r) => Quotas(x))
    BY <2>6 DEF BothCount, Within, Quotas
  <2> HIDE DEF Good, n
  <2>7. 0 \in T
    BY <2>2, <2>4
  <2>8. ASSUME NEW u \in 1 .. n, u - 1 \in T PROVE u \in T
    <3>1. Good(f[u - 1]) /\ u \in 0 .. n
      BY <2>2, <2>8
    <3>2. Good(f[u])
      BY <2>1, <2>5, <3>1 DEF n
    <3> QED  BY <3>1, <3>2
  <2>9. \A u \in 0 .. n : u \in T
    <3> HIDE DEF T
    <3> QED  BY <2>2, <2>7, <2>8, CountedUp
  <2>10. Good(f[n])
    BY <2>2, <2>9
  <2>11. w = f[n]
    BY <2>1 DEF n
  <2> QED  BY <2>6, <2>10, <2>11
<1> QED  BY <1>2, <1>3

\* The record of the team is of its type, and as long as the trainer has not
\* changed a type the quotas hold.
CoachInv ==
    /\ TeamOK(types) /\ free \in BOOLEAN
    /\ ~ free => Quotas(types) /\ types.subs <= SubsMax

LEMMA CoachInitInv == CoachInit => CoachInv
<1> SUFFICES ASSUME CoachInit PROVE CoachInv
  OBVIOUS
<1> DEFINE c == [t \in Types \cup {NoType} |-> IF t = NoType THEN Squad ELSE 0]
           y == [u \in Unum |-> 0]
<1>1. types = [size |-> Squad, type |-> y, subst |-> {}, count |-> c, used |-> c, subs |-> 0]
      /\ free = FALSE
  BY DEF CoachInit
<1>2. c \in [TypeKeys -> Int] /\ \A t \in Types : c[t] = 0
  BY CoachAssumption DEF TypeKeys, Types, NoType
<1>3. y \in [Unum -> Types]
  BY CoachAssumption DEF Types
<1>4. Squad \in Squad .. Squad + Extra
  BY CoachAssumption
<1> HIDE DEF c, y
<1>5. TeamOK(types)
  <2>1. types \in Teams
    BY <1>1, <1>2, <1>3, <1>4 DEF Teams
  <2>2. types.subst = {}
    BY <1>1
  <2> QED  BY <2>1, <2>2 DEF TeamOK
<1>6. Quotas(types)
  <2>1. ASSUME NEW t \in Types PROVE Cardinality(Has(types, t)) = 0
    <3>1. Has(types, t) = {}
      BY <1>1 DEF Has
    <3> QED  BY <3>1, FS_EmptySet
  <2> QED  BY <1>1, <1>2, <2>1, CoachAssumption DEF Quotas
<1>7. types.subs <= SubsMax
  BY <1>1, CoachAssumption
<1> QED  BY <1>1, <1>5, <1>6, <1>7, Zenon DEF CoachInv

LEMMA CoachChanges ==
    ASSUME CoachInv, NEW u \in Unum, NEW t \in Types, change_player_type(u, t)
    PROVE  CoachInv'
<1>1. TeamOK(types) /\ types.subs \in Nat /\ types.size \in Nat
  BY TeamTypes DEF CoachInv
<1>2. MayChange(u, t) /\ types' = substituteType(types, u, t) /\ free' = free
  BY DEF change_player_type
<1>3. u \in 1 .. types.size
  BY <1>1, <1>2, CoachAssumption DEF MayChange, Unum
<1>4. types.subs < SubsMax /\ (Free(t) \/ types.count[t] < PtMax \/ CountedAs(types, u) = t)
  BY <1>2 DEF MayChange, CountedAs
<1>5. TeamOK(types') /\ types'.subs <= types.subs + 1 /\ (Quotas(types) => Quotas(types'))
  BY <1>1, <1>2, <1>3, <1>4, SubstitutionKeeps
<1>6. types'.subs <= SubsMax
  BY <1>1, <1>4, <1>5, TeamTypes, CoachAssumption
<1> QED  BY <1>2, <1>5, <1>6, Zenon DEF CoachInv, Quotas, Has, TeamOK

LEMMA TrainerChanges ==
    ASSUME CoachInv, NEW u \in Unum, NEW t \in Types, trainer_change_player_type(u, t)
    PROVE  CoachInv'
<1>1. TeamOK(types) /\ types.size \in Nat
  BY TeamTypes DEF CoachInv
<1>2. types' = substituteType(types, u, t) /\ free' = TRUE /\ u <= types.size
  BY DEF trainer_change_player_type
<1>3. u \in 1 .. types.size
  BY <1>1, <1>2, CoachAssumption DEF Unum
<1>4. TeamOK(types')
  BY <1>1, <1>2, <1>3, SubstitutionKeeps
<1> QED  BY <1>2, <1>4, Zenon DEF CoachInv, TeamOK

LEMMA KickOffKeeps ==
    ASSUME CoachInv, KickOffTypes
    PROVE  CoachInv'
<1>1. types' = assignPlayerTypes(types) /\ free' = free
  BY DEF KickOffTypes
<1>2. TeamOK(types') /\ types'.subs = types.subs /\ (Quotas(types) => Quotas(types'))
  BY <1>1, LineUpKeeps DEF CoachInv
<1> QED  BY <1>1, <1>2, Zenon DEF CoachInv, Quotas, Has, TeamOK

LEMMA NewPlayerKeeps ==
    ASSUME CoachInv, NewPlayer
    PROVE  CoachInv'
<1> DEFINE r == types
           w == types'
<1>1. TeamOK(r) /\ r \in Teams /\ r.size < Squad + Extra /\ free' = free
  BY DEF NewPlayer, CoachInv, TeamOK
<1>2. w = [r EXCEPT !.size = @ + 1, !.count[NoType] = @ + 1, !.used[NoType] = @ + 1]
  BY DEF NewPlayer
<1>3. /\ r.size \in Squad .. Squad + Extra /\ r.size \in Nat /\ r.subst \subseteq 1 .. r.size
      /\ r.count \in [TypeKeys -> Int] /\ r.used \in [TypeKeys -> Int]
  BY <1>1, TeamTypes
<1> HIDE DEF r, w
<1>4. /\ w.size = r.size + 1 /\ w.type = r.type /\ w.subst = r.subst /\ w.subs = r.subs
      /\ w.count = [r.count EXCEPT ![NoType] = @ + 1]
      /\ w.used = [r.used EXCEPT ![NoType] = @ + 1]
  BY <1>1, <1>2 DEF Teams
<1>5. w.count \in [TypeKeys -> Int] /\ w.used \in [TypeKeys -> Int]
      /\ w.size \in Squad .. Squad + Extra
  BY <1>1, <1>3, <1>4, CoachAssumption, KeyTypes
<1>6. TeamOK(w)
  <2>1. w \in Teams
    BY <1>1, <1>2, <1>4, <1>5 DEF Teams
  <2>2. w.subst \subseteq 1 .. w.size
    BY <1>3, <1>4
  <2> QED  BY <2>1, <2>2 DEF TeamOK
<1>7. ASSUME NEW t \in Types PROVE Has(w, t) = Has(r, t) /\ w.count[t] = r.count[t]
  <2>1. Has(w, t) = Has(r, t)
    BY <1>3, <1>4 DEF Has
  <2>2. w.count[t] = r.count[t]
    BY <1>3, <1>4, KeyTypes
  <2> QED  BY <2>1, <2>2
<1>8. Quotas(r) => Quotas(w)
  BY <1>7 DEF Quotas
<1> QED  BY <1>1, <1>4, <1>6, <1>8, Zenon DEF CoachInv, r, w, Quotas, Has, TeamOK

LEMMA TypesAlone ==
    ASSUME CoachInv, UNCHANGED typeVars
    PROVE  CoachInv'
<1>1. types' = types /\ free' = free
  BY DEF typeVars
<1> QED  BY <1>1, Zenon DEF CoachInv, TeamOK, Quotas, Has

LEMMA CoachStepInv == CoachInv /\ [OnlineCoachNext]_ovars => CoachInv'
<1> SUFFICES ASSUME CoachInv, [OnlineCoachNext]_ovars PROVE CoachInv'
  OBVIOUS
<1>1. CASE \E u \in Unum, t \in Types : change_player_type(u, t) \/ trainer_change_player_type(u, t)
  BY <1>1, CoachChanges, TrainerChanges, Zenon
<1>2. CASE KickOffTypes \/ NewPlayer
  BY <1>2, KickOffKeeps, NewPlayerKeeps
<1>3. CASE \E w \in {"inside", "outside"} : team_graphic(w)
  BY <1>3, TypesAlone, Zenon DEF team_graphic, typeVars
<1>4. CASE MessagesNext
  <2>1. UNCHANGED typeVars
    BY <1>4, Zenon DEF MessagesNext, say, sayFreeform, CoachStep, CoachMode, typeVars
  <2> QED  BY <2>1, TypesAlone
<1>5. CASE UNCHANGED ovars
  BY <1>5, TypesAlone DEF ovars, typeVars
<1> QED  BY <1>1, <1>2, <1>3, <1>4, <1>5, Zenon DEF OnlineCoachNext, TypesNext

\* The record of a team keeps its type and its quotas.
THEOREM CoachInvHolds == CoachSpec => []CoachInv
  BY CoachInitInv, CoachStepInv, PTL DEF CoachSpec

\* As long as only the coach and the server change types, no limited type has
\* more than pt_max players and the coach makes at most subs_max substitutions
\* (TypeQuota), for all sizes of the team, numbers of types and limits.
THEOREM TypeQuotaHolds == CoachSpec => []TypeQuota
<1>1. CoachInv => TypeQuota
  <2>1. \A t \in Types : Having(t) = Has(types, t)
    BY DEF Having, Has
  <2> QED  BY <2>1, Zenon DEF CoachInv, TypeQuota, Quotas
<1> QED  BY <1>1, CoachInvHolds, PTL

------------------------------------------------------------------------------
(* The coach language.  A type system of the grammar: each symbol changes   *)
(* the shape of the builder's stack, and a derivation leads from the empty  *)
(* stack to a finished message.                                             *)

\* The value of a key that is in one table only.
LEMMA MergedAt ==
    ASSUME NEW T, NEW t \in T, NEW c \in DOMAIN t,
           \A x \in T : c \in DOMAIN x => x = t
    PROVE  c \in DOMAIN Merged(T) /\ Merged(T)[c] = t[c]
<1>1. c \in UNION {DOMAIN x : x \in T}
  OBVIOUS
<1>2. (CHOOSE x \in T : c \in DOMAIN x) = t
  BY Zenon
<1> QED  BY <1>1, <1>2 DEF Merged

\* The keys of the tables of calls.
LEMMA CallNames ==
    /\ DOMAIN MessageCalls = {"MetaMsg", "MetaTokenVer", "DefineMsg", "DefineCond", "DefineDir", "DefineReg",
          "DefineAct"}
    /\ DOMAIN TokenCalls = {"FreeformMsg", "UnsuppMsg", "InfoMsg", "AdviceMsg", "TokenRule", "TokenClear"}
    /\ DOMAIN ActionCalls = {"ActPos", "ActHome", "ActBallToReg", "ActBallToPlayer", "ActMark",
          "ActMarkLinePlayer", "ActMarkLineReg", "ActOffsideLine", "ActHetType", "ActNamed"}
    /\ DOMAIN ActionCallsOfVersion8 = {"ActPassReg", "ActPassUNum", "ActDribble", "ActClear", "ActShoot", "ActHold",
          "ActIntercept", "ActTackle"}
    /\ DOMAIN DirectiveCalls = {"DirComm", "DirNamed"}
    /\ DOMAIN ConditionCalls = {"CondTrue", "CondFalse", "CondPlayerPos", "CondBallPos", "CondBallOwner",
          "CondPlayMode", "CondAnd", "CondOr", "CondNot", "CondNamed"}
    /\ DOMAIN CompareCalls = {"CondTime", "CondOppGoal", "CondOurGoal", "CondGoalDiff", "CondUNum",
          "AddToCondList", "CreateCondList"}
    /\ DOMAIN RegionCalls = {"RegNull", "RegQuad", "RegArc", "RegUnion", "RegNamed", "RegPoint", "RegTri",
          "RegRec"}
    /\ DOMAIN PointCalls = {"PointSimple", "PointRel", "PointBall", "PointPlayer", "PointArith", "UNum",
          "UNumSet", "BallMoveToken"}
    /\ DOMAIN RuleCalls = {"RuleMsg", "ActivateRules", "RuleID", "RuleIDList", "RuleIDListALL", "DelMsg",
          "DefineModelRule", "DefineDirectiveRule", "SimpleRule", "NestedRule", "IDRule"}
  BY DEF MessageCalls, TokenCalls, ActionCalls, ActionCallsOfVersion8, DirectiveCalls,
         ConditionCalls, CompareCalls, RegionCalls, PointCalls, RuleCalls

\* No call is in two tables.
LEMMA CallsApart ==
    ASSUME NEW t \in CallTables, NEW x \in CallTables, NEW c, c \in DOMAIN t, c \in DOMAIN x
    PROVE  x = t
<1>1. CASE t = MessageCalls
  BY <1>1, CallNames DEF CallTables
<1>2. CASE t = TokenCalls
  BY <1>2, CallNames DEF CallTables
<1>3. CASE t = ActionCalls
  BY <1>3, CallNames DEF CallTables
<1>4. CASE t = ActionCallsOfVersion8
  BY <1>4, CallNames DEF CallTables
<1>5. CASE t = DirectiveCalls
  BY <1>5, CallNames DEF CallTables
<1>6. CASE t = ConditionCalls
  BY <1>6, CallNames DEF CallTables
<1>7. CASE t = CompareCalls
  BY <1>7, CallNames DEF CallTables
<1>8. CASE t = RegionCalls
  BY <1>8, CallNames DEF CallTables
<1>9. CASE t = PointCalls
  BY <1>9, CallNames DEF CallTables
<1>10. CASE t = RuleCalls
  BY <1>10, CallNames DEF CallTables
<1> QED  BY <1>1, <1>2, <1>3, <1>4, <1>5, <1>6, <1>7, <1>8, <1>9, <1>10 DEF CallTables

\* What a call takes is in its own table.
LEMMA TakesAt ==
    ASSUME NEW t \in CallTables, NEW c \in DOMAIN t
    PROVE  c \in Calls /\ Takes[c] = t[c]
  BY CallsApart, MergedAt DEF Takes, Calls

\* What a call takes and the type of what it adds; what makes a message.
Builds(c, groups, type) == c \in Calls \ Messages /\ Takes[c] = groups /\ Type(c) = type
Speaks(c, groups) == c \in Calls \cap Messages /\ Takes[c] = groups

\* What each of MessageCalls takes, and what it adds or makes.
LEMMA MessageCallsAre ==
    /\ Speaks("MetaMsg", <<Many("META")>>)
    /\ Builds("MetaTokenVer", <<>>, "META")
    /\ Speaks("DefineMsg", <<Many("DEF")>>)
    /\ Builds("DefineCond", <<One("COND")>>, "DEF")
    /\ Builds("DefineDir", <<One("DIR")>>, "DEF")
    /\ Builds("DefineReg", <<One("REG")>>, "DEF")
    /\ Builds("DefineAct", <<One("ACTION")>>, "DEF")
<1>1. \A c \in DOMAIN MessageCalls : c \in Calls /\ Takes[c] = MessageCalls[c]
  BY TakesAt DEF CallTables
<1> QED  BY <1>1, CallNames DEF Builds, Speaks, Messages, Type, MessageCalls

\* What each of TokenCalls takes, and what it adds or makes.
LEMMA TokenCallsAre ==
    /\ Speaks("FreeformMsg", <<>>)
    /\ Speaks("UnsuppMsg", <<>>)
    /\ Speaks("InfoMsg", <<Many("TOKEN")>>)
    /\ Speaks("AdviceMsg", <<Many("TOKEN")>>)
    /\ Builds("TokenRule", <<Many("DIR"), One("COND")>>, "TOKEN")
    /\ Builds("TokenClear", <<>>, "TOKEN")
<1>1. \A c \in DOMAIN TokenCalls : c \in Calls /\ Takes[c] = TokenCalls[c]
  BY TakesAt DEF CallTables
<1> QED  BY <1>1, CallNames DEF Builds, Speaks, Messages, Type, TokenCalls

\* What each of ActionCalls takes, and what it adds or makes.
LEMMA ActionCallsAre ==
    /\ Builds("ActPos", <<One("REG")>>, "ACTION")
    /\ Builds("ActHome", <<One("REG")>>, "ACTION")
    /\ Builds("ActBallToReg", <<Many("BMT"), One("REG")>>, "ACTION")
    /\ Builds("ActBallToPlayer", <<One("UNUMSET")>>, "ACTION")
    /\ Builds("ActMark", <<One("UNUMSET")>>, "ACTION")
    /\ Builds("ActMarkLinePlayer", <<One("UNUMSET")>>, "ACTION")
    /\ Builds("ActMarkLineReg", <<One("REG")>>, "ACTION")
    /\ Builds("ActOffsideLine", <<One("REG")>>, "ACTION")
    /\ Builds("ActHetType", <<>>, "ACTION")
    /\ Builds("ActNamed", <<>>, "ACTION")
<1>1. \A c \in DOMAIN ActionCalls : c \in Calls /\ Takes[c] = ActionCalls[c]
  BY TakesAt DEF CallTables
<1> QED  BY <1>1, CallNames DEF Builds, Speaks, Messages, Type, ActionCalls

\* What each of ActionCallsOfVersion8 takes, and what it adds or makes.
LEMMA ActionCallsOfVersion8Are ==
    /\ Builds("ActPassReg", <<One("REG")>>, "ACTION")
    /\ Builds("ActPassUNum", <<One("UNUMSET")>>, "ACTION")
    /\ Builds("ActDribble", <<One("REG")>>, "ACTION")
    /\ Builds("ActClear", <<One("REG")>>, "ACTION")
    /\ Builds("ActShoot", <<>>, "ACTION")
    /\ Builds("ActHold", <<>>, "ACTION")
    /\ Builds("ActIntercept", <<>>, "ACTION")
    /\ Builds("ActTackle", <<One("UNUMSET")>>, "ACTION")
<1>1. \A c \in DOMAIN ActionCallsOfVersion8 : c \in Calls /\ Takes[c] = ActionCallsOfVersion8[c]
  BY TakesAt DEF CallTables
<1> QED  BY <1>1, CallNames DEF Builds, Speaks, Messages, Type, ActionCallsOfVersion8

\* What each of DirectiveCalls takes, and what it adds or makes.
LEMMA DirectiveCallsAre ==
    /\ Builds("DirComm", <<Many("ACTION"), One("UNUMSET")>>, "DIR")
    /\ Builds("DirNamed", <<>>, "DIR")
<1>1. \A c \in DOMAIN DirectiveCalls : c \in Calls /\ Takes[c] = DirectiveCalls[c]
  BY TakesAt DEF CallTables
<1> QED  BY <1>1, CallNames DEF Builds, Speaks, Messages, Type, DirectiveCalls

\* What each of ConditionCalls takes, and what it adds or makes.
LEMMA ConditionCallsAre ==
    /\ Builds("CondTrue", <<>>, "COND")
    /\ Builds("CondFalse", <<>>, "COND")
    /\ Builds("CondPlayerPos", <<One("REG"), One("UNUMSET")>>, "COND")
    /\ Builds("CondBallPos", <<One("REG")>>, "COND")
    /\ Builds("CondBallOwner", <<One("UNUMSET")>>, "COND")
    /\ Builds("CondPlayMode", <<>>, "COND")
    /\ Builds("CondAnd", <<One("CONDLIST")>>, "COND")
    /\ Builds("CondOr", <<One("CONDLIST")>>, "COND")
    /\ Builds("CondNot", <<One("COND")>>, "COND")
    /\ Builds("CondNamed", <<>>, "COND")
<1>1. \A c \in DOMAIN ConditionCalls : c \in Calls /\ Takes[c] = ConditionCalls[c]
  BY TakesAt DEF CallTables
<1> QED  BY <1>1, CallNames DEF Builds, Speaks, Messages, Type, ConditionCalls

\* What each of CompareCalls takes, and what it adds or makes.
LEMMA CompareCallsAre ==
    /\ Builds("CondTime", <<>>, "COND")
    /\ Builds("CondOppGoal", <<>>, "COND")
    /\ Builds("CondOurGoal", <<>>, "COND")
    /\ Builds("CondGoalDiff", <<>>, "COND")
    /\ Builds("CondUNum", <<One("UNUMSET")>>, "COND")
    /\ Builds("AddToCondList", <<One("COND"), One("CONDLIST")>>, "CONDLIST")
    /\ Builds("CreateCondList", <<One("COND")>>, "CONDLIST")
<1>1. \A c \in DOMAIN CompareCalls : c \in Calls /\ Takes[c] = CompareCalls[c]
  BY TakesAt DEF CallTables
<1> QED  BY <1>1, CallNames DEF Builds, Speaks, Messages, Type, CompareCalls

\* What each of RegionCalls takes, and what it adds or makes.
LEMMA RegionCallsAre ==
    /\ Builds("RegNull", <<>>, "REG")
    /\ Builds("RegQuad", <<One("PT"), One("PT"), One("PT"), One("PT")>>, "REG")
    /\ Builds("RegArc", <<One("PT")>>, "REG")
    /\ Builds("RegUnion", <<Many("REG")>>, "REG")
    /\ Builds("RegNamed", <<>>, "REG")
    /\ Builds("RegPoint", <<One("PT")>>, "REG")
    /\ Builds("RegTri", <<One("PT"), One("PT"), One("PT")>>, "REG")
    /\ Builds("RegRec", <<One("PT"), One("PT")>>, "REG")
<1>1. \A c \in DOMAIN RegionCalls : c \in Calls /\ Takes[c] = RegionCalls[c]
  BY TakesAt DEF CallTables
<1> QED  BY <1>1, CallNames DEF Builds, Speaks, Messages, Type, RegionCalls

\* What each of PointCalls takes, and what it adds or makes.
LEMMA PointCallsAre ==
    /\ Builds("PointSimple", <<>>, "PT")
    /\ Builds("PointRel", <<One("PT")>>, "PT")
    /\ Builds("PointBall", <<>>, "PT")
    /\ Builds("PointPlayer", <<>>, "PT")
    /\ Builds("PointArith", <<One("PT"), One("PT")>>, "PT")
    /\ Builds("UNum", <<>>, "UNUM")
    /\ Builds("UNumSet", <<Many("UNUM")>>, "UNUMSET")
    /\ Builds("BallMoveToken", <<>>, "BMT")
<1>1. \A c \in DOMAIN PointCalls : c \in Calls /\ Takes[c] = PointCalls[c]
  BY TakesAt DEF CallTables
<1> QED  BY <1>1, CallNames DEF Builds, Speaks, Messages, Type, PointCalls

\* What each of RuleCalls takes, and what it adds or makes.
LEMMA RuleCallsAre ==
    /\ Speaks("RuleMsg", <<Many("ACTIVATE")>>)
    /\ Builds("ActivateRules", <<One("RIDLIST")>>, "ACTIVATE")
    /\ Builds("RuleID", <<>>, "RID")
    /\ Builds("RuleIDList", <<Many("RID")>>, "RIDLIST")
    /\ Builds("RuleIDListALL", <<>>, "RIDLIST")
    /\ Speaks("DelMsg", <<One("RIDLIST")>>)
    /\ Builds("DefineModelRule", <<One("RULE")>>, "DEF")
    /\ Builds("DefineDirectiveRule", <<One("RULE")>>, "DEF")
    /\ Builds("SimpleRule", <<Many("DIR"), One("COND")>>, "RULE")
    /\ Builds("NestedRule", <<Many("RULE"), One("COND")>>, "RULE")
    /\ Builds("IDRule", <<One("RIDLIST")>>, "RULE")
<1>1. \A c \in DOMAIN RuleCalls : c \in Calls /\ Takes[c] = RuleCalls[c]
  BY TakesAt DEF CallTables
<1> QED  BY <1>1, CallNames DEF Builds, Speaks, Messages, Type, RuleCalls

-----------------------------------------------------------------------------
(* The builder's stack as the grammar sees it: a shape is a sequence of    *)
(* entries, each one item of a type (One) or a run of them (Many).         *)
ItemTypes == {"META", "DEF", "TOKEN", "ACTION", "DIR", "COND", "CONDLIST", "REG", "PT",
              "UNUM", "UNUMSET", "BMT", "ACTIVATE", "RID", "RIDLIST", "RULE"}
Entries == [type : ItemTypes, many : BOOLEAN]
Shapes == Seq(Entries)
Made == <<One("MADE")>>       \* the message is made, its version not yet set
Over == <<One("OVER")>>       \* and set

Clean(a, t) == a = <<>> \/ a[Len(a)].type # t
Firm(a) == Clean(a, "UNUM") /\ Clean(a, "REG") /\ Clean(a, "RID")

\* One more item: an entry of its own, or one more of a run.  (A region of
\* its own has no region below it.)
AddsOne(a, t, b) == b = Append(a, One(t)) /\ (t = "REG" => Clean(a, t))
RunOver(m, a, t, b) == Clean(m, t) /\ (a = m \/ a = Append(m, Many(t))) /\ b = Append(m, Many(t))
AddsToRun(a, t, b) == \E m \in Shapes : RunOver(m, a, t, b)
Adds(a, t, b) == AddsOne(a, t, b) \/ AddsToRun(a, t, b)

Pop(a, g, m) == m \in Shapes /\ a = Append(m, g) /\ (g.many => Clean(m, g.type))
PopsBy(q, a, gs, m) ==
  /\ q \in [0 .. Len(gs) -> Shapes] /\ q[0] = a /\ q[Len(gs)] = m
  /\ \A i \in 1 .. Len(gs) : Pop(q[i - 1], gs[i], q[i])
Pops(a, gs, m) == \E q : PopsBy(q, a, gs, m)

\* What each symbol that stands for items makes of the stack.
Makes ==
  [active |-> One("ACTIVATE"), ids |-> One("RIDLIST"), define |-> One("DEF"), rule |-> One("RULE"),
   token |-> One("TOKEN"), action |-> One("ACTION"), directive |-> One("DIR"),
   condition |-> One("COND"), conditions |-> One("CONDLIST"), region |-> One("REG"),
   point |-> One("PT"), sum |-> One("PT"), unumset |-> One("UNUMSET"), unum |-> One("UNUM"),
   actives |-> Many("ACTIVATE"), metas |-> Many("META"), defines |-> Many("DEF"),
   rules |-> Many("RULE"), tokens |-> Many("TOKEN"), actions |-> Many("ACTION"),
   directives |-> Many("DIR"), regions |-> Many("REG"), unums |-> Many("UNUM"),
   bmoves |-> Many("BMT"), idlist |-> Many("RID")]
Anywhere == {"region", "regions", "point", "sum", "unum", "unums", "bmoves", "idlist", "metas"}

VersionEffect(a, b) == (a \in Shapes /\ b = a) \/ (a = Made /\ b = Over)
MessageEffect(x, a, b) == a \in Shapes /\ Pops(a, Takes[x], <<>>) /\ b = Made
CallEffect(x, a, b) ==
  a \in Shapes /\ b \in Shapes /\ \E m \in Shapes : Pops(a, Takes[x], m) /\ Adds(m, Type(x), b)
PhraseEffect(x, a, b) ==
  /\ a \in Shapes /\ b \in Shapes /\ (x \in Anywhere \/ Firm(a))
  /\ IF Makes[x].many THEN AddsToRun(a, Makes[x].type, b) ELSE Adds(a, Makes[x].type, b)
Symbols == DOMAIN Syntax \cup Calls \cup Versions
Effect(x, a, b) ==
  \/ x \in Versions /\ VersionEffect(a, b)
  \/ x \in Messages /\ MessageEffect(x, a, b)
  \/ x \in Calls \ Messages /\ CallEffect(x, a, b)
  \/ x = "message" /\ a = <<>> /\ b = Over
  \/ x \in DOMAIN Syntax \ {"message"} /\ PhraseEffect(x, a, b)

\* The rest of a derivation leads from one shape to another.
LeadsBy(h, a, xs, b) ==
  /\ xs \in Seq(Symbols) /\ h[1] = a /\ h[Len(xs) + 1] = b
  /\ \A i \in 1 .. Len(xs) : Effect(xs[i], h[i], h[i + 1])
Leads(a, xs, b) == \E h : LeadsBy(h, a, xs, b)

\* Nothing, one, two, three or four groups off a shape.
LEMMA PopsNone ==
    ASSUME NEW a \in Shapes
    PROVE  Pops(a, <<>>, a)
<1> DEFINE q == [i \in 0 .. 0 |-> a]
<1>1. PopsBy(q, a, <<>>, a)
  BY DEF PopsBy
<1> QED  BY <1>1 DEF Pops

LEMMA PopsOne ==
    ASSUME NEW a \in Shapes, NEW g, NEW m \in Shapes, Pop(a, g, m)
    PROVE  Pops(a, <<g>>, m)
<1> DEFINE q == [i \in 0 .. 1 |-> IF i = 0 THEN a ELSE m]
<1>1. q \in [0 .. Len(<<g>>) -> Shapes] /\ q[0] = a /\ q[Len(<<g>>)] = m
  OBVIOUS
<1>2. \A i \in 1 .. Len(<<g>>) : Pop(q[i - 1], <<g>>[i], q[i])
  OBVIOUS
<1>3. PopsBy(q, a, <<g>>, m)
  BY <1>1, <1>2 DEF PopsBy
<1> QED  BY <1>3 DEF Pops

LEMMA PopsTwo ==
    ASSUME NEW a \in Shapes, NEW g, NEW m \in Shapes, Pop(a, g, m),
           NEW g2, NEW m2 \in Shapes, Pop(m, g2, m2)
    PROVE  Pops(a, <<g, g2>>, m2)
<1> DEFINE q == [i \in 0 .. 2 |-> IF i = 0 THEN a ELSE IF i = 1 THEN m ELSE m2]
           gs == <<g, g2>>
<1>1. q \in [0 .. Len(gs) -> Shapes] /\ q[0] = a /\ q[Len(gs)] = m2
  OBVIOUS
<1>2. q[1] = m /\ q[2] = m2 /\ gs[1] = g /\ gs[2] = g2 /\ Len(gs) = 2
  OBVIOUS
<1> HIDE DEF q, gs
<1>3. \A i \in 1 .. Len(gs) : Pop(q[i - 1], gs[i], q[i])
  <2> TAKE i \in 1 .. Len(gs)
  <2>1. i = 1 \/ i = 2
    BY <1>2
  <2> QED  BY <1>1, <1>2, <2>1
<1>4. PopsBy(q, a, gs, m2)
  BY <1>1, <1>3 DEF PopsBy
<1> QED  BY <1>4 DEF Pops, gs

LEMMA PopsThree ==
    ASSUME NEW a \in Shapes, NEW g, NEW m \in Shapes, Pop(a, g, m),
           NEW g2, NEW m2 \in Shapes, Pop(m, g2, m2), NEW g3, NEW m3 \in Shapes, Pop(m2, g3, m3)
    PROVE  Pops(a, <<g, g2, g3>>, m3)
<1> DEFINE q == [i \in 0 .. 3 |-> IF i = 0 THEN a ELSE IF i = 1 THEN m ELSE IF i = 2 THEN m2 ELSE m3]
           gs == <<g, g2, g3>>
<1>1. q \in [0 .. Len(gs) -> Shapes] /\ q[0] = a /\ q[Len(gs)] = m3
  OBVIOUS
<1>2. q[1] = m /\ q[2] = m2 /\ q[3] = m3 /\ gs[1] = g /\ gs[2] = g2 /\ gs[3] = g3 /\ Len(gs) = 3
  OBVIOUS
<1> HIDE DEF q, gs
<1>3. \A i \in 1 .. Len(gs) : Pop(q[i - 1], gs[i], q[i])
  <2> TAKE i \in 1 .. Len(gs)
  <2>1. i = 1 \/ i = 2 \/ i = 3
    BY <1>2
  <2> QED  BY <1>1, <1>2, <2>1
<1>4. PopsBy(q, a, gs, m3)
  BY <1>1, <1>3 DEF PopsBy
<1> QED  BY <1>4 DEF Pops, gs

LEMMA PopsFour ==
    ASSUME NEW a \in Shapes, NEW g, NEW m \in Shapes, Pop(a, g, m),
           NEW g2, NEW m2 \in Shapes, Pop(m, g2, m2), NEW g3, NEW m3 \in Shapes, Pop(m2, g3, m3),
           NEW g4, NEW m4 \in Shapes, Pop(m3, g4, m4)
    PROVE  Pops(a, <<g, g2, g3, g4>>, m4)
<1> DEFINE q == [i \in 0 .. 4 |-> IF i = 0 THEN a ELSE IF i = 1 THEN m ELSE IF i = 2 THEN m2
                                  ELSE IF i = 3 THEN m3 ELSE m4]
           gs == <<g, g2, g3, g4>>
<1>1. q \in [0 .. Len(gs) -> Shapes] /\ q[0] = a /\ q[Len(gs)] = m4
  OBVIOUS
<1>2. q[1] = m /\ q[2] = m2 /\ q[3] = m3 /\ q[4] = m4
      /\ gs[1] = g /\ gs[2] = g2 /\ gs[3] = g3 /\ gs[4] = g4 /\ Len(gs) = 4
  OBVIOUS
<1> HIDE DEF q, gs
<1>3. \A i \in 1 .. Len(gs) : Pop(q[i - 1], gs[i], q[i])
  <2> TAKE i \in 1 .. Len(gs)
  <2>1. i = 1 \/ i = 2 \/ i = 3 \/ i = 4
    BY <1>2
  <2> QED  BY <1>1, <1>2, <2>1
<1>4. PopsBy(q, a, gs, m4)
  BY <1>1, <1>3 DEF PopsBy
<1> QED  BY <1>4 DEF Pops, gs

-----------------------------------------------------------------------------
(* Derivations put together.                                               *)
LEMMA LeadsOne ==
    ASSUME NEW a, NEW b, NEW x \in Symbols, Effect(x, a, b)
    PROVE  Leads(a, <<x>>, b)
<1> DEFINE h == [i \in 1 .. 2 |-> IF i = 1 THEN a ELSE b]
           xs == <<x>>
<1>1. xs \in Seq(Symbols) /\ Len(xs) = 1 /\ xs[1] = x /\ h[1] = a /\ h[2] = b
  OBVIOUS
<1> HIDE DEF h, xs
<1>2. \A i \in 1 .. Len(xs) : Effect(xs[i], h[i], h[i + 1])
  <2> TAKE i \in 1 .. Len(xs)
  <2>1. i = 1 /\ i + 1 = 2
    BY <1>1
  <2> QED  BY <1>1, <2>1
<1>3. h[Len(xs) + 1] = b
  BY <1>1
<1>4. LeadsBy(h, a, xs, b)
  BY <1>1, <1>2, <1>3 DEF LeadsBy
<1> QED  BY <1>4 DEF Leads, xs

\* One part of the derivation after another.
LEMMA LeadsOn ==
    ASSUME NEW a, NEW xs, NEW m, NEW ys, NEW b, Leads(a, xs, m), Leads(m, ys, b)
    PROVE  Leads(a, xs \o ys, b)
<1>1. PICK h : LeadsBy(h, a, xs, m)
  BY DEF Leads
<1>2. PICK k : LeadsBy(k, m, ys, b)
  BY DEF Leads
<1> DEFINE zs == xs \o ys
           n == Len(xs)
           f == [i \in 1 .. n + Len(ys) + 1 |-> IF i <= n + 1 THEN h[i] ELSE k[i - n]]
<1>3. xs \in Seq(Symbols) /\ ys \in Seq(Symbols) /\ n \in Nat /\ Len(ys) \in Nat
  BY <1>1, <1>2 DEF LeadsBy
<1>4. zs \in Seq(Symbols) /\ Len(zs) = n + Len(ys)
      /\ (\A i \in 1 .. n : zs[i] = xs[i]) /\ \A i \in 1 .. Len(ys) : zs[n + i] = ys[i]
  BY <1>3
<1>5. h[n + 1] = k[1] /\ h[1] = a /\ k[Len(ys) + 1] = b
  BY <1>1, <1>2 DEF LeadsBy
<1>6. (\A i \in 1 .. n : Effect(xs[i], h[i], h[i + 1]))
      /\ \A i \in 1 .. Len(ys) : Effect(ys[i], k[i], k[i + 1])
  BY <1>1, <1>2 DEF LeadsBy
<1>7. (\A i \in 1 .. n + 1 : f[i] = h[i]) /\ \A i \in 1 .. Len(ys) + 1 : f[n + i] = k[i]
  <2>1. \A i \in 1 .. n + 1 : f[i] = h[i]
    BY <1>3
  <2>2. \A i \in 1 .. Len(ys) + 1 : f[n + i] = k[i]
    <3> TAKE i \in 1 .. Len(ys) + 1
    <3>1. CASE i = 1
      BY <3>1, <1>3, <1>5, <2>1
    <3>2. CASE i # 1
      <4>1. n + i \in 1 .. n + Len(ys) + 1 /\ ~(n + i <= n + 1) /\ (n + i) - n = i
        BY <3>2, <1>3
      <4> QED  BY <4>1
    <3> QED  BY <3>1, <3>2
  <2> QED  BY <2>1, <2>2
<1> HIDE DEF f, zs, n
<1>8. \A i \in 1 .. Len(zs) : Effect(zs[i], f[i], f[i + 1])
  <2> TAKE i \in 1 .. Len(zs)
  <2>1. CASE i <= n
    <3>1. i \in 1 .. n /\ i \in 1 .. n + 1 /\ i + 1 \in 1 .. n + 1
      BY <2>1, <1>3, <1>4
    <3> QED  BY <3>1, <1>4, <1>6, <1>7
  <2>2. CASE ~(i <= n)
    <3> DEFINE j == i - n
    <3>1. j \in 1 .. Len(ys) /\ j \in 1 .. Len(ys) + 1 /\ j + 1 \in 1 .. Len(ys) + 1
          /\ n + j = i /\ n + (j + 1) = i + 1
      BY <2>2, <1>3, <1>4
    <3> HIDE DEF j
    <3>2. zs[i] = ys[j] /\ f[i] = k[j] /\ f[i + 1] = k[j + 1]
      BY <3>1, <1>4, <1>7
    <3> QED  BY <3>1, <3>2, <1>6
  <2> QED  BY <2>1, <2>2
<1>9. f[1] = a /\ f[Len(zs) + 1] = b
  <2>1. 1 \in 1 .. n + 1 /\ Len(ys) + 1 \in 1 .. Len(ys) + 1 /\ n + (Len(ys) + 1) = Len(zs) + 1
    BY <1>3, <1>4
  <2> QED  BY <2>1, <1>5, <1>7
<1>10. LeadsBy(f, a, zs, b)
  BY <1>4, <1>8, <1>9 DEF LeadsBy
<1> QED  BY <1>10 DEF Leads, zs

\* Two sequences of one length with the same elements are equal.
LEMMA SameSeq ==
    ASSUME NEW S, NEW s \in Seq(S), NEW r \in Seq(S), Len(s) = Len(r),
           \A i \in 1 .. Len(s) : s[i] = r[i]
    PROVE  s = r
  OBVIOUS

\* A right-hand side of two to six symbols is its symbols one after the other.
LEMMA TwoInARow ==
    ASSUME NEW S, NEW x \in S, NEW y \in S
    PROVE  <<x>> \o <<y>> = <<x, y>>
<1> DEFINE s == <<x>> \o <<y>>
           r == <<x, y>>
<1>1. <<x>> \in Seq(S) /\ <<y>> \in Seq(S) /\ Len(<<x>>) = 1 /\ Len(<<y>>) = 1
  OBVIOUS
<1>2. s \in Seq(S) /\ Len(s) = 2
  BY <1>1
<1>3. s[1] = x /\ s[2] = y
  BY <1>1
<1>4. r \in Seq(S) /\ Len(r) = 2 /\ r[1] = x /\ r[2] = y
  OBVIOUS
<1> HIDE DEF s, r
<1>5. \A i \in 1 .. Len(s) : s[i] = r[i]
  <2> TAKE i \in 1 .. Len(s)
  <2>1. i = 1 \/ i = 2
    BY <1>2
  <2> QED  BY <2>1, <1>3, <1>4
<1>6. s = r
  BY <1>2, <1>4, <1>5, SameSeq
<1> QED  BY <1>6 DEF s, r

LEMMA ThreeInARow ==
    ASSUME NEW S, NEW x \in S, NEW y \in S, NEW z \in S
    PROVE  <<x>> \o <<y, z>> = <<x, y, z>>
<1> DEFINE s == <<x>> \o <<y, z>>
           r == <<x, y, z>>
<1>1. <<x>> \in Seq(S) /\ <<y, z>> \in Seq(S) /\ Len(<<x>>) = 1 /\ Len(<<y, z>>) = 2
  OBVIOUS
<1>2. s \in Seq(S) /\ Len(s) = 3
  BY <1>1
<1>3. s[1] = x /\ s[2] = y /\ s[3] = z
  BY <1>1
<1>4. r \in Seq(S) /\ Len(r) = 3 /\ r[1] = x /\ r[2] = y /\ r[3] = z
  OBVIOUS
<1> HIDE DEF s, r
<1>5. \A i \in 1 .. Len(s) : s[i] = r[i]
  <2> TAKE i \in 1 .. Len(s)
  <2>1. i = 1 \/ i = 2 \/ i = 3
    BY <1>2
  <2> QED  BY <2>1, <1>3, <1>4
<1>6. s = r
  BY <1>2, <1>4, <1>5, SameSeq
<1> QED  BY <1>6 DEF s, r

\* ... and leads where they lead one after the other.
LEMMA LeadsTwo ==
    ASSUME NEW a, NEW b, NEW c, NEW x \in Symbols, NEW y \in Symbols, Effect(x, a, b), Effect(y, b, c)
    PROVE  Leads(a, <<x, y>>, c)
<1>1. Leads(a, <<x>> \o <<y>>, c)
  BY LeadsOne, LeadsOn
<1>2. <<x>> \o <<y>> = <<x, y>>
  BY TwoInARow
<1> QED  BY <1>1, <1>2

LEMMA LeadsThree ==
    ASSUME NEW a, NEW b, NEW c, NEW d, NEW x \in Symbols, NEW y \in Symbols, NEW z \in Symbols,
           Effect(x, a, b), Effect(y, b, c), Effect(z, c, d)
    PROVE  Leads(a, <<x, y, z>>, d)
<1>1. Leads(a, <<x>> \o <<y, z>>, d)
  BY LeadsOne, LeadsTwo, LeadsOn
<1>2. <<x>> \o <<y, z>> = <<x, y, z>>
  BY ThreeInARow
<1> QED  BY <1>1, <1>2

LEMMA FourInARow ==
    ASSUME NEW S, NEW x \in S, NEW y \in S, NEW z \in S, NEW u \in S
    PROVE  <<x, y>> \o <<z, u>> = <<x, y, z, u>>
<1> DEFINE s == <<x, y>> \o <<z, u>>
           r == <<x, y, z, u>>
<1>1. <<x, y>> \in Seq(S) /\ <<z, u>> \in Seq(S) /\ Len(<<x, y>>) = 2 /\ Len(<<z, u>>) = 2
  OBVIOUS
<1>2. s \in Seq(S) /\ Len(s) = 4
  BY <1>1
<1>3. s[1] = x /\ s[2] = y /\ s[3] = z /\ s[4] = u
  BY <1>1
<1>4. r \in Seq(S) /\ Len(r) = 4 /\ r[1] = x /\ r[2] = y /\ r[3] = z /\ r[4] = u
  OBVIOUS
<1> HIDE DEF s, r
<1>5. \A i \in 1 .. Len(s) : s[i] = r[i]
  <2> TAKE i \in 1 .. Len(s)
  <2>1. i \in {1, 2, 3, 4}
    BY <1>2
  <2> QED  BY <2>1, <1>3, <1>4
<1>6. s = r
  BY <1>2, <1>4, <1>5, SameSeq
<1> QED  BY <1>6 DEF s, r

LEMMA FiveInARow ==
    ASSUME NEW S, NEW x \in S, NEW y \in S, NEW z \in S, NEW u \in S, NEW v \in S
    PROVE  <<x, y>> \o <<z, u, v>> = <<x, y, z, u, v>>
<1> DEFINE s == <<x, y>> \o <<z, u, v>>
           r == <<x, y, z, u, v>>
<1>1. <<x, y>> \in Seq(S) /\ <<z, u, v>> \in Seq(S) /\ Len(<<x, y>>) = 2 /\ Len(<<z, u, v>>) = 3
  OBVIOUS
<1>2. s \in Seq(S) /\ Len(s) = 5
  BY <1>1
<1>3. s[1] = x /\ s[2] = y /\ s[3] = z /\ s[4] = u /\ s[5] = v
  BY <1>1
<1>4. r \in Seq(S) /\ Len(r) = 5 /\ r[1] = x /\ r[2] = y /\ r[3] = z /\ r[4] = u /\ r[5] = v
  OBVIOUS
<1> HIDE DEF s, r
<1>5. \A i \in 1 .. Len(s) : s[i] = r[i]
  <2> TAKE i \in 1 .. Len(s)
  <2>1. i \in {1, 2, 3, 4, 5}
    BY <1>2
  <2> QED  BY <2>1, <1>3, <1>4
<1>6. s = r
  BY <1>2, <1>4, <1>5, SameSeq
<1> QED  BY <1>6 DEF s, r

LEMMA SixInARow ==
    ASSUME NEW S, NEW x \in S, NEW y \in S, NEW z \in S, NEW u \in S, NEW v \in S, NEW w \in S
    PROVE  <<x, y, z>> \o <<u, v, w>> = <<x, y, z, u, v, w>>
<1> DEFINE s == <<x, y, z>> \o <<u, v, w>>
           r == <<x, y, z, u, v, w>>
<1>1. <<x, y, z>> \in Seq(S) /\ <<u, v, w>> \in Seq(S) /\ Len(<<x, y, z>>) = 3 /\ Len(<<u, v, w>>) = 3
  OBVIOUS
<1>2. s \in Seq(S) /\ Len(s) = 6
  BY <1>1
<1>3. s[1] = x /\ s[2] = y /\ s[3] = z /\ s[4] = u /\ s[5] = v /\ s[6] = w
  BY <1>1
<1>4. r \in Seq(S) /\ Len(r) = 6 /\ r[1] = x /\ r[2] = y /\ r[3] = z /\ r[4] = u /\ r[5] = v /\ r[6] = w
  OBVIOUS
<1> HIDE DEF s, r
<1>5. \A i \in 1 .. Len(s) : s[i] = r[i]
  <2> TAKE i \in 1 .. Len(s)
  <2>1. i \in {1, 2, 3, 4, 5, 6}
    BY <1>2
  <2> QED  BY <2>1, <1>3, <1>4
<1>6. s = r
  BY <1>2, <1>4, <1>5, SameSeq
<1> QED  BY <1>6 DEF s, r

LEMMA LeadsFour ==
    ASSUME NEW a0, NEW a1, NEW a2, NEW a3, NEW a4,
           NEW x \in Symbols, NEW y \in Symbols, NEW z \in Symbols, NEW u \in Symbols,
           Effect(x, a0, a1), Effect(y, a1, a2), Effect(z, a2, a3), Effect(u, a3, a4)
    PROVE  Leads(a0, <<x, y, z, u>>, a4)
<1>1. Leads(a0, <<x, y>> \o <<z, u>>, a4)
  BY LeadsTwo, LeadsOn
<1>2. <<x, y>> \o <<z, u>> = <<x, y, z, u>>
  BY FourInARow
<1> QED  BY <1>1, <1>2

LEMMA LeadsFive ==
    ASSUME NEW a0, NEW a1, NEW a2, NEW a3, NEW a4, NEW a5,
           NEW x \in Symbols, NEW y \in Symbols, NEW z \in Symbols, NEW u \in Symbols, NEW v \in Symbols,
           Effect(x, a0, a1), Effect(y, a1, a2), Effect(z, a2, a3), Effect(u, a3, a4), Effect(v, a4, a5)
    PROVE  Leads(a0, <<x, y, z, u, v>>, a5)
<1>1. Leads(a0, <<x, y>> \o <<z, u, v>>, a5)
  BY LeadsTwo, LeadsThree, LeadsOn
<1>2. <<x, y>> \o <<z, u, v>> = <<x, y, z, u, v>>
  BY FiveInARow
<1> QED  BY <1>1, <1>2

LEMMA LeadsSix ==
    ASSUME NEW a0, NEW a1, NEW a2, NEW a3, NEW a4, NEW a5, NEW a6,
           NEW x \in Symbols, NEW y \in Symbols, NEW z \in Symbols, NEW u \in Symbols, NEW v \in Symbols, NEW w \in Symbols,
           Effect(x, a0, a1), Effect(y, a1, a2), Effect(z, a2, a3), Effect(u, a3, a4), Effect(v, a4, a5), Effect(w, a5, a6)
    PROVE  Leads(a0, <<x, y, z, u, v, w>>, a6)
<1>1. Leads(a0, <<x, y, z>> \o <<u, v, w>>, a6)
  BY LeadsThree, LeadsOn
<1>2. <<x, y, z>> \o <<u, v, w>> = <<x, y, z, u, v, w>>
  BY SixInARow
<1> QED  BY <1>1, <1>2

\* The first symbol of what is left.
LEMMA LeadsHead ==
    ASSUME NEW a, NEW xs, NEW b, Leads(a, xs, b), xs # <<>>
    PROVE  /\ xs \in Seq(Symbols)
           /\ \E m : Effect(Head(xs), a, m) /\ Leads(m, Tail(xs), b)
<1>1. PICK h : LeadsBy(h, a, xs, b)
  BY DEF Leads
<1>2. xs \in Seq(Symbols) /\ Len(xs) \in Nat /\ Len(xs) > 0
  BY <1>1 DEF LeadsBy
<1> DEFINE ys == Tail(xs)
           k == [i \in 1 .. Len(xs) |-> h[i + 1]]
<1>3. ys \in Seq(Symbols) /\ Len(ys) = Len(xs) - 1 /\ (\A i \in 1 .. Len(ys) : ys[i] = xs[i + 1])
      /\ Head(xs) = xs[1]
  BY <1>2
<1>4. \A i \in 1 .. Len(xs) : k[i] = h[i + 1]
  OBVIOUS
<1> HIDE DEF ys, k
<1>5. h[1] = a /\ h[Len(xs) + 1] = b /\ \A i \in 1 .. Len(xs) : Effect(xs[i], h[i], h[i + 1])
  BY <1>1 DEF LeadsBy
<1>6. k[1] = h[2] /\ k[Len(ys) + 1] = b /\ 1 \in 1 .. Len(xs)
  BY <1>2, <1>3, <1>4, <1>5
<1>7. \A i \in 1 .. Len(ys) : Effect(ys[i], k[i], k[i + 1])
  <2> TAKE i \in 1 .. Len(ys)
  <2>1. i \in 1 .. Len(xs) /\ i + 1 \in 1 .. Len(xs)
    BY <1>2, <1>3
  <2>2. ys[i] = xs[i + 1] /\ k[i] = h[i + 1] /\ k[i + 1] = h[(i + 1) + 1]
    BY <2>1, <1>3, <1>4
  <2>3. Effect(xs[i + 1], h[i + 1], h[(i + 1) + 1])
    BY <2>1, <1>5
  <2> QED  BY <2>2, <2>3
<1>8. LeadsBy(k, h[2], ys, b)
  BY <1>3, <1>6, <1>7 DEF LeadsBy
<1>9. Effect(Head(xs), a, h[2])
  <2>1. Effect(xs[1], h[1], h[1 + 1])
    BY <1>5, <1>6
  <2> QED  BY <2>1, <1>3, <1>5
<1> QED  BY <1>2, <1>8, <1>9 DEF Leads, ys

\* Nothing left to derive leads nowhere else.
LEMMA LeadsNowhere ==
    ASSUME NEW a, NEW b, Leads(a, <<>>, b)
    PROVE  a = b
  BY DEF Leads, LeadsBy

\* The symbols of the grammar.
LEMMA SyntaxNames ==
    /\ DOMAIN MessageSyntax = {"message", "actives", "active", "ids", "idlist", "metas"}
    /\ DOMAIN DefineSyntax = {"defines", "define", "rule", "rules", "token", "tokens"}
    /\ DOMAIN ActionSyntax = {"action", "directive", "actions", "directives"}
    /\ DOMAIN ConditionSyntax = {"condition", "conditions"}
    /\ DOMAIN RegionSyntax = {"region", "regions"}
    /\ DOMAIN PointSyntax = {"point", "sum"}
    /\ DOMAIN UNumSyntax = {"unumset", "unums", "unum", "bmoves"}
  BY DEF MessageSyntax, DefineSyntax, ActionSyntax, ConditionSyntax, RegionSyntax, PointSyntax, UNumSyntax

\* No symbol is in two tables.
LEMMA SyntaxApart ==
    ASSUME NEW t \in SyntaxTables, NEW x \in SyntaxTables, NEW c, c \in DOMAIN t, c \in DOMAIN x
    PROVE  x = t
<1>1. CASE t = MessageSyntax
  BY <1>1, SyntaxNames DEF SyntaxTables
<1>2. CASE t = DefineSyntax
  BY <1>2, SyntaxNames DEF SyntaxTables
<1>3. CASE t = ActionSyntax
  BY <1>3, SyntaxNames DEF SyntaxTables
<1>4. CASE t = ConditionSyntax
  BY <1>4, SyntaxNames DEF SyntaxTables
<1>5. CASE t = RegionSyntax
  BY <1>5, SyntaxNames DEF SyntaxTables
<1>6. CASE t = PointSyntax
  BY <1>6, SyntaxNames DEF SyntaxTables
<1>7. CASE t = UNumSyntax
  BY <1>7, SyntaxNames DEF SyntaxTables
<1> QED  BY <1>1, <1>2, <1>3, <1>4, <1>5, <1>6, <1>7 DEF SyntaxTables

\* What a symbol derives is in its own table.
LEMMA SyntaxAt ==
    ASSUME NEW t \in SyntaxTables, NEW x \in DOMAIN t
    PROVE  x \in DOMAIN Syntax /\ Syntax[x] = t[x]
  BY SyntaxApart, MergedAt DEF Syntax

\* The symbols of the grammar are the keys of its tables.
LEMMA SyntaxDomain ==
    DOMAIN Syntax = UNION {DOMAIN t : t \in SyntaxTables}
  BY DEF Syntax, Merged

\* A symbol of the grammar is no call and no version.
LEMMA CallsDomain ==
    Calls = UNION {DOMAIN t : t \in CallTables}
  BY DEF Calls, Takes, Merged

\* A symbol of the grammar is no call and no version, a version no call.
LEMMA SymbolsApart ==
    ASSUME NEW x
    PROVE  /\ x \in DOMAIN Syntax => x \notin Calls /\ x \notin Versions
           /\ x \in Versions => x \notin Calls
<1>1. ASSUME NEW t \in SyntaxTables, x \in DOMAIN t, NEW u \in CallTables, x \in DOMAIN u
      PROVE  FALSE
  <2>1. CASE u = MessageCalls
    BY <1>1, <2>1, CallNames, SyntaxNames DEF SyntaxTables
  <2>2. CASE u = TokenCalls
    BY <1>1, <2>2, CallNames, SyntaxNames DEF SyntaxTables
  <2>3. CASE u = ActionCalls
    BY <1>1, <2>3, CallNames, SyntaxNames DEF SyntaxTables
  <2>4. CASE u = ActionCallsOfVersion8
    BY <1>1, <2>4, CallNames, SyntaxNames DEF SyntaxTables
  <2>5. CASE u = DirectiveCalls
    BY <1>1, <2>5, CallNames, SyntaxNames DEF SyntaxTables
  <2>6. CASE u = ConditionCalls
    BY <1>1, <2>6, CallNames, SyntaxNames DEF SyntaxTables
  <2>7. CASE u = CompareCalls
    BY <1>1, <2>7, CallNames, SyntaxNames DEF SyntaxTables
  <2>8. CASE u = RegionCalls
    BY <1>1, <2>8, CallNames, SyntaxNames DEF SyntaxTables
  <2>9. CASE u = PointCalls
    BY <1>1, <2>9, CallNames, SyntaxNames DEF SyntaxTables
  <2>10. CASE u = RuleCalls
    BY <1>1, <2>10, CallNames, SyntaxNames DEF SyntaxTables
  <2> QED  BY <1>1, <2>1, <2>2, <2>3, <2>4, <2>5, <2>6, <2>7, <2>8, <2>9, <2>10 DEF CallTables
<1>2. ASSUME NEW t \in SyntaxTables, x \in DOMAIN t
      PROVE  x \notin Versions
  BY <1>2, SyntaxNames DEF SyntaxTables, Versions
<1>3. ASSUME x \in Versions, NEW u \in CallTables, x \in DOMAIN u
      PROVE  FALSE
  BY <1>3, CallNames, ZenonT(60) DEF CallTables, Versions
<1> QED  BY <1>1, <1>2, <1>3, SyntaxDomain, CallsDomain

\* What a phrase of the grammar makes of the stack.
Phrase(x, g) == x \in DOMAIN Syntax \ {"message"} /\ Makes[x] = g

\* What the symbols of MessageSyntax stand for.
LEMMA MessageSyntaxPhrases ==
    /\ Phrase("actives", Many("ACTIVATE"))
    /\ Phrase("active", One("ACTIVATE"))
    /\ Phrase("ids", One("RIDLIST"))
    /\ Phrase("idlist", Many("RID"))
    /\ Phrase("metas", Many("META"))
<1>1. \A x \in DOMAIN MessageSyntax : x \in DOMAIN Syntax
  BY SyntaxAt DEF SyntaxTables
<1> QED  BY <1>1, SyntaxNames DEF Phrase, Makes

\* What the symbols of DefineSyntax stand for.
LEMMA DefineSyntaxPhrases ==
    /\ Phrase("defines", Many("DEF"))
    /\ Phrase("define", One("DEF"))
    /\ Phrase("rule", One("RULE"))
    /\ Phrase("rules", Many("RULE"))
    /\ Phrase("token", One("TOKEN"))
    /\ Phrase("tokens", Many("TOKEN"))
<1>1. \A x \in DOMAIN DefineSyntax : x \in DOMAIN Syntax
  BY SyntaxAt DEF SyntaxTables
<1> QED  BY <1>1, SyntaxNames DEF Phrase, Makes

\* What the symbols of ActionSyntax stand for.
LEMMA ActionSyntaxPhrases ==
    /\ Phrase("action", One("ACTION"))
    /\ Phrase("directive", One("DIR"))
    /\ Phrase("actions", Many("ACTION"))
    /\ Phrase("directives", Many("DIR"))
<1>1. \A x \in DOMAIN ActionSyntax : x \in DOMAIN Syntax
  BY SyntaxAt DEF SyntaxTables
<1> QED  BY <1>1, SyntaxNames DEF Phrase, Makes

\* What the symbols of ConditionSyntax stand for.
LEMMA ConditionSyntaxPhrases ==
    /\ Phrase("condition", One("COND"))
    /\ Phrase("conditions", One("CONDLIST"))
<1>1. \A x \in DOMAIN ConditionSyntax : x \in DOMAIN Syntax
  BY SyntaxAt DEF SyntaxTables
<1> QED  BY <1>1, SyntaxNames DEF Phrase, Makes

\* What the symbols of RegionSyntax stand for.
LEMMA RegionSyntaxPhrases ==
    /\ Phrase("region", One("REG"))
    /\ Phrase("regions", Many("REG"))
<1>1. \A x \in DOMAIN RegionSyntax : x \in DOMAIN Syntax
  BY SyntaxAt DEF SyntaxTables
<1> QED  BY <1>1, SyntaxNames DEF Phrase, Makes

\* What the symbols of PointSyntax stand for.
LEMMA PointSyntaxPhrases ==
    /\ Phrase("point", One("PT"))
    /\ Phrase("sum", One("PT"))
<1>1. \A x \in DOMAIN PointSyntax : x \in DOMAIN Syntax
  BY SyntaxAt DEF SyntaxTables
<1> QED  BY <1>1, SyntaxNames DEF Phrase, Makes

\* What the symbols of UNumSyntax stand for.
LEMMA UNumSyntaxPhrases ==
    /\ Phrase("unumset", One("UNUMSET"))
    /\ Phrase("unums", Many("UNUM"))
    /\ Phrase("unum", One("UNUM"))
    /\ Phrase("bmoves", Many("BMT"))
<1>1. \A x \in DOMAIN UNumSyntax : x \in DOMAIN Syntax
  BY SyntaxAt DEF SyntaxTables
<1> QED  BY <1>1, SyntaxNames DEF Phrase, Makes

-----------------------------------------------------------------------------
(* What the symbols do to a shape.                                         *)
LEMMA Grown ==
    ASSUME NEW a \in Shapes, NEW t \in ItemTypes
    PROVE  /\ One(t) \in Entries /\ Many(t) \in Entries
           /\ Append(a, One(t)) \in Shapes /\ Append(a, Many(t)) \in Shapes
           /\ Pop(Append(a, One(t)), One(t), a)
           /\ Clean(a, t) => Pop(Append(a, Many(t)), Many(t), a)
           /\ \A u : u # t => Clean(Append(a, One(t)), u) /\ Clean(Append(a, Many(t)), u)
<1>1. One(t) \in Entries /\ Many(t) \in Entries
  BY DEF One, Many, Entries
<1>2. Append(a, One(t)) \in Shapes /\ Append(a, Many(t)) \in Shapes
  BY <1>1 DEF Shapes
<1>3. One(t).type = t /\ Many(t).type = t /\ One(t).many = FALSE /\ Many(t).many = TRUE
  BY DEF One, Many
<1>4. ASSUME NEW e \in Entries
      PROVE  Append(a, e)[Len(Append(a, e))] = e
  BY <1>4 DEF Shapes
<1>5. \A u : u # t => Clean(Append(a, One(t)), u) /\ Clean(Append(a, Many(t)), u)
  BY <1>1, <1>3, <1>4 DEF Clean
<1> QED  BY <1>1, <1>2, <1>3, <1>5 DEF Pop

\* A shape with another type than a number, a region or an id on top is firm.
LEMMA FirmOn ==
    ASSUME NEW a \in Shapes, NEW t \in ItemTypes, t \notin {"UNUM", "REG", "RID"}
    PROVE  Firm(Append(a, One(t))) /\ Firm(Append(a, Many(t)))
  BY Grown DEF Firm

\* The empty stack has a firm shape.
LEMMA EmptyShape ==
    <<>> \in Shapes /\ Firm(<<>>) /\ \A t : Clean(<<>>, t)
  BY DEF Shapes, Firm, Clean

Ready(x, a) == x \in Anywhere \/ Firm(a)

\* A phrase that stands for one item.
LEMMA OnePhrase ==
    ASSUME NEW a \in Shapes, NEW t \in ItemTypes, NEW x, Phrase(x, One(t)), Ready(x, a),
           t = "REG" => Clean(a, t)
    PROVE  x \in Symbols /\ Effect(x, a, Append(a, One(t)))
<1> DEFINE b == Append(a, One(t))
<1>1. b \in Shapes
  BY Grown
<1>2. Adds(a, t, b)
  BY DEF Adds, AddsOne
<1>3. One(t).type = t /\ One(t).many = FALSE
  BY DEF One
<1> HIDE DEF b
<1>4. PhraseEffect(x, a, b)
  BY <1>1, <1>2, <1>3 DEF PhraseEffect, Phrase, Ready
<1> QED  BY <1>4 DEF Effect, Phrase, Symbols, b

\* A phrase that stands for a run.
LEMMA RunPhrase ==
    ASSUME NEW a \in Shapes, NEW t \in ItemTypes, NEW x, Phrase(x, Many(t)), Ready(x, a),
           Clean(a, t)
    PROVE  x \in Symbols /\ Effect(x, a, Append(a, Many(t)))
<1> DEFINE b == Append(a, Many(t))
<1>1. b \in Shapes
  BY Grown
<1>2. RunOver(a, a, t, b)
  BY DEF RunOver
<1>3. Many(t).type = t /\ Many(t).many = TRUE
  BY DEF Many
<1>4. AddsToRun(a, t, b)
  BY <1>2 DEF AddsToRun
<1> HIDE DEF b
<1>5. PhraseEffect(x, a, b)
  BY <1>1, <1>3, <1>4 DEF PhraseEffect, Phrase, Ready
<1> QED  BY <1>5 DEF Effect, Phrase, Symbols, b

\* A phrase adds what it is said to add.
LEMMA PhraseAdds ==
    ASSUME NEW a \in Shapes, NEW b \in Shapes, NEW t \in ItemTypes, NEW x, Ready(x, a),
           \/ Phrase(x, One(t)) /\ Adds(a, t, b)
           \/ Phrase(x, Many(t)) /\ AddsToRun(a, t, b)
    PROVE  x \in Symbols /\ Effect(x, a, b)
<1>1. One(t).type = t /\ One(t).many = FALSE /\ Many(t).type = t /\ Many(t).many = TRUE
  BY DEF One, Many
<1>2. PhraseEffect(x, a, b)
  BY <1>1 DEF PhraseEffect, Phrase, Ready
<1> QED  BY <1>2 DEF Effect, Phrase, Symbols

\* A call that takes what lies above a shape.
LEMMA CallAdds ==
    ASSUME NEW a \in Shapes, NEW b \in Shapes, NEW d \in Shapes, NEW c, NEW gs, NEW t,
           Builds(c, gs, t), Pops(d, gs, a), Adds(a, t, b)
    PROVE  c \in Symbols /\ Effect(c, d, b)
<1>1. CallEffect(c, d, b)
  BY DEF CallEffect, Builds
<1> QED  BY <1>1 DEF Effect, Builds, Symbols

\* A version leaves the shape as it is.
LEMMA VersionKeeps ==
    ASSUME NEW a \in Shapes, NEW v \in Versions
    PROVE  v \in Symbols /\ Effect(v, a, a)
  BY DEF Effect, VersionEffect, Symbols

\* A run holds one more.
LEMMA RunGoesOn ==
    ASSUME NEW a \in Shapes, NEW b \in Shapes, NEW t \in ItemTypes, AddsToRun(a, t, b)
    PROVE  AddsToRun(b, t, b) /\ \E m \in Shapes : b = Append(m, Many(t)) /\ Clean(m, t)
<1>1. PICK m \in Shapes : RunOver(m, a, t, b)
  BY DEF AddsToRun
<1>2. RunOver(m, b, t, b)
  BY <1>1 DEF RunOver
<1> QED  BY <1>1, <1>2 DEF AddsToRun, RunOver

-----------------------------------------------------------------------------
(* The shapes of productions.  Each leads from a to b if b adds to a one   *)
(* item of the type that the last call builds.                             *)
LEMMA SaysNone ==
    ASSUME NEW a \in Shapes, NEW b \in Shapes, NEW c, NEW t, Builds(c, <<>>, t), Adds(a, t, b)
    PROVE  Leads(a, <<c>>, b) /\ \A v \in Versions : Leads(a, <<c, v>>, b)
<1>1. c \in Symbols /\ Effect(c, a, b)
  BY PopsNone, CallAdds
<1>2. Leads(a, <<c>>, b)
  BY <1>1, LeadsOne
<1>3. \A v \in Versions : Leads(a, <<c, v>>, b)
  BY <1>1, VersionKeeps, LeadsTwo
<1> QED  BY <1>2, <1>3

\* Right-hand sides of a phrase or two and the call that takes them.
LEMMA SaysOne ==
    ASSUME NEW a \in Shapes, NEW b \in Shapes, NEW t, Adds(a, t, b),
           NEW u \in ItemTypes, NEW x, NEW c, Phrase(x, One(u)), Ready(x, a), u = "REG" => Clean(a, u),
           Builds(c, <<One(u)>>, t)
    PROVE  Leads(a, <<x, c>>, b) /\ \A v \in Versions : Leads(a, <<x, c, v>>, b)
<1> DEFINE d == Append(a, One(u))
<1>1. d \in Shapes /\ Pop(d, One(u), a)
  BY Grown
<1>2. x \in Symbols /\ Effect(x, a, d)
  BY OnePhrase
<1> HIDE DEF d
<1>3. c \in Symbols /\ Effect(c, d, b)
  BY <1>1, PopsOne, CallAdds
<1>4. Leads(a, <<x, c>>, b)
  BY <1>2, <1>3, LeadsTwo
<1>5. \A v \in Versions : Leads(a, <<x, c, v>>, b)
  BY <1>2, <1>3, VersionKeeps, LeadsThree
<1> QED  BY <1>4, <1>5

LEMMA SaysRun ==
    ASSUME NEW a \in Shapes, NEW b \in Shapes, NEW t, Adds(a, t, b),
           NEW u \in ItemTypes, NEW x, NEW c, Phrase(x, Many(u)), Ready(x, a), Clean(a, u),
           Builds(c, <<Many(u)>>, t)
    PROVE  Leads(a, <<x, c>>, b)
<1> DEFINE d == Append(a, Many(u))
<1>1. d \in Shapes /\ Pop(d, Many(u), a)
  BY Grown
<1>2. x \in Symbols /\ Effect(x, a, d)
  BY RunPhrase
<1> HIDE DEF d
<1>3. c \in Symbols /\ Effect(c, d, b)
  BY <1>1, PopsOne, CallAdds
<1>4. Leads(a, <<x, c>>, b)
  BY <1>2, <1>3, LeadsTwo
<1> QED  BY <1>4

LEMMA SaysOneOne ==
    ASSUME NEW a \in Shapes, NEW b \in Shapes, NEW t, Adds(a, t, b),
           NEW u \in ItemTypes, NEW x, Phrase(x, One(u)), Ready(x, a), u = "REG" => Clean(a, u),
           NEW w \in ItemTypes, NEW y, Phrase(y, One(w)), u \notin {"UNUM", "REG", "RID"},
           NEW c, Builds(c, <<One(w), One(u)>>, t)
    PROVE  Leads(a, <<x, y, c>>, b)
<1> DEFINE d == Append(a, One(u))
           e == Append(d, One(w))
<1>1. d \in Shapes /\ Pop(d, One(u), a)
  BY Grown
<1>2. x \in Symbols /\ Effect(x, a, d)
  BY OnePhrase
<1>3. Firm(d)
  BY FirmOn
<1> HIDE DEF d
<1>4. e \in Shapes /\ Pop(e, One(w), d)
  BY <1>1, Grown
<1>5. y \in Symbols /\ Effect(y, d, e)
  BY <1>1, <1>3, OnePhrase DEF Firm, Ready
<1> HIDE DEF e
<1>6. c \in Symbols /\ Effect(c, e, b)
  BY <1>1, <1>4, PopsTwo, CallAdds
<1>7. Leads(a, <<x, y, c>>, b)
  BY <1>2, <1>5, <1>6, LeadsThree
<1> QED  BY <1>7

LEMMA SaysOneRun ==
    ASSUME NEW a \in Shapes, NEW b \in Shapes, NEW t, Adds(a, t, b),
           NEW u \in ItemTypes, NEW x, Phrase(x, One(u)), Ready(x, a), u = "REG" => Clean(a, u),
           NEW w \in ItemTypes, NEW y, Phrase(y, Many(w)), w # u,
           y \in Anywhere \/ u \notin {"UNUM", "REG", "RID"},
           NEW c, Builds(c, <<Many(w), One(u)>>, t)
    PROVE  Leads(a, <<x, y, c>>, b)
<1> DEFINE d == Append(a, One(u))
           e == Append(d, Many(w))
<1>1. d \in Shapes /\ Pop(d, One(u), a) /\ Clean(d, w)
  BY Grown
<1>2. x \in Symbols /\ Effect(x, a, d)
  BY OnePhrase
<1>3. Ready(y, d)
  BY FirmOn DEF Ready
<1> HIDE DEF d
<1>4. e \in Shapes /\ Pop(e, Many(w), d)
  BY <1>1, Grown
<1>5. y \in Symbols /\ Effect(y, d, e)
  BY <1>1, <1>3, RunPhrase
<1> HIDE DEF e
<1>6. c \in Symbols /\ Effect(c, e, b)
  BY <1>1, <1>4, PopsTwo, CallAdds
<1>7. Leads(a, <<x, y, c>>, b)
  BY <1>2, <1>5, <1>6, LeadsThree
<1> QED  BY <1>7

\* A list of phrases, or one phrase that starts it.
LEMMA SaysList ==
    ASSUME NEW a \in Shapes, NEW b \in Shapes, NEW t \in ItemTypes, AddsToRun(a, t, b),
           NEW xs, Phrase(xs, Many(t)), Ready(xs, a), NEW x,
           \/ /\ Phrase(x, One(t)) /\ Ready(x, a)
              /\ x \in Anywhere \/ t \notin {"UNUM", "REG", "RID"}
           \/ Builds(x, <<>>, t)
    PROVE  Leads(a, <<xs, x>>, b) /\ Leads(a, <<x>>, b)
<1>1. PICK m \in Shapes : b = Append(m, Many(t)) /\ Clean(m, t)
  BY RunGoesOn
<1>2. AddsToRun(b, t, b)
  BY RunGoesOn
<1>3. xs \in Symbols /\ Effect(xs, a, b)
  BY PhraseAdds
<1>4. x \in Symbols /\ Effect(x, b, b) /\ Effect(x, a, b)
  <2>1. CASE Builds(x, <<>>, t)
    BY <2>1, <1>2, PopsNone, CallAdds DEF Adds
  <2>2. CASE ~Builds(x, <<>>, t)
    <3>1. Phrase(x, One(t)) /\ Ready(x, a) /\ (x \in Anywhere \/ t \notin {"UNUM", "REG", "RID"})
      BY <2>2
    <3>2. Ready(x, b)
      BY <3>1, <1>1, FirmOn DEF Ready
    <3> QED  BY <3>1, <3>2, <1>2, PhraseAdds DEF Adds
  <2> QED  BY <2>1, <2>2
<1> QED  BY <1>3, <1>4, LeadsOne, LeadsTwo

-----------------------------------------------------------------------------
(* Regions of several points, and sums.                                    *)
LEMMA PointEffect ==
    ASSUME NEW a \in Shapes, NEW x \in {"point", "sum"}
    PROVE  /\ x \in Symbols /\ Effect(x, a, Append(a, One("PT")))
           /\ Append(a, One("PT")) \in Shapes /\ Pop(Append(a, One("PT")), One("PT"), a)
<1>1. "PT" \in ItemTypes /\ "PT" # "REG" /\ Ready(x, a)
  BY DEF ItemTypes, Ready, Anywhere
<1>2. Phrase(x, One("PT"))
  BY PointSyntaxPhrases
<1> QED  BY <1>1, <1>2, OnePhrase, Grown

\* The points of a region, one after the other, and the call that takes them.
LEMMA SaysTwoPoints ==
    ASSUME NEW a \in Shapes, NEW b \in Shapes, NEW t, Adds(a, t, b), NEW x \in {"point", "sum"},
           NEW c, Builds(c, <<One("PT"), One("PT")>>, t), NEW v \in Versions
    PROVE  Leads(a, <<x, x, c, v>>, b)
<1> DEFINE a1 == Append(a, One("PT"))
           a2 == Append(a1, One("PT"))
<1>1. x \in Symbols /\ Effect(x, a, a1) /\ a1 \in Shapes /\ Pop(a1, One("PT"), a)
  BY PointEffect
<1> HIDE DEF a1
<1>2. x \in Symbols /\ Effect(x, a1, a2) /\ a2 \in Shapes /\ Pop(a2, One("PT"), a1)
  BY <1>1, PointEffect
<1> HIDE DEF a2
<1>3. Pops(a2, <<One("PT"), One("PT")>>, a)
  BY <1>1, <1>2, PopsTwo
<1>4. c \in Symbols /\ Effect(c, a2, b) /\ v \in Symbols /\ Effect(v, b, b)
  BY <1>2, <1>3, CallAdds, VersionKeeps
<1> QED  BY <1>1, <1>2, <1>4, LeadsFour

LEMMA SaysThreePoints ==
    ASSUME NEW a \in Shapes, NEW b \in Shapes, NEW t, Adds(a, t, b), NEW x \in {"point", "sum"},
           NEW c, Builds(c, <<One("PT"), One("PT"), One("PT")>>, t), NEW v \in Versions
    PROVE  Leads(a, <<x, x, x, c, v>>, b)
<1> DEFINE a1 == Append(a, One("PT"))
           a2 == Append(a1, One("PT"))
           a3 == Append(a2, One("PT"))
<1>1. x \in Symbols /\ Effect(x, a, a1) /\ a1 \in Shapes /\ Pop(a1, One("PT"), a)
  BY PointEffect
<1> HIDE DEF a1
<1>2. x \in Symbols /\ Effect(x, a1, a2) /\ a2 \in Shapes /\ Pop(a2, One("PT"), a1)
  BY <1>1, PointEffect
<1> HIDE DEF a2
<1>3. x \in Symbols /\ Effect(x, a2, a3) /\ a3 \in Shapes /\ Pop(a3, One("PT"), a2)
  BY <1>2, PointEffect
<1> HIDE DEF a3
<1>4. Pops(a3, <<One("PT"), One("PT"), One("PT")>>, a)
  BY <1>1, <1>2, <1>3, PopsThree
<1>5. c \in Symbols /\ Effect(c, a3, b) /\ v \in Symbols /\ Effect(v, b, b)
  BY <1>3, <1>4, CallAdds, VersionKeeps
<1> QED  BY <1>1, <1>2, <1>3, <1>5, LeadsFive

LEMMA SaysFourPoints ==
    ASSUME NEW a \in Shapes, NEW b \in Shapes, NEW t, Adds(a, t, b), NEW x \in {"point", "sum"},
           NEW c, Builds(c, <<One("PT"), One("PT"), One("PT"), One("PT")>>, t), NEW v \in Versions
    PROVE  Leads(a, <<x, x, x, x, c, v>>, b)
<1> DEFINE a1 == Append(a, One("PT"))
           a2 == Append(a1, One("PT"))
           a3 == Append(a2, One("PT"))
           a4 == Append(a3, One("PT"))
<1>1. x \in Symbols /\ Effect(x, a, a1) /\ a1 \in Shapes /\ Pop(a1, One("PT"), a)
  BY PointEffect
<1> HIDE DEF a1
<1>2. x \in Symbols /\ Effect(x, a1, a2) /\ a2 \in Shapes /\ Pop(a2, One("PT"), a1)
  BY <1>1, PointEffect
<1> HIDE DEF a2
<1>3. x \in Symbols /\ Effect(x, a2, a3) /\ a3 \in Shapes /\ Pop(a3, One("PT"), a2)
  BY <1>2, PointEffect
<1> HIDE DEF a3
<1>4. x \in Symbols /\ Effect(x, a3, a4) /\ a4 \in Shapes /\ Pop(a4, One("PT"), a3)
  BY <1>3, PointEffect
<1> HIDE DEF a4
<1>5. Pops(a4, <<One("PT"), One("PT"), One("PT"), One("PT")>>, a)
  BY <1>1, <1>2, <1>3, <1>4, PopsFour
<1>6. c \in Symbols /\ Effect(c, a4, b) /\ v \in Symbols /\ Effect(v, b, b)
  BY <1>4, <1>5, CallAdds, VersionKeeps
<1> QED  BY <1>1, <1>2, <1>3, <1>4, <1>6, LeadsSix

\* A union takes all regions, those that were there before it too.
LEMMA SaysUnion ==
    ASSUME NEW a \in Shapes, NEW b \in Shapes, Adds(a, "REG", b)
    PROVE  Leads(a, <<"regions", "RegUnion">>, b)
<1>1. "REG" \in ItemTypes /\ Ready("regions", a)
  BY DEF ItemTypes, Ready, Anywhere
<1>2. Phrase("regions", Many("REG")) /\ Builds("RegUnion", <<Many("REG")>>, "REG")
  BY RegionSyntaxPhrases, RegionCallsAre
<1>3. CASE Clean(a, "REG")
  BY <1>1, <1>2, <1>3, SaysRun
<1>4. CASE ~Clean(a, "REG")
  <2>1. AddsToRun(a, "REG", b)
    BY <1>4 DEF Adds, AddsOne
  <2>2. PICK m \in Shapes : RunOver(m, a, "REG", b)
    BY <2>1 DEF AddsToRun
  <2>3. a = b /\ a = Append(m, Many("REG")) /\ Clean(m, "REG")
    BY <2>2, <1>4 DEF RunOver
  <2>4. Pops(a, <<Many("REG")>>, m)
    BY <1>1, <2>3, Grown, PopsOne
  <2>5. RunOver(m, m, "REG", b)
    BY <2>3 DEF RunOver
  <2>6. Adds(m, "REG", b)
    BY <2>5 DEF Adds, AddsToRun
  <2>7. "RegUnion" \in Symbols /\ Effect("RegUnion", a, b)
    BY <1>2, <2>4, <2>6, CallAdds
  <2>8. "regions" \in Symbols /\ Effect("regions", a, a)
    BY <1>1, <1>2, <2>1, <2>3, PhraseAdds
  <2> QED  BY <2>7, <2>8, LeadsTwo
<1> QED  BY <1>3, <1>4

\* A rule id alone is a list of one.
LEMMA SaysRuleID ==
    ASSUME NEW a \in Shapes, NEW b \in Shapes, Firm(a), Adds(a, "RIDLIST", b)
    PROVE  Leads(a, <<"RuleID", "RuleIDList">>, b)
<1> DEFINE d == Append(a, Many("RID"))
<1>1. "RID" \in ItemTypes /\ Clean(a, "RID")
  BY DEF ItemTypes, Firm
<1>2. Builds("RuleID", <<>>, "RID") /\ Builds("RuleIDList", <<Many("RID")>>, "RIDLIST")
  BY RuleCallsAre
<1>3. d \in Shapes /\ Pop(d, Many("RID"), a)
  BY <1>1, Grown
<1>4. RunOver(a, a, "RID", d)
  BY <1>1 DEF RunOver
<1>5. Adds(a, "RID", d)
  BY <1>4 DEF Adds, AddsToRun
<1> HIDE DEF d
<1>6. "RuleID" \in Symbols /\ Effect("RuleID", a, d)
  BY <1>2, <1>3, <1>5, PopsNone, CallAdds
<1>7. "RuleIDList" \in Symbols /\ Effect("RuleIDList", d, b)
  BY <1>2, <1>3, PopsOne, CallAdds
<1> QED  BY <1>6, <1>7, LeadsTwo

-----------------------------------------------------------------------------
(* Every production of the grammar does to the stack what the symbol it    *)
(* derives from is said to do.                                             *)
LEMMA ActivesLeads ==
    ASSUME NEW a \in Shapes, NEW b \in Shapes, Firm(a), AddsToRun(a, "ACTIVATE", b), NEW rhs \in Syntax["actives"]
    PROVE  Leads(a, rhs, b)
<1>1. Syntax["actives"] = MessageSyntax["actives"]
  BY SyntaxAt, SyntaxNames DEF SyntaxTables
<1>2. Leads(a, <<"actives", "active">>, b) /\ Leads(a, <<"active">>, b)
  BY SaysList, MessageSyntaxPhrases DEF Anywhere, Firm, ItemTypes, Ready
<1> QED
  BY <1>1, <1>2 DEF MessageSyntax

\* Each right-hand side of active leads where it leads.
LEMMA ActiveLeads ==
    ASSUME NEW a \in Shapes, NEW b \in Shapes, Firm(a), Adds(a, "ACTIVATE", b), NEW rhs \in Syntax["active"]
    PROVE  Leads(a, rhs, b)
<1>1. Syntax["active"] = MessageSyntax["active"]
  BY SyntaxAt, SyntaxNames DEF SyntaxTables
<1>2. Leads(a, <<"ids", "ActivateRules">>, b)
  BY SaysOne, MessageSyntaxPhrases, RuleCallsAre DEF Anywhere, Firm, ItemTypes, Ready
<1> QED
  BY <1>1, <1>2 DEF MessageSyntax

\* Each right-hand side of ids leads where it leads.
LEMMA IdsLeads ==
    ASSUME NEW a \in Shapes, NEW b \in Shapes, Firm(a), Adds(a, "RIDLIST", b), NEW rhs \in Syntax["ids"]
    PROVE  Leads(a, rhs, b)
<1>1. Syntax["ids"] = MessageSyntax["ids"]
  BY SyntaxAt, SyntaxNames DEF SyntaxTables
<1>2. Leads(a, <<"RuleID", "RuleIDList">>, b)
  BY SaysRuleID
<1>3. Leads(a, <<"idlist", "RuleIDList">>, b)
  BY SaysRun, MessageSyntaxPhrases, RuleCallsAre DEF Anywhere, Firm, ItemTypes, Ready
<1>4. Leads(a, <<"RuleIDListALL">>, b)
  BY SaysNone, RuleCallsAre
<1> QED
  BY <1>1, <1>2, <1>3, <1>4 DEF MessageSyntax

\* Each right-hand side of idlist leads where it leads.
LEMMA IdlistLeads ==
    ASSUME NEW a \in Shapes, NEW b \in Shapes, AddsToRun(a, "RID", b), NEW rhs \in Syntax["idlist"]
    PROVE  Leads(a, rhs, b)
<1>1. Syntax["idlist"] = MessageSyntax["idlist"]
  BY SyntaxAt, SyntaxNames DEF SyntaxTables
<1>2. Leads(a, <<"idlist", "RuleID">>, b) /\ Leads(a, <<"RuleID">>, b)
  BY SaysList, MessageSyntaxPhrases, RuleCallsAre DEF Anywhere, ItemTypes, Ready
<1> QED
  BY <1>1, <1>2 DEF MessageSyntax

\* Each right-hand side of metas leads where it leads.
LEMMA MetasLeads ==
    ASSUME NEW a \in Shapes, NEW b \in Shapes, AddsToRun(a, "META", b), NEW rhs \in Syntax["metas"]
    PROVE  Leads(a, rhs, b)
<1>1. Syntax["metas"] = MessageSyntax["metas"]
  BY SyntaxAt, SyntaxNames DEF SyntaxTables
<1>2. Leads(a, <<"metas", "MetaTokenVer">>, b) /\ Leads(a, <<"MetaTokenVer">>, b)
  BY SaysList, MessageCallsAre, MessageSyntaxPhrases DEF Anywhere, ItemTypes, Ready
<1> QED
  BY <1>1, <1>2 DEF MessageSyntax

\* Each right-hand side of defines leads where it leads.
LEMMA DefinesLeads ==
    ASSUME NEW a \in Shapes, NEW b \in Shapes, Firm(a), AddsToRun(a, "DEF", b), NEW rhs \in Syntax["defines"]
    PROVE  Leads(a, rhs, b)
<1>1. Syntax["defines"] = DefineSyntax["defines"]
  BY SyntaxAt, SyntaxNames DEF SyntaxTables
<1>2. Leads(a, <<"defines", "define">>, b) /\ Leads(a, <<"define">>, b)
  BY SaysList, DefineSyntaxPhrases DEF Anywhere, Firm, ItemTypes, Ready
<1> QED
  BY <1>1, <1>2 DEF DefineSyntax

\* Each right-hand side of define leads where it leads.
LEMMA DefineLeads ==
    ASSUME NEW a \in Shapes, NEW b \in Shapes, Firm(a), Adds(a, "DEF", b), NEW rhs \in Syntax["define"]
    PROVE  Leads(a, rhs, b)
<1>1. Syntax["define"] = DefineSyntax["define"]
  BY SyntaxAt, SyntaxNames DEF SyntaxTables
<1>2. Leads(a, <<"condition", "DefineCond">>, b)
  BY SaysOne, ConditionSyntaxPhrases, MessageCallsAre DEF Anywhere, Firm, ItemTypes, Ready
<1>3. Leads(a, <<"directive", "DefineDir">>, b)
  BY SaysOne, ActionSyntaxPhrases, MessageCallsAre DEF Anywhere, Firm, ItemTypes, Ready
<1>4. Leads(a, <<"region", "DefineReg">>, b)
  BY SaysOne, MessageCallsAre, RegionSyntaxPhrases DEF Anywhere, Firm, ItemTypes, Ready
<1>5. Leads(a, <<"action", "DefineAct">>, b)
  BY SaysOne, ActionSyntaxPhrases, MessageCallsAre DEF Anywhere, Firm, ItemTypes, Ready
<1>6. Leads(a, <<"rule", "DefineModelRule", "8">>, b)
  BY SaysOne, DefineSyntaxPhrases, RuleCallsAre DEF Anywhere, Firm, ItemTypes, Ready, Versions
<1>7. Leads(a, <<"rule", "DefineDirectiveRule", "8">>, b)
  BY SaysOne, DefineSyntaxPhrases, RuleCallsAre DEF Anywhere, Firm, ItemTypes, Ready, Versions
<1> QED
  BY <1>1, <1>2, <1>3, <1>4, <1>5, <1>6, <1>7 DEF DefineSyntax

\* Each right-hand side of rule leads where it leads.
LEMMA RuleLeads ==
    ASSUME NEW a \in Shapes, NEW b \in Shapes, Firm(a), Adds(a, "RULE", b), NEW rhs \in Syntax["rule"]
    PROVE  Leads(a, rhs, b)
<1>1. Syntax["rule"] = DefineSyntax["rule"]
  BY SyntaxAt, SyntaxNames DEF SyntaxTables
<1>2. Leads(a, <<"condition", "directives", "SimpleRule">>, b)
  <2>1. Phrase("condition", One("COND")) /\ Phrase("directives", Many("DIR"))
        /\ Builds("SimpleRule", <<Many("DIR"), One("COND")>>, "RULE")
    BY ActionSyntaxPhrases, ConditionSyntaxPhrases, RuleCallsAre
  <2>2. Ready("condition", a) /\ ("COND" = "REG" => Clean(a, "COND"))
    BY DEF Ready, Firm
  <2>3. /\ "COND" \in ItemTypes /\ "DIR" \in ItemTypes /\ "DIR" # "COND"
        /\ "directives" \in Anywhere \/ "COND" \notin {"UNUM", "REG", "RID"}
    BY DEF ItemTypes, Anywhere
  <2> QED  BY <2>1, <2>2, <2>3, SaysOneRun
<1>3. Leads(a, <<"ids", "IDRule">>, b)
  BY SaysOne, MessageSyntaxPhrases, RuleCallsAre DEF Anywhere, Firm, ItemTypes, Ready
<1>4. Leads(a, <<"condition", "rules", "NestedRule">>, b)
  <2>1. Phrase("condition", One("COND")) /\ Phrase("rules", Many("RULE"))
        /\ Builds("NestedRule", <<Many("RULE"), One("COND")>>, "RULE")
    BY ConditionSyntaxPhrases, DefineSyntaxPhrases, RuleCallsAre
  <2>2. Ready("condition", a) /\ ("COND" = "REG" => Clean(a, "COND"))
    BY DEF Ready, Firm
  <2>3. /\ "COND" \in ItemTypes /\ "RULE" \in ItemTypes /\ "RULE" # "COND"
        /\ "rules" \in Anywhere \/ "COND" \notin {"UNUM", "REG", "RID"}
    BY DEF ItemTypes, Anywhere
  <2> QED  BY <2>1, <2>2, <2>3, SaysOneRun
<1> QED
  BY <1>1, <1>2, <1>3, <1>4 DEF DefineSyntax

\* Each right-hand side of rules leads where it leads.
LEMMA RulesLeads ==
    ASSUME NEW a \in Shapes, NEW b \in Shapes, Firm(a), AddsToRun(a, "RULE", b), NEW rhs \in Syntax["rules"]
    PROVE  Leads(a, rhs, b)
<1>1. Syntax["rules"] = DefineSyntax["rules"]
  BY SyntaxAt, SyntaxNames DEF SyntaxTables
<1>2. Leads(a, <<"rules", "rule">>, b) /\ Leads(a, <<"rule">>, b)
  BY SaysList, DefineSyntaxPhrases DEF Anywhere, Firm, ItemTypes, Ready
<1> QED
  BY <1>1, <1>2 DEF DefineSyntax

\* Each right-hand side of token leads where it leads.
LEMMA TokenLeads ==
    ASSUME NEW a \in Shapes, NEW b \in Shapes, Firm(a), Adds(a, "TOKEN", b), NEW rhs \in Syntax["token"]
    PROVE  Leads(a, rhs, b)
<1>1. Syntax["token"] = DefineSyntax["token"]
  BY SyntaxAt, SyntaxNames DEF SyntaxTables
<1>2. Leads(a, <<"condition", "directives", "TokenRule">>, b)
  <2>1. Phrase("condition", One("COND")) /\ Phrase("directives", Many("DIR"))
        /\ Builds("TokenRule", <<Many("DIR"), One("COND")>>, "TOKEN")
    BY ActionSyntaxPhrases, ConditionSyntaxPhrases, TokenCallsAre
  <2>2. Ready("condition", a) /\ ("COND" = "REG" => Clean(a, "COND"))
    BY DEF Ready, Firm
  <2>3. /\ "COND" \in ItemTypes /\ "DIR" \in ItemTypes /\ "DIR" # "COND"
        /\ "directives" \in Anywhere \/ "COND" \notin {"UNUM", "REG", "RID"}
    BY DEF ItemTypes, Anywhere
  <2> QED  BY <2>1, <2>2, <2>3, SaysOneRun
<1>3. Leads(a, <<"TokenClear">>, b)
  BY SaysNone, TokenCallsAre
<1> QED
  BY <1>1, <1>2, <1>3 DEF DefineSyntax

\* Each right-hand side of tokens leads where it leads.
LEMMA TokensLeads ==
    ASSUME NEW a \in Shapes, NEW b \in Shapes, Firm(a), AddsToRun(a, "TOKEN", b), NEW rhs \in Syntax["tokens"]
    PROVE  Leads(a, rhs, b)
<1>1. Syntax["tokens"] = DefineSyntax["tokens"]
  BY SyntaxAt, SyntaxNames DEF SyntaxTables
<1>2. Leads(a, <<"tokens", "token">>, b) /\ Leads(a, <<"token">>, b)
  BY SaysList, DefineSyntaxPhrases DEF Anywhere, Firm, ItemTypes, Ready
<1> QED
  BY <1>1, <1>2 DEF DefineSyntax

\* Each right-hand side of action leads where it leads.
LEMMA ActionLeads ==
    ASSUME NEW a \in Shapes, NEW b \in Shapes, Firm(a), Adds(a, "ACTION", b), NEW rhs \in Syntax["action"]
    PROVE  Leads(a, rhs, b)
<1>1. Syntax["action"] = ActionSyntax["action"]
  BY SyntaxAt, SyntaxNames DEF SyntaxTables
<1>2. Leads(a, <<"region", "ActPos">>, b)
  BY SaysOne, ActionCallsAre, RegionSyntaxPhrases DEF Anywhere, Firm, ItemTypes, Ready
<1>3. Leads(a, <<"region", "ActHome">>, b)
  BY SaysOne, ActionCallsAre, RegionSyntaxPhrases DEF Anywhere, Firm, ItemTypes, Ready
<1>4. Leads(a, <<"region", "bmoves", "ActBallToReg">>, b)
  <2>1. Phrase("region", One("REG")) /\ Phrase("bmoves", Many("BMT"))
        /\ Builds("ActBallToReg", <<Many("BMT"), One("REG")>>, "ACTION")
    BY ActionCallsAre, RegionSyntaxPhrases, UNumSyntaxPhrases
  <2>2. Ready("region", a) /\ ("REG" = "REG" => Clean(a, "REG"))
    BY DEF Ready, Firm
  <2>3. /\ "REG" \in ItemTypes /\ "BMT" \in ItemTypes /\ "BMT" # "REG"
        /\ "bmoves" \in Anywhere \/ "REG" \notin {"UNUM", "REG", "RID"}
    BY DEF ItemTypes, Anywhere
  <2> QED  BY <2>1, <2>2, <2>3, SaysOneRun
<1>5. Leads(a, <<"unumset", "ActBallToPlayer">>, b)
  BY SaysOne, ActionCallsAre, UNumSyntaxPhrases DEF Anywhere, Firm, ItemTypes, Ready
<1>6. Leads(a, <<"unumset", "ActMark">>, b)
  BY SaysOne, ActionCallsAre, UNumSyntaxPhrases DEF Anywhere, Firm, ItemTypes, Ready
<1>7. Leads(a, <<"unumset", "ActMarkLinePlayer">>, b)
  BY SaysOne, ActionCallsAre, UNumSyntaxPhrases DEF Anywhere, Firm, ItemTypes, Ready
<1>8. Leads(a, <<"region", "ActMarkLineReg">>, b)
  BY SaysOne, ActionCallsAre, RegionSyntaxPhrases DEF Anywhere, Firm, ItemTypes, Ready
<1>9. Leads(a, <<"region", "ActOffsideLine">>, b)
  BY SaysOne, ActionCallsAre, RegionSyntaxPhrases DEF Anywhere, Firm, ItemTypes, Ready
<1>10. Leads(a, <<"ActHetType">>, b)
  BY SaysNone, ActionCallsAre
<1>11. Leads(a, <<"ActNamed">>, b)
  BY SaysNone, ActionCallsAre
<1>12. Leads(a, <<"region", "ActPassReg", "8">>, b)
  BY SaysOne, ActionCallsOfVersion8Are, RegionSyntaxPhrases DEF Anywhere, Firm, ItemTypes, Ready, Versions
<1>13. Leads(a, <<"unumset", "ActPassUNum", "8">>, b)
  BY SaysOne, ActionCallsOfVersion8Are, UNumSyntaxPhrases DEF Anywhere, Firm, ItemTypes, Ready, Versions
<1>14. Leads(a, <<"region", "ActDribble", "8">>, b)
  BY SaysOne, ActionCallsOfVersion8Are, RegionSyntaxPhrases DEF Anywhere, Firm, ItemTypes, Ready, Versions
<1>15. Leads(a, <<"region", "ActClear", "8">>, b)
  BY SaysOne, ActionCallsOfVersion8Are, RegionSyntaxPhrases DEF Anywhere, Firm, ItemTypes, Ready, Versions
<1>16. Leads(a, <<"ActShoot", "8">>, b)
  BY SaysNone, ActionCallsOfVersion8Are DEF Versions
<1>17. Leads(a, <<"ActHold", "8">>, b)
  BY SaysNone, ActionCallsOfVersion8Are DEF Versions
<1>18. Leads(a, <<"ActIntercept", "8">>, b)
  BY SaysNone, ActionCallsOfVersion8Are DEF Versions
<1>19. Leads(a, <<"unumset", "ActTackle", "8">>, b)
  BY SaysOne, ActionCallsOfVersion8Are, UNumSyntaxPhrases DEF Anywhere, Firm, ItemTypes, Ready, Versions
<1> QED
  BY <1>1, <1>2, <1>3, <1>4, <1>5, <1>6, <1>7, <1>8, <1>9, <1>10, <1>11, <1>12, <1>13,
     <1>14, <1>15, <1>16, <1>17, <1>18, <1>19 DEF ActionSyntax

\* Each right-hand side of directive leads where it leads.
LEMMA DirectiveLeads ==
    ASSUME NEW a \in Shapes, NEW b \in Shapes, Firm(a), Adds(a, "DIR", b), NEW rhs \in Syntax["directive"]
    PROVE  Leads(a, rhs, b)
<1>1. Syntax["directive"] = ActionSyntax["directive"]
  BY SyntaxAt, SyntaxNames DEF SyntaxTables
<1>2. Leads(a, <<"unumset", "actions", "DirComm">>, b)
  <2>1. Phrase("unumset", One("UNUMSET")) /\ Phrase("actions", Many("ACTION"))
        /\ Builds("DirComm", <<Many("ACTION"), One("UNUMSET")>>, "DIR")
    BY ActionSyntaxPhrases, DirectiveCallsAre, UNumSyntaxPhrases
  <2>2. Ready("unumset", a) /\ ("UNUMSET" = "REG" => Clean(a, "UNUMSET"))
    BY DEF Ready, Firm
  <2>3. /\ "UNUMSET" \in ItemTypes /\ "ACTION" \in ItemTypes /\ "ACTION" # "UNUMSET"
        /\ "actions" \in Anywhere \/ "UNUMSET" \notin {"UNUM", "REG", "RID"}
    BY DEF ItemTypes, Anywhere
  <2> QED  BY <2>1, <2>2, <2>3, SaysOneRun
<1>3. Leads(a, <<"DirNamed">>, b)
  BY SaysNone, DirectiveCallsAre
<1> QED
  BY <1>1, <1>2, <1>3 DEF ActionSyntax

\* Each right-hand side of actions leads where it leads.
LEMMA ActionsLeads ==
    ASSUME NEW a \in Shapes, NEW b \in Shapes, Firm(a), AddsToRun(a, "ACTION", b), NEW rhs \in Syntax["actions"]
    PROVE  Leads(a, rhs, b)
<1>1. Syntax["actions"] = ActionSyntax["actions"]
  BY SyntaxAt, SyntaxNames DEF SyntaxTables
<1>2. Leads(a, <<"actions", "action">>, b) /\ Leads(a, <<"action">>, b)
  BY SaysList, ActionSyntaxPhrases DEF Anywhere, Firm, ItemTypes, Ready
<1> QED
  BY <1>1, <1>2 DEF ActionSyntax

\* Each right-hand side of directives leads where it leads.
LEMMA DirectivesLeads ==
    ASSUME NEW a \in Shapes, NEW b \in Shapes, Firm(a), AddsToRun(a, "DIR", b), NEW rhs \in Syntax["directives"]
    PROVE  Leads(a, rhs, b)
<1>1. Syntax["directives"] = ActionSyntax["directives"]
  BY SyntaxAt, SyntaxNames DEF SyntaxTables
<1>2. Leads(a, <<"directives", "directive">>, b) /\ Leads(a, <<"directive">>, b)
  BY SaysList, ActionSyntaxPhrases DEF Anywhere, Firm, ItemTypes, Ready
<1> QED
  BY <1>1, <1>2 DEF ActionSyntax

\* Each right-hand side of condition leads where it leads.
LEMMA ConditionLeads ==
    ASSUME NEW a \in Shapes, NEW b \in Shapes, Firm(a), Adds(a, "COND", b), NEW rhs \in Syntax["condition"]
    PROVE  Leads(a, rhs, b)
<1>1. Syntax["condition"] = ConditionSyntax["condition"]
  BY SyntaxAt, SyntaxNames DEF SyntaxTables
<1>2. Leads(a, <<"CondTrue">>, b)
  BY SaysNone, ConditionCallsAre
<1>3. Leads(a, <<"CondFalse">>, b)
  BY SaysNone, ConditionCallsAre
<1>4. Leads(a, <<"unumset", "region", "CondPlayerPos">>, b)
  <2>1. Phrase("unumset", One("UNUMSET")) /\ Phrase("region", One("REG"))
        /\ Builds("CondPlayerPos", <<One("REG"), One("UNUMSET")>>, "COND")
    BY ConditionCallsAre, RegionSyntaxPhrases, UNumSyntaxPhrases
  <2>2. Ready("unumset", a) /\ ("UNUMSET" = "REG" => Clean(a, "UNUMSET"))
    BY DEF Ready, Firm
  <2>3. /\ "UNUMSET" \in ItemTypes /\ "REG" \in ItemTypes /\ "REG" # "UNUMSET"
        /\ "region" \in Anywhere \/ "UNUMSET" \notin {"UNUM", "REG", "RID"}
    BY DEF ItemTypes, Anywhere
  <2> QED  BY <2>1, <2>2, <2>3, SaysOneOne
<1>5. Leads(a, <<"region", "CondBallPos">>, b)
  BY SaysOne, ConditionCallsAre, RegionSyntaxPhrases DEF Anywhere, Firm, ItemTypes, Ready
<1>6. Leads(a, <<"unumset", "CondBallOwner">>, b)
  BY SaysOne, ConditionCallsAre, UNumSyntaxPhrases DEF Anywhere, Firm, ItemTypes, Ready
<1>7. Leads(a, <<"CondPlayMode">>, b)
  BY SaysNone, ConditionCallsAre
<1>8. Leads(a, <<"conditions", "CondAnd">>, b)
  BY SaysOne, ConditionCallsAre, ConditionSyntaxPhrases DEF Anywhere, Firm, ItemTypes, Ready
<1>9. Leads(a, <<"conditions", "CondOr">>, b)
  BY SaysOne, ConditionCallsAre, ConditionSyntaxPhrases DEF Anywhere, Firm, ItemTypes, Ready
<1>10. Leads(a, <<"condition", "CondNot">>, b)
  BY SaysOne, ConditionCallsAre, ConditionSyntaxPhrases DEF Anywhere, Firm, ItemTypes, Ready
<1>11. Leads(a, <<"CondNamed">>, b)
  BY SaysNone, ConditionCallsAre
<1>12. Leads(a, <<"CondTime", "8">>, b)
  BY SaysNone, CompareCallsAre DEF Versions
<1>13. Leads(a, <<"CondOppGoal", "8">>, b)
  BY SaysNone, CompareCallsAre DEF Versions
<1>14. Leads(a, <<"CondOurGoal", "8">>, b)
  BY SaysNone, CompareCallsAre DEF Versions
<1>15. Leads(a, <<"CondGoalDiff", "8">>, b)
  BY SaysNone, CompareCallsAre DEF Versions
<1>16. Leads(a, <<"unumset", "CondUNum", "8">>, b)
  BY SaysOne, CompareCallsAre, UNumSyntaxPhrases DEF Anywhere, Firm, ItemTypes, Ready, Versions
<1> QED
  BY <1>1, <1>2, <1>3, <1>4, <1>5, <1>6, <1>7, <1>8, <1>9, <1>10, <1>11, <1>12, <1>13,
     <1>14, <1>15, <1>16 DEF ConditionSyntax

\* Each right-hand side of conditions leads where it leads.
LEMMA ConditionsLeads ==
    ASSUME NEW a \in Shapes, NEW b \in Shapes, Firm(a), Adds(a, "CONDLIST", b), NEW rhs \in Syntax["conditions"]
    PROVE  Leads(a, rhs, b)
<1>1. Syntax["conditions"] = ConditionSyntax["conditions"]
  BY SyntaxAt, SyntaxNames DEF SyntaxTables
<1>2. Leads(a, <<"conditions", "condition", "AddToCondList">>, b)
  <2>1. Phrase("conditions", One("CONDLIST")) /\ Phrase("condition", One("COND"))
        /\ Builds("AddToCondList", <<One("COND"), One("CONDLIST")>>, "CONDLIST")
    BY CompareCallsAre, ConditionSyntaxPhrases
  <2>2. Ready("conditions", a) /\ ("CONDLIST" = "REG" => Clean(a, "CONDLIST"))
    BY DEF Ready, Firm
  <2>3. /\ "CONDLIST" \in ItemTypes /\ "COND" \in ItemTypes /\ "COND" # "CONDLIST"
        /\ "condition" \in Anywhere \/ "CONDLIST" \notin {"UNUM", "REG", "RID"}
    BY DEF ItemTypes, Anywhere
  <2> QED  BY <2>1, <2>2, <2>3, SaysOneOne
<1>3. Leads(a, <<"condition", "CreateCondList">>, b)
  BY SaysOne, CompareCallsAre, ConditionSyntaxPhrases DEF Anywhere, Firm, ItemTypes, Ready
<1> QED
  BY <1>1, <1>2, <1>3 DEF ConditionSyntax

\* Each right-hand side of region leads where it leads.
LEMMA RegionLeads ==
    ASSUME NEW a \in Shapes, NEW b \in Shapes, Adds(a, "REG", b), NEW rhs \in Syntax["region"]
    PROVE  Leads(a, rhs, b)
<1>1. Syntax["region"] = RegionSyntax["region"]
  BY SyntaxAt, SyntaxNames DEF SyntaxTables
<1>2. Leads(a, <<"RegNull">>, b)
  BY SaysNone, RegionCallsAre
<1>3. Leads(a, <<"point", "point", "point", "point", "RegQuad", "7">>, b)
  BY SaysFourPoints, RegionCallsAre DEF Versions
<1>4. Leads(a, <<"point", "RegArc">>, b)
  BY SaysOne, PointSyntaxPhrases, RegionCallsAre DEF Anywhere, ItemTypes, Ready
<1>5. Leads(a, <<"regions", "RegUnion">>, b)
  BY SaysUnion
<1>6. Leads(a, <<"RegNamed">>, b)
  BY SaysNone, RegionCallsAre
<1>7. Leads(a, <<"point", "RegPoint">>, b)
  BY SaysOne, PointSyntaxPhrases, RegionCallsAre DEF Anywhere, ItemTypes, Ready
<1>8. Leads(a, <<"point", "point", "point", "RegTri", "8">>, b)
  BY SaysThreePoints, RegionCallsAre DEF Versions
<1>9. Leads(a, <<"point", "point", "RegRec", "8">>, b)
  BY SaysTwoPoints, RegionCallsAre DEF Versions
<1> QED
  BY <1>1, <1>2, <1>3, <1>4, <1>5, <1>6, <1>7, <1>8, <1>9 DEF RegionSyntax

\* Each right-hand side of regions leads where it leads.
LEMMA RegionsLeads ==
    ASSUME NEW a \in Shapes, NEW b \in Shapes, AddsToRun(a, "REG", b), NEW rhs \in Syntax["regions"]
    PROVE  Leads(a, rhs, b)
<1>1. Syntax["regions"] = RegionSyntax["regions"]
  BY SyntaxAt, SyntaxNames DEF SyntaxTables
<1>2. Leads(a, <<"regions", "region">>, b) /\ Leads(a, <<"region">>, b)
  BY SaysList, RegionSyntaxPhrases DEF Anywhere, ItemTypes, Ready
<1> QED
  BY <1>1, <1>2 DEF RegionSyntax

\* Each right-hand side of point leads where it leads.
LEMMA PointLeads ==
    ASSUME NEW a \in Shapes, NEW b \in Shapes, Adds(a, "PT", b), NEW rhs \in Syntax["point"]
    PROVE  Leads(a, rhs, b)
<1>1. Syntax["point"] = PointSyntax["point"]
  BY SyntaxAt, SyntaxNames DEF SyntaxTables
<1>2. Leads(a, <<"PointSimple">>, b)
  BY SaysNone, PointCallsAre
<1>3. Leads(a, <<"point", "PointRel">>, b)
  BY SaysOne, PointCallsAre, PointSyntaxPhrases DEF Anywhere, ItemTypes, Ready
<1>4. Leads(a, <<"PointBall">>, b)
  BY SaysNone, PointCallsAre
<1>5. Leads(a, <<"PointPlayer">>, b)
  BY SaysNone, PointCallsAre
<1>6. Leads(a, <<"PointPlayer", "8">>, b)
  BY SaysNone, PointCallsAre DEF Versions
<1>7. Leads(a, <<"sum">>, b)
  BY PhraseAdds, LeadsOne, PointSyntaxPhrases DEF Anywhere, ItemTypes, Ready
<1> QED
  BY <1>1, <1>2, <1>3, <1>4, <1>5, <1>6, <1>7 DEF PointSyntax

\* Each right-hand side of sum leads where it leads.
LEMMA SumLeads ==
    ASSUME NEW a \in Shapes, NEW b \in Shapes, Adds(a, "PT", b), NEW rhs \in Syntax["sum"]
    PROVE  Leads(a, rhs, b)
<1>1. Syntax["sum"] = PointSyntax["sum"]
  BY SyntaxAt, SyntaxNames DEF SyntaxTables
<1>2. Leads(a, <<"sum", "sum", "PointArith", "8">>, b)
  BY SaysTwoPoints, PointCallsAre DEF Versions
<1>3. Leads(a, <<"point">>, b)
  BY PhraseAdds, LeadsOne, PointSyntaxPhrases DEF Anywhere, ItemTypes, Ready
<1> QED
  BY <1>1, <1>2, <1>3 DEF PointSyntax

\* Each right-hand side of unumset leads where it leads.
LEMMA UnumsetLeads ==
    ASSUME NEW a \in Shapes, NEW b \in Shapes, Firm(a), Adds(a, "UNUMSET", b), NEW rhs \in Syntax["unumset"]
    PROVE  Leads(a, rhs, b)
<1>1. Syntax["unumset"] = UNumSyntax["unumset"]
  BY SyntaxAt, SyntaxNames DEF SyntaxTables
<1>2. Leads(a, <<"unums", "UNumSet">>, b)
  BY SaysRun, PointCallsAre, UNumSyntaxPhrases DEF Anywhere, Firm, ItemTypes, Ready
<1> QED
  BY <1>1, <1>2 DEF UNumSyntax

\* Each right-hand side of unums leads where it leads.
LEMMA UnumsLeads ==
    ASSUME NEW a \in Shapes, NEW b \in Shapes, AddsToRun(a, "UNUM", b), NEW rhs \in Syntax["unums"]
    PROVE  Leads(a, rhs, b)
<1>1. Syntax["unums"] = UNumSyntax["unums"]
  BY SyntaxAt, SyntaxNames DEF SyntaxTables
<1>2. Leads(a, <<"unum">>, b) /\ Leads(a, <<"unums", "unum">>, b)
  BY SaysList, UNumSyntaxPhrases DEF Anywhere, ItemTypes, Ready
<1> QED
  BY <1>1, <1>2 DEF UNumSyntax

\* Each right-hand side of unum leads where it leads.
LEMMA UnumLeads ==
    ASSUME NEW a \in Shapes, NEW b \in Shapes, Adds(a, "UNUM", b), NEW rhs \in Syntax["unum"]
    PROVE  Leads(a, rhs, b)
<1>1. Syntax["unum"] = UNumSyntax["unum"]
  BY SyntaxAt, SyntaxNames DEF SyntaxTables
<1>2. Leads(a, <<"UNum">>, b)
  BY SaysNone, PointCallsAre
<1>3. Leads(a, <<"UNum", "8">>, b)
  BY SaysNone, PointCallsAre DEF Versions
<1> QED
  BY <1>1, <1>2, <1>3 DEF UNumSyntax

\* Each right-hand side of bmoves leads where it leads.
LEMMA BmovesLeads ==
    ASSUME NEW a \in Shapes, NEW b \in Shapes, AddsToRun(a, "BMT", b), NEW rhs \in Syntax["bmoves"]
    PROVE  Leads(a, rhs, b)
<1>1. Syntax["bmoves"] = UNumSyntax["bmoves"]
  BY SyntaxAt, SyntaxNames DEF SyntaxTables
<1>2. Leads(a, <<"bmoves", "BallMoveToken">>, b) /\ Leads(a, <<"BallMoveToken">>, b)
  BY SaysList, PointCallsAre, UNumSyntaxPhrases DEF Anywhere, ItemTypes, Ready
<1> QED
  BY <1>1, <1>2 DEF UNumSyntax

\* A message: its items are made, the message takes them all, its version
\* is set.
LEMMA SpeechLeads ==
    ASSUME NEW c, NEW v \in Versions
    PROVE  /\ Speaks(c, <<>>) => Leads(<<>>, <<c, v>>, Over)
           /\ \A x, t : /\ t \in ItemTypes
                       /\ \/ Phrase(x, Many(t)) /\ Speaks(c, <<Many(t)>>)
                          \/ Phrase(x, One(t)) /\ Speaks(c, <<One(t)>>) /\ t # "REG"
                       => Leads(<<>>, <<x, c, v>>, Over)
<1>1. v \in Symbols /\ Effect(v, Made, Over)
  BY DEF Symbols, Effect, VersionEffect
<1>2. ASSUME NEW d \in Shapes, NEW gs, Pops(d, gs, <<>>), Speaks(c, gs)
      PROVE  c \in Symbols /\ Effect(c, d, Made)
  <2>1. MessageEffect(c, d, Made)
    BY <1>2 DEF MessageEffect, Speaks
  <2> QED  BY <1>2, <2>1 DEF Effect, Speaks, Symbols
<1>3. ASSUME Speaks(c, <<>>)
      PROVE  Leads(<<>>, <<c, v>>, Over)
  <2>1. Pops(<<>>, <<>>, <<>>)
    BY EmptyShape, PopsNone
  <2>2. c \in Symbols /\ Effect(c, <<>>, Made)
    BY <1>2, <1>3, <2>1, EmptyShape
  <2> QED  BY <1>1, <2>2, LeadsTwo
<1>4. ASSUME NEW x, NEW t \in ItemTypes, NEW g, g = Many(t) \/ (g = One(t) /\ t # "REG"),
             Phrase(x, g), Speaks(c, <<g>>)
      PROVE  Leads(<<>>, <<x, c, v>>, Over)
  <2> DEFINE d == Append(<<>>, g)
  <2>1. d \in Shapes /\ Pop(d, g, <<>>)
    <3>1. CASE g = Many(t)
      BY <3>1, Grown, EmptyShape
    <3>2. CASE g = One(t)
      BY <3>2, Grown, EmptyShape
    <3> QED  BY <1>4, <3>1, <3>2
  <2>2. x \in Symbols /\ Effect(x, <<>>, d)
    BY <1>4, OnePhrase, RunPhrase, EmptyShape DEF Ready
  <2> HIDE DEF d
  <2>3. Pops(d, <<g>>, <<>>)
    BY <2>1, EmptyShape, PopsOne
  <2>4. c \in Symbols /\ Effect(c, d, Made)
    BY <1>2, <1>4, <2>1, <2>3
  <2> QED  BY <1>1, <2>2, <2>4, LeadsThree
<1> QED  BY <1>3, <1>4

\* Every message leads from the empty stack to a finished message.
LEMMA MessageLeads ==
    ASSUME NEW rhs \in Syntax["message"]
    PROVE  Leads(<<>>, rhs, Over)
<1>1. Syntax["message"] = MessageSyntax["message"]
  BY SyntaxAt, SyntaxNames DEF SyntaxTables
<1>2. Leads(<<>>, <<"metas", "MetaMsg", "7">>, Over)
  BY SpeechLeads, MessageSyntaxPhrases, MessageCallsAre DEF Versions, ItemTypes
<1>3. Leads(<<>>, <<"FreeformMsg", "8 or 7">>, Over)
  BY SpeechLeads, TokenCallsAre DEF Versions
<1>4. Leads(<<>>, <<"tokens", "InfoMsg", "7">>, Over)
  BY SpeechLeads, DefineSyntaxPhrases, TokenCallsAre DEF Versions, ItemTypes
<1>5. Leads(<<>>, <<"tokens", "AdviceMsg", "7">>, Over)
  BY SpeechLeads, DefineSyntaxPhrases, TokenCallsAre DEF Versions, ItemTypes
<1>6. Leads(<<>>, <<"defines", "DefineMsg", "8 or 7">>, Over)
  BY SpeechLeads, DefineSyntaxPhrases, MessageCallsAre DEF Versions, ItemTypes
<1>7. Leads(<<>>, <<"UnsuppMsg", "8 or 7">>, Over)
  BY SpeechLeads, TokenCallsAre DEF Versions
<1>8. Leads(<<>>, <<"actives", "RuleMsg", "8">>, Over)
  BY SpeechLeads, MessageSyntaxPhrases, RuleCallsAre DEF Versions, ItemTypes
<1>9. Leads(<<>>, <<"ids", "DelMsg", "8">>, Over)
  BY SpeechLeads, MessageSyntaxPhrases, RuleCallsAre DEF Versions, ItemTypes
<1> QED
  <2> DEFINE P(r) == Leads(<<>>, r, Over)
  <2>1. /\ P(<<"metas", "MetaMsg", "7">>) /\ P(<<"FreeformMsg", "8 or 7">>)
        /\ P(<<"tokens", "InfoMsg", "7">>) /\ P(<<"tokens", "AdviceMsg", "7">>)
        /\ P(<<"defines", "DefineMsg", "8 or 7">>) /\ P(<<"UnsuppMsg", "8 or 7">>)
        /\ P(<<"actives", "RuleMsg", "8">>) /\ P(<<"ids", "DelMsg", "8">>)
    BY <1>2, <1>3, <1>4, <1>5, <1>6, <1>7, <1>8, <1>9
  <2> HIDE DEF P
  <2>2. P(rhs)
    BY <1>1, <2>1 DEF MessageSyntax
  <2> QED  BY <2>2 DEF P

\* The messages are made by calls.
LEMMA SpeechIsCall ==
    Messages \subseteq Calls
  BY MessageCallsAre, TokenCallsAre, RuleCallsAre DEF Messages, Speaks

\* Deriving a symbol keeps where the derivation leads.
LEMMA DeriveLeads ==
    ASSUME NEW x \in DOMAIN Syntax, NEW a, NEW b, Effect(x, a, b), NEW rhs \in Syntax[x]
    PROVE  Leads(a, rhs, b)
<1>1. x \notin Calls /\ x \notin Versions
  BY SymbolsApart
<1>2. CASE x = "message"
  BY <1>1, <1>2, MessageLeads, SpeechIsCall DEF Effect
<1>3. CASE x # "message"
  <2>1. PhraseEffect(x, a, b)
    BY <1>1, <1>3, SpeechIsCall DEF Effect
  <2>2. a \in Shapes /\ b \in Shapes /\ (x \in Anywhere \/ Firm(a))
    BY <2>1 DEF PhraseEffect
  <2>3. PICK t \in SyntaxTables : x \in DOMAIN t
    BY SyntaxDomain
  <2>4. CASE t = MessageSyntax
    <3>1. CASE x = "actives"
      BY <3>1, <2>1, <2>2, MessageSyntaxPhrases, ActivesLeads DEF PhraseEffect, Phrase, One, Many, Anywhere
    <3>2. CASE x = "active"
      BY <3>2, <2>1, <2>2, MessageSyntaxPhrases, ActiveLeads DEF PhraseEffect, Phrase, One, Many, Anywhere
    <3>3. CASE x = "ids"
      BY <3>3, <2>1, <2>2, MessageSyntaxPhrases, IdsLeads DEF PhraseEffect, Phrase, One, Many, Anywhere
    <3>4. CASE x = "idlist"
      BY <3>4, <2>1, <2>2, MessageSyntaxPhrases, IdlistLeads DEF PhraseEffect, Phrase, One, Many, Anywhere
    <3>5. CASE x = "metas"
      BY <3>5, <2>1, <2>2, MessageSyntaxPhrases, MetasLeads DEF PhraseEffect, Phrase, One, Many, Anywhere
    <3> QED  BY <1>3, <2>3, <2>4, <3>1, <3>2, <3>3, <3>4, <3>5, SyntaxNames
  <2>5. CASE t = DefineSyntax
    <3>1. CASE x = "defines"
      BY <3>1, <2>1, <2>2, DefineSyntaxPhrases, DefinesLeads DEF PhraseEffect, Phrase, One, Many, Anywhere
    <3>2. CASE x = "define"
      BY <3>2, <2>1, <2>2, DefineSyntaxPhrases, DefineLeads DEF PhraseEffect, Phrase, One, Many, Anywhere
    <3>3. CASE x = "rule"
      BY <3>3, <2>1, <2>2, DefineSyntaxPhrases, RuleLeads DEF PhraseEffect, Phrase, One, Many, Anywhere
    <3>4. CASE x = "rules"
      BY <3>4, <2>1, <2>2, DefineSyntaxPhrases, RulesLeads DEF PhraseEffect, Phrase, One, Many, Anywhere
    <3>5. CASE x = "token"
      BY <3>5, <2>1, <2>2, DefineSyntaxPhrases, TokenLeads DEF PhraseEffect, Phrase, One, Many, Anywhere
    <3>6. CASE x = "tokens"
      BY <3>6, <2>1, <2>2, DefineSyntaxPhrases, TokensLeads DEF PhraseEffect, Phrase, One, Many, Anywhere
    <3> QED  BY <1>3, <2>3, <2>5, <3>1, <3>2, <3>3, <3>4, <3>5, <3>6, SyntaxNames
  <2>6. CASE t = ActionSyntax
    <3>1. CASE x = "action"
      BY <3>1, <2>1, <2>2, ActionSyntaxPhrases, ActionLeads DEF PhraseEffect, Phrase, One, Many, Anywhere
    <3>2. CASE x = "directive"
      BY <3>2, <2>1, <2>2, ActionSyntaxPhrases, DirectiveLeads DEF PhraseEffect, Phrase, One, Many, Anywhere
    <3>3. CASE x = "actions"
      BY <3>3, <2>1, <2>2, ActionSyntaxPhrases, ActionsLeads DEF PhraseEffect, Phrase, One, Many, Anywhere
    <3>4. CASE x = "directives"
      BY <3>4, <2>1, <2>2, ActionSyntaxPhrases, DirectivesLeads DEF PhraseEffect, Phrase, One, Many, Anywhere
    <3> QED  BY <1>3, <2>3, <2>6, <3>1, <3>2, <3>3, <3>4, SyntaxNames
  <2>7. CASE t = ConditionSyntax
    <3>1. CASE x = "condition"
      BY <3>1, <2>1, <2>2, ConditionSyntaxPhrases, ConditionLeads DEF PhraseEffect, Phrase, One, Many, Anywhere
    <3>2. CASE x = "conditions"
      BY <3>2, <2>1, <2>2, ConditionSyntaxPhrases, ConditionsLeads DEF PhraseEffect, Phrase, One, Many, Anywhere
    <3> QED  BY <1>3, <2>3, <2>7, <3>1, <3>2, SyntaxNames
  <2>8. CASE t = RegionSyntax
    <3>1. CASE x = "region"
      BY <3>1, <2>1, <2>2, RegionSyntaxPhrases, RegionLeads DEF PhraseEffect, Phrase, One, Many, Anywhere
    <3>2. CASE x = "regions"
      BY <3>2, <2>1, <2>2, RegionSyntaxPhrases, RegionsLeads DEF PhraseEffect, Phrase, One, Many, Anywhere
    <3> QED  BY <1>3, <2>3, <2>8, <3>1, <3>2, SyntaxNames
  <2>9. CASE t = PointSyntax
    <3>1. CASE x = "point"
      BY <3>1, <2>1, <2>2, PointSyntaxPhrases, PointLeads DEF PhraseEffect, Phrase, One, Many, Anywhere
    <3>2. CASE x = "sum"
      BY <3>2, <2>1, <2>2, PointSyntaxPhrases, SumLeads DEF PhraseEffect, Phrase, One, Many, Anywhere
    <3> QED  BY <1>3, <2>3, <2>9, <3>1, <3>2, SyntaxNames
  <2>10. CASE t = UNumSyntax
    <3>1. CASE x = "unumset"
      BY <3>1, <2>1, <2>2, UNumSyntaxPhrases, UnumsetLeads DEF PhraseEffect, Phrase, One, Many, Anywhere
    <3>2. CASE x = "unums"
      BY <3>2, <2>1, <2>2, UNumSyntaxPhrases, UnumsLeads DEF PhraseEffect, Phrase, One, Many, Anywhere
    <3>3. CASE x = "unum"
      BY <3>3, <2>1, <2>2, UNumSyntaxPhrases, UnumLeads DEF PhraseEffect, Phrase, One, Many, Anywhere
    <3>4. CASE x = "bmoves"
      BY <3>4, <2>1, <2>2, UNumSyntaxPhrases, BmovesLeads DEF PhraseEffect, Phrase, One, Many, Anywhere
    <3> QED  BY <1>3, <2>3, <2>10, <3>1, <3>2, <3>3, <3>4, SyntaxNames
  <2> QED  BY <2>3, <2>4, <2>5, <2>6, <2>7, <2>8, <2>9, <2>10 DEF SyntaxTables
<1> QED  BY <1>2, <1>3

-----------------------------------------------------------------------------
(* The builder's stack has a shape if it can be cut into parts, one for    *)
(* each entry.                                                             *)
Texts == Seq(SUBSET Nat)
Items == [type : ItemTypes, text : Texts]

Part(s, lo, hi, e) ==
  /\ lo < hi /\ hi <= Len(s)
  /\ \A j \in lo + 1 .. hi : s[j].type = e.type
  /\ e.many \/ hi = lo + 1
CutBy(p, s, a) ==
  /\ p \in [0 .. Len(a) -> Nat] /\ p[0] = 0 /\ p[Len(a)] = Len(s)
  /\ \A i \in 1 .. Len(a) : Part(s, p[i - 1], p[i], a[i])
HasShape(s, a) == \E p : CutBy(p, s, a)

\* The empty shape is the shape of the empty stack alone.
LEMMA EmptyStack ==
    /\ HasShape(<<>>, <<>>)
    /\ \A s \in Seq(Items) : HasShape(s, <<>>) => s = <<>>
<1> DEFINE p == [i \in 0 .. 0 |-> 0]
<1>1. CutBy(p, <<>>, <<>>)
  BY DEF CutBy
<1>2. ASSUME NEW s \in Seq(Items), NEW q, CutBy(q, s, <<>>)
      PROVE  s = <<>>
  <2>1. Len(s) = 0
    BY <1>2 DEF CutBy
  <2> QED  BY <2>1
<1> QED  BY <1>1, <1>2 DEF HasShape

\* A pushed item is a new entry.
LEMMA ItemPushed ==
    ASSUME NEW s \in Seq(Items), NEW a \in Shapes, HasShape(s, a), NEW x \in Items,
           NEW e \in Entries, e.type = x.type
    PROVE  HasShape(Append(s, x), Append(a, e))
<1>1. PICK p : CutBy(p, s, a)
  BY DEF HasShape
<1> DEFINE r == Append(s, x)
           b == Append(a, e)
           q == [i \in 0 .. Len(a) + 1 |-> IF i <= Len(a) THEN p[i] ELSE Len(s) + 1]
<1>2. Len(s) \in Nat /\ Len(a) \in Nat
  BY DEF Shapes
<1>3. Len(r) = Len(s) + 1 /\ r[Len(s) + 1] = x /\ \A j \in 1 .. Len(s) : r[j] = s[j]
  OBVIOUS
<1>4. Len(b) = Len(a) + 1 /\ b[Len(a) + 1] = e /\ \A i \in 1 .. Len(a) : b[i] = a[i]
  BY DEF Shapes
<1>5. p \in [0 .. Len(a) -> Nat] /\ p[0] = 0 /\ p[Len(a)] = Len(s)
  BY <1>1 DEF CutBy
<1>6. q \in [0 .. Len(b) -> Nat] /\ q[Len(b)] = Len(r) /\ \A i \in 0 .. Len(a) : q[i] = p[i]
  BY <1>2, <1>3, <1>4, <1>5
<1> HIDE DEF q, r, b
<1>7. ASSUME NEW i \in 1 .. Len(b)
      PROVE  Part(r, q[i - 1], q[i], b[i])
  <2>1. CASE i <= Len(a)
    <3>1. i \in 1 .. Len(a) /\ i - 1 \in 0 .. Len(a) /\ i \in 0 .. Len(a)
      BY <2>1, <1>2, <1>4
    <3>2. Part(s, p[i - 1], p[i], a[i])
      BY <3>1, <1>1 DEF CutBy
    <3>3. p[i - 1] \in Nat /\ p[i] \in Nat
      BY <3>1, <1>5
    <3>4. \A j \in p[i - 1] + 1 .. p[i] : r[j] = s[j]
      BY <3>2, <3>3, <1>2, <1>3 DEF Part
    <3>5. Part(r, p[i - 1], p[i], a[i])
      BY <3>2, <3>3, <3>4, <1>2, <1>3, SMTT(30) DEF Part
    <3> QED  BY <3>1, <3>5, <1>4, <1>6
  <2>2. CASE ~(i <= Len(a))
    <3>1. i = Len(a) + 1 /\ i - 1 = Len(a) /\ Len(a) \in 0 .. Len(a) /\ i = Len(b)
      BY <2>2, <1>2, <1>4
    <3>2. q[i - 1] = Len(s) /\ q[i] = Len(s) + 1 /\ b[i] = e
      BY <3>1, <1>3, <1>4, <1>5, <1>6
    <3>3. Part(r, Len(s), Len(s) + 1, e)
      BY <1>2, <1>3 DEF Part
    <3> QED  BY <3>2, <3>3
  <2> QED  BY <2>1, <2>2
<1>8. 0 \in 0 .. Len(a)
  BY <1>2
<1>9. CutBy(q, r, b)
  BY <1>5, <1>6, <1>7, <1>8 DEF CutBy
<1> QED  BY <1>9 DEF HasShape, r, b

\* An item of the same type makes the run on top longer.
LEMMA ItemOnRun ==
    ASSUME NEW s \in Seq(Items), NEW m \in Shapes, NEW e \in Entries, e.many,
           HasShape(s, Append(m, e)), NEW x \in Items, e.type = x.type
    PROVE  HasShape(Append(s, x), Append(m, e))
<1> DEFINE r == Append(s, x)
           a == Append(m, e)
<1>1. PICK p : CutBy(p, s, a)
  BY DEF HasShape
<1>2. Len(s) \in Nat /\ Len(m) \in Nat
  BY DEF Shapes
<1>3. Len(r) = Len(s) + 1 /\ r[Len(s) + 1] = x /\ \A j \in 1 .. Len(s) : r[j] = s[j]
  OBVIOUS
<1>4. Len(a) = Len(m) + 1 /\ a[Len(m) + 1] = e
  BY DEF Shapes
<1> HIDE DEF r, a
<1> DEFINE n == Len(a)
           q == [i \in 0 .. n |-> IF i < n THEN p[i] ELSE Len(s) + 1]
<1>5. p \in [0 .. n -> Nat] /\ p[0] = 0 /\ p[n] = Len(s) /\ n \in Nat /\ n > 0 /\ a[n] = e
  BY <1>1, <1>2, <1>4 DEF CutBy
<1>6. q \in [0 .. n -> Nat] /\ q[n] = Len(r) /\ q[0] = 0 /\ \A i \in 0 .. n : i < n => q[i] = p[i]
  BY <1>2, <1>3, <1>5
<1> HIDE DEF q, n
<1>7. ASSUME NEW i \in 1 .. n
      PROVE  Part(r, q[i - 1], q[i], a[i])
  <2>1. i - 1 \in 0 .. n /\ i - 1 < n /\ i \in 0 .. n
    BY <1>5
  <2>2. q[i - 1] = p[i - 1] /\ p[i - 1] \in Nat /\ p[i] \in Nat
    BY <2>1, <1>5, <1>6
  <2>3. Part(s, p[i - 1], p[i], a[i])
    BY <1>1 DEF CutBy, n
  <2>4. CASE i < n
    <3>1. q[i] = p[i]
      BY <2>1, <2>4, <1>6
    <3>2. \A j \in p[i - 1] + 1 .. p[i] : r[j] = s[j]
      BY <2>2, <2>3, <1>2, <1>3 DEF Part
    <3>3. Part(r, p[i - 1], p[i], a[i])
      BY <2>2, <2>3, <3>2, <1>2, <1>3, SMTT(30) DEF Part
    <3> QED  BY <2>2, <3>1, <3>3
  <2>5. CASE ~(i < n)
    <3>1. i = n /\ a[i] = e /\ p[i] = Len(s) /\ q[i] = Len(s) + 1
      BY <2>5, <1>3, <1>5, <1>6
    <3>2. p[i - 1] < Len(s) /\ \A j \in p[i - 1] + 1 .. Len(s) : s[j].type = e.type
      BY <2>3, <3>1 DEF Part
    <3>3. \A j \in p[i - 1] + 1 .. Len(s) + 1 : r[j].type = e.type
      <4> TAKE j \in p[i - 1] + 1 .. Len(s) + 1
      <4>1. CASE j = Len(s) + 1
        BY <4>1, <1>3
      <4>2. CASE j # Len(s) + 1
        <5>1. j \in p[i - 1] + 1 .. Len(s) /\ j \in 1 .. Len(s)
          BY <4>2, <2>2, <1>2
        <5> QED  BY <5>1, <3>2, <1>3
      <4> QED  BY <4>1, <4>2
    <3>4. Part(r, p[i - 1], Len(s) + 1, e)
      BY <2>2, <3>2, <3>3, <1>2, <1>3 DEF Part
    <3> QED  BY <2>2, <3>1, <3>4
  <2> QED  BY <2>4, <2>5
<1>8. CutBy(q, r, a)
  BY <1>6, <1>7 DEF CutBy, n
<1> QED  BY <1>8 DEF HasShape, r, a

\* What lies on top, and what is below it.
LEMMA ItemsPopped ==
    ASSUME NEW s \in Seq(Items), NEW m \in Shapes, NEW e \in Entries, HasShape(s, Append(m, e))
    PROVE  \E k \in 0 .. Len(s) - 1 :
             /\ HasShape(SubSeq(s, 1, k), m)
             /\ \A j \in k + 1 .. Len(s) : s[j].type = e.type
             /\ e.many \/ k = Len(s) - 1
             /\ k = 0 \/ (m # <<>> /\ s[k].type = m[Len(m)].type)
<1> DEFINE a == Append(m, e)
           n == Len(m)
<1>1. PICK p : CutBy(p, s, a)
  BY DEF HasShape
<1>2. Len(s) \in Nat /\ n \in Nat
  BY DEF Shapes
<1>3. Len(a) = n + 1 /\ a[n + 1] = e /\ \A i \in 1 .. n : a[i] = m[i]
  BY DEF Shapes
<1> HIDE DEF a
<1>4. p \in [0 .. n + 1 -> Nat] /\ p[0] = 0 /\ p[n + 1] = Len(s)
  BY <1>1, <1>3 DEF CutBy
<1>5. \A i \in 1 .. n + 1 : Part(s, p[i - 1], p[i], a[i])
  BY <1>1, <1>3 DEF CutBy
<1> DEFINE k == p[n]
           r == SubSeq(s, 1, k)
<1>6. Part(s, k, Len(s), e)
  <2>1. n + 1 \in 1 .. n + 1 /\ (n + 1) - 1 = n
    BY <1>2
  <2> QED  BY <2>1, <1>3, <1>4, <1>5
<1>7. k \in 0 .. Len(s) - 1 /\ k \in Nat
  <2>1. k \in Nat
    BY <1>2, <1>4
  <2> QED  BY <2>1, <1>2, <1>6 DEF Part
<1>8. r \in Seq(Items) /\ Len(r) = k /\ \A j \in 1 .. k : r[j] = s[j]
  BY <1>2, <1>7
<1> HIDE DEF r
<1>9. ASSUME NEW i \in 1 .. n
      PROVE  Part(s, p[i - 1], p[i], m[i]) /\ p[i] \in Nat /\ p[i - 1] \in Nat
  <2>1. i \in 1 .. n + 1 /\ i \in 0 .. n + 1 /\ i - 1 \in 0 .. n + 1
    BY <1>2
  <2> QED  BY <2>1, <1>3, <1>4, <1>5
<1>10. \A i \in 0 .. n : p[i] <= k
  <2> DEFINE T == {i \in 0 .. n : p[n - i] <= k}
  <2>1. 0 \in T
    BY <1>2, <1>7
  <2>2. ASSUME NEW i \in 1 .. n, i - 1 \in T PROVE i \in T
    <3>1. p[n - (i - 1)] <= k
      BY <2>2
    <3>2. n - i + 1 \in 1 .. n /\ (n - i + 1) - 1 = n - i /\ n - (i - 1) = n - i + 1
      BY <1>2
    <3>3. Part(s, p[(n - i + 1) - 1], p[n - i + 1], m[n - i + 1])
          /\ p[n - i + 1] \in Nat /\ p[(n - i + 1) - 1] \in Nat
      BY <3>2, <1>9
    <3>4. p[n - i] < p[n - i + 1] /\ p[n - i + 1] \in Nat /\ p[n - i] \in Nat
      BY <3>2, <3>3 DEF Part
    <3>5. p[n - i] <= k
      BY <3>1, <3>2, <3>4, <1>7
    <3> QED  BY <3>5, <1>2
  <2> HIDE DEF T
  <2>3. \A i \in 0 .. n : i \in T
    BY <1>2, <2>1, <2>2, CountedUp
  <2>4. ASSUME NEW i \in 0 .. n PROVE p[i] <= k
    <3>1. n - i \in 0 .. n /\ n - (n - i) = i
      BY <1>2
    <3>2. n - i \in T
      BY <2>3, <3>1
    <3>3. p[n - (n - i)] <= k
      BY <3>2 DEF T
    <3> QED  BY <3>1, <3>3
  <2> QED  BY <2>4
<1> DEFINE q == [i \in 0 .. n |-> p[i]]
<1>11. q \in [0 .. n -> Nat] /\ (\A i \in 0 .. n : q[i] = p[i]) /\ 0 \in 0 .. n /\ n \in 0 .. n
  BY <1>2, <1>4
<1> HIDE DEF q
<1>12. ASSUME NEW i \in 1 .. n
       PROVE  Part(r, q[i - 1], q[i], m[i])
  <2>1. i \in 0 .. n /\ i - 1 \in 0 .. n
    BY <1>2
  <2>2. Part(s, p[i - 1], p[i], m[i]) /\ p[i] \in Nat /\ p[i - 1] \in Nat /\ p[i] <= k
    BY <2>1, <1>9, <1>10
  <2>3. \A j \in p[i - 1] + 1 .. p[i] : r[j] = s[j]
    BY <2>2, <1>7, <1>8
  <2>4. Part(r, p[i - 1], p[i], m[i])
    BY <2>2, <2>3, <1>7, <1>8 DEF Part
  <2> QED  BY <2>1, <2>4, <1>11
<1>13. CutBy(q, r, m)
  BY <1>4, <1>8, <1>11, <1>12 DEF CutBy
<1>14. k = 0 \/ (m # <<>> /\ s[k].type = m[n].type)
  <2>1. CASE n = 0
    BY <2>1, <1>4
  <2>2. CASE n # 0
    <3>1. n \in 1 .. n
      BY <2>2, <1>2
    <3>2. Part(s, p[n - 1], k, m[n]) /\ p[n - 1] \in Nat
      BY <3>1, <1>9
    <3>3. k \in p[n - 1] + 1 .. k
      BY <3>2, <1>7 DEF Part
    <3>4. m # <<>>
      BY <2>2
    <3> QED  BY <3>2, <3>3, <3>4 DEF Part
  <2> QED  BY <2>1, <2>2
<1>15. HasShape(r, m)
  BY <1>13 DEF HasShape
<1>16. HasShape(SubSeq(s, 1, k), m)
  BY <1>15 DEF r
<1>17. (\A j \in k + 1 .. Len(s) : s[j].type = e.type) /\ (e.many \/ k = Len(s) - 1)
  BY <1>2, <1>6, <1>7 DEF Part
<1> HIDE DEF k
<1> QED  BY <1>7, <1>14, <1>16, <1>17, Zenon DEF n

-----------------------------------------------------------------------------
(* Texts, and texts one after the other.                                   *)
Before(A, B) == \A a \in A, b \in B : a < b
Marks(x) == UNION {x[i] : i \in 1 .. Len(x)}
InOrder(x) == \A i, j \in 1 .. Len(x) : i < j => Before(x[i], x[j])

\* A mark of a text is in one of its sets.
LEMMA MarkIn ==
    ASSUME NEW x, NEW w
    PROVE  w \in Marks(x) <=> \E i \in 1 .. Len(x) : w \in x[i]
  BY DEF Marks

\* Two texts in order, the first before the second, are in order when they are joined.
LEMMA TextsJoined ==
    ASSUME NEW x \in Texts, NEW y \in Texts, InOrder(x), InOrder(y), Before(Marks(x), Marks(y))
    PROVE  /\ x \o y \in Texts /\ InOrder(x \o y)
           /\ Marks(x \o y) = Marks(x) \cup Marks(y)
<1> DEFINE z == x \o y
           n == Len(x)
<1>1. n \in Nat /\ Len(y) \in Nat
  BY DEF Texts
<1>2. z \in Texts /\ Len(z) = n + Len(y) /\ (\A i \in 1 .. n : z[i] = x[i])
      /\ \A i \in 1 .. Len(y) : z[n + i] = y[i]
  BY DEF Texts
<1> HIDE DEF z, n
<1>3. ASSUME NEW i \in 1 .. Len(z)
      PROVE  (i \in 1 .. n /\ z[i] = x[i]) \/ (~(i <= n) /\ i - n \in 1 .. Len(y) /\ z[i] = y[i - n])
  <2>1. CASE i <= n
    BY <2>1, <1>1, <1>2
  <2>2. CASE ~(i <= n)
    <3>1. i - n \in 1 .. Len(y) /\ n + (i - n) = i
      BY <2>2, <1>1, <1>2
    <3> QED  BY <2>2, <3>1, <1>2
  <2> QED  BY <2>1, <2>2
<1>4. Marks(z) = Marks(x) \cup Marks(y)
  <2>1. ASSUME NEW w \in Marks(z) PROVE w \in Marks(x) \cup Marks(y)
    <3>1. PICK i \in 1 .. Len(z) : w \in z[i]
      BY <2>1, MarkIn
    <3> QED  BY <3>1, <1>3, MarkIn DEF n
  <2>2. ASSUME NEW w \in Marks(x) PROVE w \in Marks(z)
    <3>1. PICK i \in 1 .. n : w \in x[i]
      BY <2>2, MarkIn DEF n
    <3>2. i \in 1 .. Len(z) /\ w \in z[i]
      BY <3>1, <1>1, <1>2
    <3> QED  BY <3>2, MarkIn
  <2>3. ASSUME NEW w \in Marks(y) PROVE w \in Marks(z)
    <3>1. PICK i \in 1 .. Len(y) : w \in y[i]
      BY <2>3, MarkIn
    <3>2. n + i \in 1 .. Len(z) /\ w \in z[n + i]
      BY <3>1, <1>1, <1>2
    <3> QED  BY <3>2, MarkIn
  <2> QED  BY <2>1, <2>2, <2>3
<1>5. ASSUME NEW i \in 1 .. Len(z), NEW j \in 1 .. Len(z), i < j
      PROVE  Before(z[i], z[j])
  <2>1. CASE j <= n
    <3>1. i \in 1 .. n /\ j \in 1 .. n /\ z[i] = x[i] /\ z[j] = x[j]
      BY <2>1, <1>1, <1>2, <1>5
    <3> QED  BY <3>1, <1>5 DEF InOrder, n
  <2>2. CASE ~(i <= n)
    <3>1. i - n \in 1 .. Len(y) /\ j - n \in 1 .. Len(y) /\ z[i] = y[i - n] /\ z[j] = y[j - n]
          /\ i - n < j - n
      BY <2>2, <1>1, <1>2, <1>3, <1>5
    <3> QED  BY <3>1 DEF InOrder
  <2>3. CASE i <= n /\ ~(j <= n)
    <3>1. i \in 1 .. n /\ z[i] = x[i] /\ j - n \in 1 .. Len(y) /\ z[j] = y[j - n]
      BY <2>3, <1>1, <1>3
    <3>2. ASSUME NEW a \in z[i], NEW b \in z[j] PROVE a < b
      <4>1. a \in Marks(x) /\ b \in Marks(y)
        BY <3>1, <3>2, MarkIn DEF n
      <4> QED  BY <4>1 DEF Before
    <3> QED  BY <3>2 DEF Before
  <2> QED  BY <2>1, <2>2, <2>3, <1>1
<1> QED  BY <1>2, <1>4, <1>5 DEF InOrder, z

\* The recursion of FlattenSeq is well defined.
FlattensBy(f, seqs) ==
  /\ f \in [1 .. Len(seqs) -> Texts] /\ FlattenSeq(seqs) = f[Len(seqs)]
  /\ f[1] = seqs[1]
  /\ \A i \in 2 .. Len(seqs) : f[i] = f[i - 1] \o seqs[i]

\* FlattenSeq joins the texts from the first to the last.
LEMMA FlattenMeets ==
    ASSUME NEW seqs \in Seq(Texts), Len(seqs) > 0
    PROVE  \E f : FlattensBy(f, seqs)
<1> DEFINE n == Len(seqs)
           F == [q \in (1 .. n) \X Texts |-> IF q[1] = 1 THEN seqs[1] ELSE q[2] \o seqs[q[1]]]
           Step(g) == [i \in 1 .. n |-> IF i = 1 THEN seqs[i] ELSE g[i - 1] \o seqs[i]]
<1>1. n \in Nat /\ n > 0 /\ \A i \in 1 .. n : seqs[i] \in Texts
  OBVIOUS
<1>2. ASSUME NEW x \in Texts, NEW y \in Texts PROVE x \o y \in Texts
  BY <1>2 DEF Texts
<1>3. <<>> \in Texts
  BY DEF Texts
<1>4. F \in NextOnes(n, Texts)
  <2>1. ASSUME NEW q \in (1 .. n) \X Texts
        PROVE  (IF q[1] = 1 THEN seqs[1] ELSE q[2] \o seqs[q[1]]) \in Texts
    <3>1. q[1] \in 1 .. n /\ q[2] \in Texts /\ 1 \in 1 .. n
      BY <1>1
    <3> QED  BY <3>1, <1>1, <1>2
  <2> QED  BY <2>1 DEF NextOnes
<1>5. \A i \in 1 .. n, x \in Texts : F[<<i, x>>] = IF i = 1 THEN seqs[1] ELSE x \o seqs[i]
  OBVIOUS
<1> HIDE DEF F, n
<1>6. PICK h : Recursion(n, Texts, <<>>, F, h)
  BY <1>1, <1>3, <1>4, RecursionMeets
<1>7. h \in [0 .. n -> Texts] /\ \A i \in 1 .. n : h[i] = F[<<i, h[i - 1]>>]
  BY <1>6 DEF Recursion
<1> DEFINE f == [i \in 1 .. n |-> h[i]]
<1>8. f \in [1 .. n -> Texts]
  BY <1>1, <1>7
<1>9. f = Step(f)
  <2>1. ASSUME NEW i \in 1 .. n PROVE f[i] = IF i = 1 THEN seqs[i] ELSE f[i - 1] \o seqs[i]
    <3>1. i - 1 \in 0 .. n /\ h[i - 1] \in Texts /\ (i # 1 => i - 1 \in 1 .. n)
      BY <1>1, <1>7
    <3> QED  BY <3>1, <1>5, <1>7
  <2> QED  BY <2>1, <1>8
<1> DEFINE r == CHOOSE g : g = Step(g)
<1>10. r = Step(r)
  <2> HIDE DEF Step, f
  <2> QED  BY <1>9, Zenon
<1>11. FlattenSeq(seqs) = r[n]
  <2>1. ~(Len(seqs) = 0)
    BY <1>1 DEF n
  <2> QED  BY <2>1, Zenon DEF FlattenSeq, n
<1> HIDE DEF r, f
<1>12. \A i \in 1 .. n : r[i] = IF i = 1 THEN seqs[i] ELSE r[i - 1] \o seqs[i]
  BY <1>10
<1>13. r \in [1 .. n -> Texts]
  <2> DEFINE T == {i \in 0 .. n : i = 0 \/ r[i] \in Texts}
  <2>1. 0 \in T
    BY <1>1
  <2>2. ASSUME NEW i \in 1 .. n, i - 1 \in T PROVE i \in T
    <3>1. r[i] = IF i = 1 THEN seqs[i] ELSE r[i - 1] \o seqs[i]
      BY <1>12
    <3>2. i = 1 \/ r[i - 1] \in Texts
      BY <2>2
    <3>3. r[i] \in Texts
      BY <3>1, <3>2, <1>1, <1>2
    <3> QED  BY <3>3
  <2> HIDE DEF T
  <2>3. \A i \in 0 .. n : i \in T
    BY <1>1, <2>1, <2>2, CountedUp
  <2>4. \A i \in 1 .. n : r[i] \in Texts
    <3> TAKE i \in 1 .. n
    <3>1. i \in T /\ i # 0
      BY <1>1, <2>3
    <3> QED  BY <3>1 DEF T
  <2>5. r = [i \in 1 .. n |-> r[i]]
    BY <1>10
  <2> QED  BY <2>4, <2>5
<1>14. r[1] = seqs[1] /\ \A i \in 2 .. n : r[i] = r[i - 1] \o seqs[i]
  <2>1. 1 \in 1 .. n /\ \A i \in 2 .. n : i \in 1 .. n /\ i # 1
    BY <1>1
  <2> QED  BY <2>1, <1>12
<1>15. FlattensBy(r, seqs)
  BY <1>11, <1>13, <1>14 DEF FlattensBy, n
<1> QED  BY <1>15

\* Texts in order, each before the next, are in order when they are joined.
LEMMA Flattened ==
    ASSUME NEW seqs \in Seq(Texts), \A i \in 1 .. Len(seqs) : InOrder(seqs[i]),
           \A i, j \in 1 .. Len(seqs) : i < j => Before(Marks(seqs[i]), Marks(seqs[j]))
    PROVE  /\ FlattenSeq(seqs) \in Texts /\ InOrder(FlattenSeq(seqs))
           /\ Marks(FlattenSeq(seqs)) = UNION {Marks(seqs[i]) : i \in 1 .. Len(seqs)}
<1> DEFINE n == Len(seqs)
           Up(k) == UNION {Marks(seqs[i]) : i \in 1 .. k}
<1>1. n \in Nat /\ \A i \in 1 .. n : seqs[i] \in Texts
  OBVIOUS
<1>2. CASE n = 0
  <2>1. FlattenSeq(seqs) = seqs
    BY <1>2 DEF FlattenSeq
  <2>2. seqs = <<>>
    BY <1>2
  <2>3. <<>> \in Texts /\ InOrder(<<>>) /\ Marks(<<>>) = {}
    BY DEF Texts, InOrder, Marks
  <2>4. UNION {Marks(seqs[i]) : i \in 1 .. n} = {}
    BY <1>2
  <2> QED  BY <2>1, <2>2, <2>3, <2>4
<1>3. CASE n > 0
  <2>1. PICK f : FlattensBy(f, seqs)
    BY <1>3, FlattenMeets
  <2>2. f \in [1 .. n -> Texts] /\ FlattenSeq(seqs) = f[n] /\ f[1] = seqs[1]
        /\ \A i \in 2 .. n : f[i] = f[i - 1] \o seqs[i]
    BY <2>1 DEF FlattensBy
  <2> DEFINE T == {k \in 0 .. n : k = 0 \/ (InOrder(f[k]) /\ Marks(f[k]) = Up(k))}
  <2>3. 0 \in T
    BY <1>1
  <2>4. ASSUME NEW k \in 1 .. n, k - 1 \in T PROVE k \in T
    <3>1. \A w : w \in Up(k) <=> w \in Up(k - 1) \/ w \in Marks(seqs[k])
      <4>1. \A i \in 1 .. k : i = k \/ i \in 1 .. k - 1
        OBVIOUS
      <4>2. \A i \in 1 .. k - 1 : i \in 1 .. k
        OBVIOUS
      <4>3. k \in 1 .. k
        OBVIOUS
      <4> QED  BY <4>1, <4>2, <4>3
    <3> HIDE DEF Up
    <3>2. CASE k = 1
      <4>1. Up(0) = {}
        BY DEF Up
      <4>4. k - 1 = 0
        BY <3>2
      <4>5. \A w : w \in Up(1) <=> w \in Marks(seqs[1])
        BY <3>1, <3>2, <4>1, <4>4
      <4>2. Marks(f[1]) = Up(1)
        BY <4>5, <2>2
      <4>3. InOrder(f[1])
        BY <2>2, <3>2
      <4> QED  BY <3>2, <4>2, <4>3
    <3>3. CASE k # 1
      <4>1. k \in 2 .. n /\ k - 1 \in 1 .. n /\ k - 1 # 0
        BY <3>3, <1>1
      <4>2. InOrder(f[k - 1]) /\ Marks(f[k - 1]) = Up(k - 1) /\ f[k - 1] \in Texts
        BY <4>1, <2>2, <2>4
      <4>3. Before(Up(k - 1), Marks(seqs[k]))
        <5>1. ASSUME NEW a \in Up(k - 1), NEW b \in Marks(seqs[k]) PROVE a < b
          <6>1. PICK i \in 1 .. k - 1 : a \in Marks(seqs[i])
            BY <5>1 DEF Up
          <6>2. i \in 1 .. n /\ i < k
            BY <1>1, <4>1
          <6>3. Before(Marks(seqs[i]), Marks(seqs[k]))
            BY <6>2
          <6> QED  BY <5>1, <6>1, <6>3 DEF Before
        <5> QED  BY <5>1 DEF Before
      <4>4. f[k] = f[k - 1] \o seqs[k] /\ seqs[k] \in Texts /\ InOrder(seqs[k])
        BY <4>1, <2>2, <1>1
      <4>5. InOrder(f[k]) /\ Marks(f[k]) = Up(k - 1) \cup Marks(seqs[k])
        BY <4>2, <4>3, <4>4, TextsJoined
      <4>6. Marks(f[k]) = Up(k)
        BY <4>5, <3>1
      <4> QED  BY <4>5, <4>6
    <3> QED  BY <3>2, <3>3
  <2> HIDE DEF T
  <2>5. n \in T
    <3>1. \A i \in 1 .. n : i - 1 \in T => i \in T
      BY <2>4
    <3>2. \A i \in 0 .. n : i \in T
      BY <1>1, <2>3, <3>1, CountedUp
    <3>3. n \in 0 .. n
      BY <1>1
    <3> QED  BY <3>2, <3>3
  <2>6. InOrder(f[n]) /\ Marks(f[n]) = Up(n) /\ f[n] \in Texts
    BY <2>5, <1>3, <1>1, <2>2 DEF T
  <2> QED  BY <2>2, <2>6
<1> QED  BY <1>1, <1>2, <1>3

-----------------------------------------------------------------------------
(* What a call takes.                                                      *)
TakeStates == [items : Seq(Items), error : BOOLEAN, taken : Seq(Texts)]
AllMarks(s) == UNION {Marks(s[i].text) : i \in 1 .. Len(s)}
StackInOrder(s) ==
  /\ \A i \in 1 .. Len(s) : InOrder(s[i].text)
  /\ \A i, j \in 1 .. Len(s) : i < j => Before(Marks(s[i].text), Marks(s[j].text))

TopText(s, k) == FlattenSeq([i \in 1 .. Len(s) - k |-> s[k + i].text])

\* A function on 1 .. n is a sequence.
LEMMA ListOf ==
    ASSUME NEW S, NEW n \in Nat, NEW s \in [1 .. n -> S]
    PROVE  s \in Seq(S) /\ Len(s) = n
  OBVIOUS

\* A mark on the stack is in the text of an item.
LEMMA AllMarksIn ==
    ASSUME NEW s, NEW w
    PROVE  w \in AllMarks(s) <=> \E i \in 1 .. Len(s) : w \in Marks(s[i].text)
  BY DEF AllMarks

\* The group on top is taken whole, and no more than it.
LEMMA TakeGives ==
    ASSUME NEW st \in TakeStates, ~st.error, NEW m \in Shapes, NEW g \in Entries, NEW a,
           Pop(a, g, m), HasShape(st.items, a)
    PROVE  \E k \in 0 .. Len(st.items) - 1 :
             /\ Take(st, g) = [items |-> SubSeq(st.items, 1, k), error |-> FALSE,
                               taken |-> Append(st.taken, TopText(st.items, k))]
             /\ HasShape(SubSeq(st.items, 1, k), m)
<1> DEFINE s == st.items
           n == Len(s)
           OK(d) == /\ \A i \in (n - d + 1) .. n : s[i].type = g.type
                    /\ d = n \/ s[n - d].type # g.type
           depth == IF ~g.many THEN 1 ELSE CHOOSE d \in 1 .. n : OK(d)
           top == SubSeq(s, n - depth + 1, n)
<1>1. s \in Seq(Items) /\ n \in Nat
  BY DEF TakeStates
<1>2. PICK k \in 0 .. n - 1 :
             /\ HasShape(SubSeq(s, 1, k), m)
             /\ \A j \in k + 1 .. n : s[j].type = g.type
             /\ g.many \/ k = n - 1
             /\ k = 0 \/ (m # <<>> /\ s[k].type = m[Len(m)].type)
  BY <1>1, ItemsPopped DEF Pop
<1>3. k \in Nat /\ k < n /\ n > 0 /\ n - k \in 1 .. n /\ n - (n - k) = k
  BY <1>1, <1>2
<1>4. depth = n - k
  <2>1. CASE ~g.many
    BY <2>1, <1>1, <1>2
  <2>2. CASE g.many
    <3>1. k = 0 \/ s[k].type # g.type
      BY <2>2, <1>2 DEF Pop, Clean
    <3>2. OK(n - k)
      <4>1. (n - (n - k)) + 1 = k + 1 /\ n - (n - k) + 1 = k + 1
        BY <1>3
      <4>2. \A i \in (n - (n - k) + 1) .. n : s[i].type = g.type
        BY <4>1, <1>2
      <4>3. n - k = n \/ s[n - (n - k)].type # g.type
        BY <3>1, <1>3
      <4> QED  BY <4>2, <4>3
    <3>3. ASSUME NEW d \in 1 .. n, OK(d) PROVE d = n - k
      <4>1. CASE d < n - k
        <5>1. n - d \in k + 1 .. n /\ d # n
          BY <4>1, <1>3
        <5> QED  BY <5>1, <1>2, <3>3
      <4>2. CASE d > n - k
        <5>1. k \in (n - d + 1) .. n /\ k # 0
          BY <4>2, <1>3
        <5> QED  BY <5>1, <3>1, <3>3
      <4> QED  BY <4>1, <4>2, <1>3
    <3> HIDE DEF OK
    <3>4. (CHOOSE d \in 1 .. n : OK(d)) = n - k
      BY <3>2, <3>3, <1>3, Zenon
    <3> QED  BY <2>2, <3>4
  <2> QED  BY <2>1, <2>2
<1>5. s[n].type = g.type
  BY <1>2, <1>3
<1>6. Take(st, g) = [items |-> SubSeq(s, 1, n - depth), error |-> FALSE,
                     taken |-> Append(st.taken, FlattenSeq([i \in 1 .. depth |-> top[i].text]))]
  <2>1. ~(st.error \/ n = 0 \/ s[n].type # g.type)
    BY <1>3, <1>5
  <2> HIDE DEF top
  <2>2. Take(st, g) = IF st.error \/ n = 0 \/ s[n].type # g.type
                      THEN [st EXCEPT !.error = TRUE]
                      ELSE [items |-> SubSeq(s, 1, n - depth), error |-> FALSE,
                            taken |-> Append(st.taken, FlattenSeq([i \in 1 .. depth |-> top[i].text]))]
    BY Zenon DEF Take, top
  <2> HIDE DEF depth, n, s
  <2> QED  BY <2>1, <2>2
<1> HIDE DEF depth
<1>7. [i \in 1 .. depth |-> top[i].text] = [i \in 1 .. n - k |-> s[k + i].text]
  <2>1. n - depth + 1 = k + 1
    BY <1>3, <1>4
  <2>2. \A i \in 1 .. n - k : top[i] = s[k + i]
    <3>1. top = SubSeq(s, k + 1, n)
      BY <2>1
    <3>2. \A i \in 1 .. n - k : SubSeq(s, k + 1, n)[i] = s[k + i]
      BY <1>1, <1>3
    <3> QED  BY <3>1, <3>2
  <2> HIDE DEF top
  <2> QED  BY <2>2, <1>4
<1>8. n - depth = k
  BY <1>3, <1>4
<1> QED  BY <1>2, <1>6, <1>7, <1>8 DEF TopText

\* The words of the group, and of what stays.
LEMMA TopWords ==
    ASSUME NEW s \in Seq(Items), StackInOrder(s), NEW k \in 0 .. Len(s) - 1
    PROVE  LET r == SubSeq(s, 1, k)  x == TopText(s, k)
           IN  /\ r \in Seq(Items) /\ StackInOrder(r) /\ x \in Texts /\ InOrder(x)
               /\ Before(AllMarks(r), Marks(x))
               /\ AllMarks(s) = AllMarks(r) \cup Marks(x)
<1> DEFINE r == SubSeq(s, 1, k)
           x == TopText(s, k)
           n == Len(s)
           y == [i \in 1 .. n - k |-> s[k + i].text]
<1>1. n \in Nat /\ k \in Nat /\ k < n /\ n - k \in Nat
  OBVIOUS
<1>2. r \in Seq(Items) /\ Len(r) = k /\ \A j \in 1 .. k : r[j] = s[j]
  BY <1>1
<1>3. \A i \in 1 .. n : s[i].text \in Texts
  <2>1. \A i \in 1 .. n : s[i] \in Items
    OBVIOUS
  <2> QED  BY <2>1 DEF Items
<1>4. y \in Seq(Texts) /\ Len(y) = n - k /\ \A i \in 1 .. n - k : y[i] = s[k + i].text
  <2>1. \A i \in 1 .. n - k : k + i \in 1 .. n
    BY <1>1
  <2>2. y \in [1 .. n - k -> Texts]
    BY <2>1, <1>3
  <2>3. \A i \in 1 .. n - k : y[i] = s[k + i].text
    OBVIOUS
  <2> HIDE DEF y
  <2> QED  BY <2>2, <2>3, <1>1, ListOf
<1> HIDE DEF y, r
<1>5. \A i \in 1 .. Len(y) : InOrder(y[i])
  <2> TAKE i \in 1 .. Len(y)
  <2>1. k + i \in 1 .. n /\ y[i] = s[k + i].text
    BY <1>1, <1>4
  <2> QED  BY <2>1 DEF StackInOrder
<1>6. \A i, j \in 1 .. Len(y) : i < j => Before(Marks(y[i]), Marks(y[j]))
  <2> TAKE i, j \in 1 .. Len(y)
  <2>1. k + i \in 1 .. n /\ k + j \in 1 .. n /\ y[i] = s[k + i].text /\ y[j] = s[k + j].text
        /\ (i < j => k + i < k + j)
    BY <1>1, <1>4
  <2> QED  BY <2>1 DEF StackInOrder
<1>7. x = FlattenSeq(y)
  BY DEF TopText, y
<1>8. x \in Texts /\ InOrder(x) /\ Marks(x) = UNION {Marks(y[i]) : i \in 1 .. Len(y)}
  BY <1>4, <1>5, <1>6, <1>7, Flattened
<1> HIDE DEF x
<1>9. \A w : w \in Marks(x) <=> \E j \in k + 1 .. n : w \in Marks(s[j].text)
  <2> TAKE w
  <2>1. ASSUME NEW i \in 1 .. Len(y), w \in Marks(y[i])
        PROVE  \E j \in k + 1 .. n : w \in Marks(s[j].text)
    <3>1. k + i \in k + 1 .. n /\ y[i] = s[k + i].text
      BY <1>1, <1>4
    <3> QED  BY <2>1, <3>1
  <2>2. ASSUME NEW j \in k + 1 .. n, w \in Marks(s[j].text)
        PROVE  \E i \in 1 .. Len(y) : w \in Marks(y[i])
    <3>1. j - k \in 1 .. Len(y) /\ k + (j - k) = j /\ y[j - k] = s[k + (j - k)].text
      BY <1>1, <1>4
    <3> QED  BY <2>2, <3>1
  <2> QED  BY <1>8, <2>1, <2>2
<1>10. StackInOrder(r)
  <2>1. \A i \in 1 .. Len(r) : i \in 1 .. n /\ r[i] = s[i]
    BY <1>1, <1>2
  <2> QED  BY <2>1 DEF StackInOrder
<1>11. \A w : w \in AllMarks(r) <=> \E j \in 1 .. k : w \in Marks(s[j].text)
  BY <1>2, AllMarksIn
<1>12. ASSUME NEW a \in AllMarks(r), NEW b \in Marks(x) PROVE a < b
  <2>1. PICK i \in 1 .. k : a \in Marks(s[i].text)
    BY <1>11
  <2>2. PICK j \in k + 1 .. n : b \in Marks(s[j].text)
    BY <1>9
  <2>3. i \in 1 .. n /\ j \in 1 .. n /\ i < j
    BY <1>1
  <2>4. Before(Marks(s[i].text), Marks(s[j].text))
    BY <2>3 DEF StackInOrder
  <2> QED  BY <2>1, <2>2, <2>4 DEF Before
<1>13. \A w : w \in AllMarks(s) <=> w \in AllMarks(r) \/ w \in Marks(x)
  <2>1. \A i \in 1 .. n : i \in 1 .. k \/ i \in k + 1 .. n
    BY <1>1
  <2>2. \A i \in 1 .. k : i \in 1 .. n
    BY <1>1
  <2>3. \A i \in k + 1 .. n : i \in 1 .. n
    BY <1>1
  <2> QED  BY <2>1, <2>2, <2>3, <1>9, <1>11, AllMarksIn
<1>14. AllMarks(s) = AllMarks(r) \cup Marks(x)
  BY <1>13
<1>15. Before(AllMarks(r), Marks(x))
  BY <1>12 DEF Before
<1> QED  BY <1>2, <1>8, <1>10, <1>14, <1>15 DEF r, x

\* Some groups are taken, each from below the one before.
Halfway(st, k, W) ==
  /\ st \in TakeStates /\ ~st.error /\ StackInOrder(st.items) /\ Len(st.taken) = k
  /\ \A i \in 1 .. k : InOrder(st.taken[i]) /\ Before(AllMarks(st.items), Marks(st.taken[i]))
  /\ \A i, j \in 1 .. k : i < j => Before(Marks(st.taken[j]), Marks(st.taken[i]))
  /\ W = AllMarks(st.items) \cup UNION {Marks(st.taken[i]) : i \in 1 .. k}

\* Taking one more group.
LEMMA TakeHalfway ==
    ASSUME NEW st, NEW k \in Nat, NEW W, Halfway(st, k, W), NEW m \in Shapes, NEW g \in Entries,
           NEW a, Pop(a, g, m), HasShape(st.items, a)
    PROVE  Halfway(Take(st, g), k + 1, W) /\ HasShape(Take(st, g).items, m)
<1> DEFINE s == st.items
           t == st.taken
           w == Take(st, g)
<1>1. st \in TakeStates /\ ~st.error /\ StackInOrder(s) /\ Len(t) = k
      /\ s \in Seq(Items) /\ t \in Seq(Texts)
  BY DEF Halfway, TakeStates
<1>2. PICK j \in 0 .. Len(s) - 1 :
             /\ w = [items |-> SubSeq(s, 1, j), error |-> FALSE, taken |-> Append(t, TopText(s, j))]
             /\ HasShape(SubSeq(s, 1, j), m)
  BY <1>1, TakeGives
<1> DEFINE r == SubSeq(s, 1, j)
           x == TopText(s, j)
           u == Append(t, x)
<1>3. r \in Seq(Items) /\ StackInOrder(r) /\ x \in Texts /\ InOrder(x)
      /\ Before(AllMarks(r), Marks(x)) /\ AllMarks(s) = AllMarks(r) \cup Marks(x)
  BY <1>1, TopWords
<1> HIDE DEF x, r
<1>4. u \in Seq(Texts) /\ Len(u) = k + 1 /\ u[k + 1] = x /\ \A i \in 1 .. k : u[i] = t[i]
  BY <1>1, <1>3
<1> HIDE DEF u
<1>5. w.items = r /\ w.taken = u /\ ~w.error /\ w \in TakeStates
  BY <1>2, <1>3, <1>4 DEF TakeStates, r, x, u
<1> HIDE DEF w, s, t
<1>6. (\A i \in 1 .. k : InOrder(t[i]) /\ Before(AllMarks(s), Marks(t[i])))
      /\ (\A i, h \in 1 .. k : i < h => Before(Marks(t[h]), Marks(t[i])))
      /\ W = AllMarks(s) \cup UNION {Marks(t[i]) : i \in 1 .. k}
  BY DEF Halfway, s, t
<1>7. \A i \in 1 .. k + 1 : (i \in 1 .. k /\ u[i] = t[i]) \/ (i = k + 1 /\ u[i] = x)
  BY <1>4
<1>8. ASSUME NEW i \in 1 .. k + 1
      PROVE  InOrder(u[i]) /\ Before(AllMarks(r), Marks(u[i]))
  <2>1. CASE i = k + 1
    BY <2>1, <1>3, <1>4
  <2>2. CASE i \in 1 .. k
    BY <2>2, <1>3, <1>4, <1>6 DEF Before
  <2> QED  BY <2>1, <2>2, <1>7
<1>9. ASSUME NEW i \in 1 .. k + 1, NEW h \in 1 .. k + 1, i < h
      PROVE  Before(Marks(u[h]), Marks(u[i]))
  <2>1. i \in 1 .. k /\ u[i] = t[i]
    BY <1>4, <1>9
  <2>2. CASE h = k + 1
    BY <2>1, <2>2, <1>3, <1>4, <1>6 DEF Before
  <2>3. CASE h \in 1 .. k
    BY <2>1, <2>3, <1>4, <1>6, <1>9
  <2> QED  BY <2>2, <2>3, <1>7
<1>10. W = AllMarks(r) \cup UNION {Marks(u[i]) : i \in 1 .. k + 1}
  <2>1. ASSUME NEW v \in W PROVE v \in AllMarks(r) \cup UNION {Marks(u[i]) : i \in 1 .. k + 1}
    <3>1. CASE v \in AllMarks(r)
      BY <3>1
    <3>2. CASE v \in Marks(x)
      <4>1. k + 1 \in 1 .. k + 1
        OBVIOUS
      <4> QED  BY <3>2, <4>1, <1>4
    <3>3. CASE \E i \in 1 .. k : v \in Marks(t[i])
      <4>1. PICK i \in 1 .. k : v \in Marks(t[i])
        BY <3>3
      <4>2. i \in 1 .. k + 1 /\ v \in Marks(u[i])
        BY <4>1, <1>4
      <4> QED  BY <4>2
    <3> QED  BY <2>1, <3>1, <3>2, <3>3, <1>3, <1>6
  <2>2. AllMarks(r) \subseteq W
    BY <1>3, <1>6
  <2>3. ASSUME NEW i \in 1 .. k + 1 PROVE Marks(u[i]) \subseteq W
    BY <1>3, <1>6, <1>7
  <2> QED  BY <2>1, <2>2, <2>3
<1>11. Halfway(w, k + 1, W)
  BY <1>3, <1>4, <1>5, <1>8, <1>9, <1>10 DEF Halfway
<1> QED  BY <1>2, <1>5, <1>11 DEF w, r

-----------------------------------------------------------------------------
(* What the print functions show.                                          *)
LEMMA PrintNames ==
    /\ DOMAIN PositionActs = {"ActPos", "ActHome"}
    /\ DOMAIN BallActs = {"ActBallToReg", "ActBallToPlayer"}
    /\ DOMAIN MarkActs = {"ActMark", "ActMarkLinePlayer"}
    /\ DOMAIN LineActs = {"ActMarkLineReg", "ActOffsideLine"}
    /\ DOMAIN PlainActs = {"ActHetType", "ActNamed"}
    /\ DOMAIN PassActs = {"ActPassReg", "ActPassUNum"}
    /\ DOMAIN RunActs = {"ActDribble", "ActClear"}
    /\ DOMAIN BareActs = {"ActShoot", "ActHold", "ActIntercept"}
    /\ DOMAIN TackleActs = {"ActTackle"}
    /\ DOMAIN PlayerConds = {"CondTrue", "CondFalse", "CondPlayerPos"}
    /\ DOMAIN BallConds = {"CondBallPos", "CondBallOwner", "CondPlayMode"}
    /\ DOMAIN ListConds = {"CondAnd", "CondOr"}
    /\ DOMAIN OtherConds = {"CondNot", "CondNamed"}
    /\ DOMAIN CompareConds = {"CondTime", "CondOppGoal", "CondOurGoal", "CondGoalDiff", "CondUNum"}
    /\ DOMAIN Points = {"PointSimple", "PointBall", "PointPlayer", "PointRel"}
    /\ DOMAIN ArithPoints = {"PointArith"}
    /\ DOMAIN QuadRegions = {"RegNull", "RegQuad"}
    /\ DOMAIN ArcRegions = {"RegArc"}
    /\ DOMAIN UnionRegions = {"RegUnion"}
    /\ DOMAIN PlainRegions = {"RegNamed", "RegPoint"}
    /\ DOMAIN CornerRegions = {"RegTri", "RegRec"}
    /\ DOMAIN RuleLists = {"RuleIDList", "ActivateRules", "RuleIDListALL"}
    /\ DOMAIN CondRules = {"SimpleRule", "NestedRule"}
    /\ DOMAIN IDListRules = {"IDRule"}
    /\ DOMAIN Directives = {"DirComm", "DirNamed"}
    /\ DOMAIN Tokens = {"TokenRule", "TokenClear"}
    /\ DOMAIN Definitions = {"DefineCond", "DefineDir", "DefineReg", "DefineAct"}
    /\ DOMAIN RuleDefinitions = {"DefineModelRule", "DefineDirectiveRule"}
    /\ DOMAIN MetaMsgs = {"MetaMsg", "MetaTokenVer"}
    /\ DOMAIN DefineMsgs = {"DefineMsg"}
    /\ DOMAIN InfoMsgs = {"InfoMsg"}
    /\ DOMAIN AdviceMsgs = {"AdviceMsg"}
    /\ DOMAIN RuleMsgs = {"RuleMsg"}
    /\ DOMAIN DelMsgs = {"DelMsg"}
    /\ DOMAIN FreeformMsgs = {"FreeformMsg"}
    /\ DOMAIN UnsuppMsgs = {"UnsuppMsg"}
    /\ DOMAIN SetsAndLists = {"UNumSet", "CreateCondList", "AddToCondList", "UNum", "BallMoveToken", "RuleID"}
  BY DEF PositionActs, BallActs, MarkActs, LineActs, PlainActs, PassActs, RunActs, BareActs,
         TackleActs, PlayerConds, BallConds, ListConds, OtherConds, CompareConds,
         Points, ArithPoints, QuadRegions, ArcRegions, UnionRegions, PlainRegions,
         CornerRegions, RuleLists, CondRules, IDListRules, Directives, Tokens,
         Definitions, RuleDefinitions, MetaMsgs, DefineMsgs, InfoMsgs, AdviceMsgs,
         RuleMsgs, DelMsgs, FreeformMsgs, UnsuppMsgs, SetsAndLists

\* No class is in two print tables.
LEMMA PrintsApart ==
    ASSUME NEW t \in PrintTables, NEW x \in PrintTables, NEW c, c \in DOMAIN t, c \in DOMAIN x
    PROVE  x = t
<1>1. CASE t = PositionActs
  BY <1>1, PrintNames DEF PrintTables
<1>2. CASE t = BallActs
  BY <1>2, PrintNames DEF PrintTables
<1>3. CASE t = MarkActs
  BY <1>3, PrintNames DEF PrintTables
<1>4. CASE t = LineActs
  BY <1>4, PrintNames DEF PrintTables
<1>5. CASE t = PlainActs
  BY <1>5, PrintNames DEF PrintTables
<1>6. CASE t = PassActs
  BY <1>6, PrintNames DEF PrintTables
<1>7. CASE t = RunActs
  BY <1>7, PrintNames DEF PrintTables
<1>8. CASE t = BareActs
  BY <1>8, PrintNames DEF PrintTables
<1>9. CASE t = TackleActs
  BY <1>9, PrintNames DEF PrintTables
<1>10. CASE t = PlayerConds
  BY <1>10, PrintNames DEF PrintTables
<1>11. CASE t = BallConds
  BY <1>11, PrintNames DEF PrintTables
<1>12. CASE t = ListConds
  BY <1>12, PrintNames DEF PrintTables
<1>13. CASE t = OtherConds
  BY <1>13, PrintNames DEF PrintTables
<1>14. CASE t = CompareConds
  BY <1>14, PrintNames DEF PrintTables
<1>15. CASE t = Points
  BY <1>15, PrintNames DEF PrintTables
<1>16. CASE t = ArithPoints
  BY <1>16, PrintNames DEF PrintTables
<1>17. CASE t = QuadRegions
  BY <1>17, PrintNames DEF PrintTables
<1>18. CASE t = ArcRegions
  BY <1>18, PrintNames DEF PrintTables
<1>19. CASE t = UnionRegions
  BY <1>19, PrintNames DEF PrintTables
<1>20. CASE t = PlainRegions
  BY <1>20, PrintNames DEF PrintTables
<1>21. CASE t = CornerRegions
  BY <1>21, PrintNames DEF PrintTables
<1>22. CASE t = RuleLists
  BY <1>22, PrintNames DEF PrintTables
<1>23. CASE t = CondRules
  BY <1>23, PrintNames DEF PrintTables
<1>24. CASE t = IDListRules
  BY <1>24, PrintNames DEF PrintTables
<1>25. CASE t = Directives
  BY <1>25, PrintNames DEF PrintTables
<1>26. CASE t = Tokens
  BY <1>26, PrintNames DEF PrintTables
<1>27. CASE t = Definitions
  BY <1>27, PrintNames DEF PrintTables
<1>28. CASE t = RuleDefinitions
  BY <1>28, PrintNames DEF PrintTables
<1>29. CASE t = MetaMsgs
  BY <1>29, PrintNames DEF PrintTables
<1>30. CASE t = DefineMsgs
  BY <1>30, PrintNames DEF PrintTables
<1>31. CASE t = InfoMsgs
  BY <1>31, PrintNames DEF PrintTables
<1>32. CASE t = AdviceMsgs
  BY <1>32, PrintNames DEF PrintTables
<1>33. CASE t = RuleMsgs
  BY <1>33, PrintNames DEF PrintTables
<1>34. CASE t = DelMsgs
  BY <1>34, PrintNames DEF PrintTables
<1>35. CASE t = FreeformMsgs
  BY <1>35, PrintNames DEF PrintTables
<1>36. CASE t = UnsuppMsgs
  BY <1>36, PrintNames DEF PrintTables
<1>37. CASE t = SetsAndLists
  BY <1>37, PrintNames, SMTT(30) DEF PrintTables
<1> QED
  BY <1>1, <1>2, <1>3, <1>4, <1>5, <1>6, <1>7, <1>8, <1>9, <1>10, <1>11, <1>12, <1>13,
     <1>14, <1>15, <1>16, <1>17, <1>18, <1>19, <1>20, <1>21, <1>22, <1>23, <1>24, <1>25,
     <1>26, <1>27, <1>28, <1>29, <1>30, <1>31, <1>32, <1>33, <1>34, <1>35, <1>36, <1>37
     DEF PrintTables

\* What a class prints is in its own table.
LEMMA PrintedAt ==
    ASSUME NEW t \in PrintTables, NEW c \in DOMAIN t
    PROVE  Printed[c] = t[c]
  BY PrintsApart, MergedAt DEF Printed

\* The groups that a call takes are printed in the reverse order, all but
\* the first of a quad.
PrintsBack(c) ==
  /\ Takes[c] \in Seq(Entries) /\ Printed[c] \in Seq(1 .. Len(Takes[c]))
  /\ \A i, j \in 1 .. Len(Printed[c]) : i < j => Printed[c][j] < Printed[c][i]
  /\ \A k \in 1 .. Len(Takes[c]) : (c = "RegQuad" /\ k = 1)
                                  \/ \E i \in 1 .. Len(Printed[c]) : Printed[c][i] = k
  /\ c = "RegQuad" => Len(Takes[c]) = 4 /\ \A i \in 1 .. Len(Printed[c]) : Printed[c][i] # 1

\* Nothing, one, two, three or four groups are printed from the last taken to the first.
LEMMA BackNone ==
    ASSUME NEW c, Takes[c] = <<>>, Printed[c] = <<>>, c # "RegQuad"
    PROVE  PrintsBack(c)
  BY DEF PrintsBack

LEMMA BackOne ==
    ASSUME NEW c, NEW g \in Entries, Takes[c] = <<g>>, Printed[c] = << 1 >>, c # "RegQuad"
    PROVE  PrintsBack(c)
<1>1. Takes[c] \in Seq(Entries) /\ Len(Takes[c]) = 1
  OBVIOUS
<1>2. Printed[c] \in Seq(1 .. 1) /\ Len(Printed[c]) = 1 /\ Printed[c][1] = 1
  OBVIOUS
<1>3. ASSUME NEW i \in 1 .. 1, NEW j \in 1 .. 1, i < j
      PROVE  Printed[c][j] < Printed[c][i]
  BY <1>2, <1>3
<1>4. ASSUME NEW k \in 1 .. 1
      PROVE  \E i \in 1 .. 1 : Printed[c][i] = k
  <2>1. k \in {1}
    OBVIOUS
  <2> QED  BY <1>2, <2>1
<1> QED  BY <1>1, <1>2, <1>3, <1>4 DEF PrintsBack

LEMMA BackTwo ==
    ASSUME NEW c, NEW g \in Entries, NEW g2 \in Entries, Takes[c] = <<g, g2>>, Printed[c] = <<2, 1>>, c # "RegQuad"
    PROVE  PrintsBack(c)
<1>1. Takes[c] \in Seq(Entries) /\ Len(Takes[c]) = 2
  OBVIOUS
<1>2. Printed[c] \in Seq(1 .. 2) /\ Len(Printed[c]) = 2 /\ Printed[c][1] = 2 /\ Printed[c][2] = 1
  OBVIOUS
<1>3. ASSUME NEW i \in 1 .. 2, NEW j \in 1 .. 2, i < j
      PROVE  Printed[c][j] < Printed[c][i]
  BY <1>2, <1>3
<1>4. ASSUME NEW k \in 1 .. 2
      PROVE  \E i \in 1 .. 2 : Printed[c][i] = k
  <2>1. k \in {1, 2}
    OBVIOUS
  <2> QED  BY <1>2, <2>1
<1> QED  BY <1>1, <1>2, <1>3, <1>4 DEF PrintsBack

LEMMA BackThree ==
    ASSUME NEW c, NEW g \in Entries, NEW g2 \in Entries, NEW g3 \in Entries, Takes[c] = <<g, g2, g3>>, Printed[c] = <<3, 2, 1>>, c # "RegQuad"
    PROVE  PrintsBack(c)
<1>1. Takes[c] \in Seq(Entries) /\ Len(Takes[c]) = 3
  OBVIOUS
<1>2. Printed[c] \in Seq(1 .. 3) /\ Len(Printed[c]) = 3 /\ Printed[c][1] = 3 /\ Printed[c][2] = 2 /\ Printed[c][3] = 1
  OBVIOUS
<1>3. ASSUME NEW i \in 1 .. 3, NEW j \in 1 .. 3, i < j
      PROVE  Printed[c][j] < Printed[c][i]
  BY <1>2, <1>3
<1>4. ASSUME NEW k \in 1 .. 3
      PROVE  \E i \in 1 .. 3 : Printed[c][i] = k
  <2>1. k \in {1, 2, 3}
    OBVIOUS
  <2> QED  BY <1>2, <2>1
<1> QED  BY <1>1, <1>2, <1>3, <1>4 DEF PrintsBack

LEMMA BackQuad ==
    ASSUME NEW c, NEW g \in Entries, NEW g2 \in Entries, NEW g3 \in Entries, NEW g4 \in Entries, Takes[c] = <<g, g2, g3, g4>>, Printed[c] = <<4, 3, 2>>, c = "RegQuad"
    PROVE  PrintsBack(c)
<1>1. Takes[c] \in Seq(Entries) /\ Len(Takes[c]) = 4
  OBVIOUS
<1>2. Printed[c] \in Seq(1 .. 4) /\ Len(Printed[c]) = 3 /\ Printed[c][1] = 4 /\ Printed[c][2] = 3 /\ Printed[c][3] = 2
  OBVIOUS
<1>3. ASSUME NEW i \in 1 .. 3, NEW j \in 1 .. 3, i < j
      PROVE  Printed[c][j] < Printed[c][i]
  BY <1>2, <1>3
<1>4. ASSUME NEW k \in 1 .. 4
      PROVE  k = 1 \/ \E i \in 1 .. 3 : Printed[c][i] = k
  <2>1. k \in {1, 2, 3, 4}
    OBVIOUS
  <2> QED  BY <1>2, <2>1
<1> QED  BY <1>1, <1>2, <1>3, <1>4 DEF PrintsBack

\* One or many items of a known type are an entry.
LEMMA EntryTypes ==
    ASSUME NEW t \in ItemTypes
    PROVE  One(t) \in Entries /\ Many(t) \in Entries
  BY DEF One, Many, Entries

\* The print tables of MessageCalls.
LEMMA MessageCallsBack ==
    \A c \in DOMAIN MessageCalls : PrintsBack(c)
<1>1. \A c \in DOMAIN MetaMsgs : Printed[c] = MetaMsgs[c]
  BY PrintedAt DEF PrintTables
<1>2. \A c \in DOMAIN DefineMsgs : Printed[c] = DefineMsgs[c]
  BY PrintedAt DEF PrintTables
<1>3. \A c \in DOMAIN Definitions : Printed[c] = Definitions[c]
  BY PrintedAt DEF PrintTables
<1>4. PrintsBack("MetaMsg")
  BY <1>1, PrintNames, MessageCallsAre, BackOne, EntryTypes DEF MetaMsgs, Speaks, ItemTypes
<1>5. PrintsBack("MetaTokenVer")
  BY <1>1, PrintNames, MessageCallsAre, BackNone DEF MetaMsgs, Builds
<1>6. PrintsBack("DefineMsg")
  BY <1>2, PrintNames, MessageCallsAre, BackOne, EntryTypes DEF DefineMsgs, Speaks, ItemTypes
<1>7. PrintsBack("DefineCond")
  BY <1>3, PrintNames, MessageCallsAre, BackOne, EntryTypes DEF Definitions, Builds, ItemTypes
<1>8. PrintsBack("DefineDir")
  BY <1>3, PrintNames, MessageCallsAre, BackOne, EntryTypes DEF Definitions, Builds, ItemTypes
<1>9. PrintsBack("DefineReg")
  BY <1>3, PrintNames, MessageCallsAre, BackOne, EntryTypes DEF Definitions, Builds, ItemTypes
<1>10. PrintsBack("DefineAct")
  BY <1>3, PrintNames, MessageCallsAre, BackOne, EntryTypes DEF Definitions, Builds, ItemTypes
<1> QED
  BY <1>4, <1>5, <1>6, <1>7, <1>8, <1>9, <1>10, CallNames

\* The print tables of TokenCalls.
LEMMA TokenCallsBack ==
    \A c \in DOMAIN TokenCalls : PrintsBack(c)
<1>1. \A c \in DOMAIN FreeformMsgs : Printed[c] = FreeformMsgs[c]
  BY PrintedAt DEF PrintTables
<1>2. \A c \in DOMAIN UnsuppMsgs : Printed[c] = UnsuppMsgs[c]
  BY PrintedAt DEF PrintTables
<1>3. \A c \in DOMAIN InfoMsgs : Printed[c] = InfoMsgs[c]
  BY PrintedAt DEF PrintTables
<1>4. \A c \in DOMAIN AdviceMsgs : Printed[c] = AdviceMsgs[c]
  BY PrintedAt DEF PrintTables
<1>5. \A c \in DOMAIN Tokens : Printed[c] = Tokens[c]
  BY PrintedAt DEF PrintTables
<1>6. PrintsBack("FreeformMsg")
  BY <1>1, PrintNames, TokenCallsAre, BackNone DEF FreeformMsgs, Speaks
<1>7. PrintsBack("UnsuppMsg")
  BY <1>2, PrintNames, TokenCallsAre, BackNone DEF UnsuppMsgs, Speaks
<1>8. PrintsBack("InfoMsg")
  BY <1>3, PrintNames, TokenCallsAre, BackOne, EntryTypes DEF InfoMsgs, Speaks, ItemTypes
<1>9. PrintsBack("AdviceMsg")
  BY <1>4, PrintNames, TokenCallsAre, BackOne, EntryTypes DEF AdviceMsgs, Speaks, ItemTypes
<1>10. PrintsBack("TokenRule")
  BY <1>5, PrintNames, TokenCallsAre, BackTwo, EntryTypes DEF Tokens, Builds, ItemTypes
<1>11. PrintsBack("TokenClear")
  BY <1>5, PrintNames, TokenCallsAre, BackNone DEF Tokens, Builds
<1> QED
  BY <1>6, <1>7, <1>8, <1>9, <1>10, <1>11, CallNames

\* The print tables of ActionCalls.
LEMMA ActionCallsBack ==
    \A c \in DOMAIN ActionCalls : PrintsBack(c)
<1>1. \A c \in DOMAIN PositionActs : Printed[c] = PositionActs[c]
  BY PrintedAt DEF PrintTables
<1>2. \A c \in DOMAIN BallActs : Printed[c] = BallActs[c]
  BY PrintedAt DEF PrintTables
<1>3. \A c \in DOMAIN MarkActs : Printed[c] = MarkActs[c]
  BY PrintedAt DEF PrintTables
<1>4. \A c \in DOMAIN LineActs : Printed[c] = LineActs[c]
  BY PrintedAt DEF PrintTables
<1>5. \A c \in DOMAIN PlainActs : Printed[c] = PlainActs[c]
  BY PrintedAt DEF PrintTables
<1>6. PrintsBack("ActPos")
  BY <1>1, PrintNames, ActionCallsAre, BackOne, EntryTypes DEF PositionActs, Builds, ItemTypes
<1>7. PrintsBack("ActHome")
  BY <1>1, PrintNames, ActionCallsAre, BackOne, EntryTypes DEF PositionActs, Builds, ItemTypes
<1>8. PrintsBack("ActBallToReg")
  BY <1>2, PrintNames, ActionCallsAre, BackTwo, EntryTypes DEF BallActs, Builds, ItemTypes
<1>9. PrintsBack("ActBallToPlayer")
  BY <1>2, PrintNames, ActionCallsAre, BackOne, EntryTypes DEF BallActs, Builds, ItemTypes
<1>10. PrintsBack("ActMark")
  BY <1>3, PrintNames, ActionCallsAre, BackOne, EntryTypes DEF MarkActs, Builds, ItemTypes
<1>11. PrintsBack("ActMarkLinePlayer")
  BY <1>3, PrintNames, ActionCallsAre, BackOne, EntryTypes DEF MarkActs, Builds, ItemTypes
<1>12. PrintsBack("ActMarkLineReg")
  BY <1>4, PrintNames, ActionCallsAre, BackOne, EntryTypes DEF LineActs, Builds, ItemTypes
<1>13. PrintsBack("ActOffsideLine")
  BY <1>4, PrintNames, ActionCallsAre, BackOne, EntryTypes DEF LineActs, Builds, ItemTypes
<1>14. PrintsBack("ActHetType")
  BY <1>5, PrintNames, ActionCallsAre, BackNone DEF PlainActs, Builds
<1>15. PrintsBack("ActNamed")
  BY <1>5, PrintNames, ActionCallsAre, BackNone DEF PlainActs, Builds
<1> QED
  BY <1>6, <1>7, <1>8, <1>9, <1>10, <1>11, <1>12, <1>13, <1>14, <1>15, CallNames

\* The print tables of ActionCallsOfVersion8.
LEMMA ActionCallsOfVersion8Back ==
    \A c \in DOMAIN ActionCallsOfVersion8 : PrintsBack(c)
<1>1. \A c \in DOMAIN PassActs : Printed[c] = PassActs[c]
  BY PrintedAt DEF PrintTables
<1>2. \A c \in DOMAIN RunActs : Printed[c] = RunActs[c]
  BY PrintedAt DEF PrintTables
<1>3. \A c \in DOMAIN BareActs : Printed[c] = BareActs[c]
  BY PrintedAt DEF PrintTables
<1>4. \A c \in DOMAIN TackleActs : Printed[c] = TackleActs[c]
  BY PrintedAt DEF PrintTables
<1>5. PrintsBack("ActPassReg")
  BY <1>1, PrintNames, ActionCallsOfVersion8Are, BackOne, EntryTypes DEF PassActs, Builds, ItemTypes
<1>6. PrintsBack("ActPassUNum")
  BY <1>1, PrintNames, ActionCallsOfVersion8Are, BackOne, EntryTypes DEF PassActs, Builds, ItemTypes
<1>7. PrintsBack("ActDribble")
  BY <1>2, PrintNames, ActionCallsOfVersion8Are, BackOne, EntryTypes DEF RunActs, Builds, ItemTypes
<1>8. PrintsBack("ActClear")
  BY <1>2, PrintNames, ActionCallsOfVersion8Are, BackOne, EntryTypes DEF RunActs, Builds, ItemTypes
<1>9. PrintsBack("ActShoot")
  BY <1>3, PrintNames, ActionCallsOfVersion8Are, BackNone DEF BareActs, Builds
<1>10. PrintsBack("ActHold")
  BY <1>3, PrintNames, ActionCallsOfVersion8Are, BackNone DEF BareActs, Builds
<1>11. PrintsBack("ActIntercept")
  BY <1>3, PrintNames, ActionCallsOfVersion8Are, BackNone DEF BareActs, Builds
<1>12. PrintsBack("ActTackle")
  BY <1>4, PrintNames, ActionCallsOfVersion8Are, BackOne, EntryTypes DEF TackleActs, Builds, ItemTypes
<1> QED
  BY <1>5, <1>6, <1>7, <1>8, <1>9, <1>10, <1>11, <1>12, CallNames

\* The print tables of DirectiveCalls.
LEMMA DirectiveCallsBack ==
    \A c \in DOMAIN DirectiveCalls : PrintsBack(c)
<1>1. \A c \in DOMAIN Directives : Printed[c] = Directives[c]
  BY PrintedAt DEF PrintTables
<1>2. PrintsBack("DirComm")
  BY <1>1, PrintNames, DirectiveCallsAre, BackTwo, EntryTypes DEF Directives, Builds, ItemTypes
<1>3. PrintsBack("DirNamed")
  BY <1>1, PrintNames, DirectiveCallsAre, BackNone DEF Directives, Builds
<1> QED
  BY <1>2, <1>3, CallNames

\* The print tables of ConditionCalls.
LEMMA ConditionCallsBack ==
    \A c \in DOMAIN ConditionCalls : PrintsBack(c)
<1>1. \A c \in DOMAIN PlayerConds : Printed[c] = PlayerConds[c]
  BY PrintedAt DEF PrintTables
<1>2. \A c \in DOMAIN BallConds : Printed[c] = BallConds[c]
  BY PrintedAt DEF PrintTables
<1>3. \A c \in DOMAIN ListConds : Printed[c] = ListConds[c]
  BY PrintedAt DEF PrintTables
<1>4. \A c \in DOMAIN OtherConds : Printed[c] = OtherConds[c]
  BY PrintedAt DEF PrintTables
<1>5. PrintsBack("CondTrue")
  BY <1>1, PrintNames, ConditionCallsAre, BackNone DEF PlayerConds, Builds
<1>6. PrintsBack("CondFalse")
  BY <1>1, PrintNames, ConditionCallsAre, BackNone DEF PlayerConds, Builds
<1>7. PrintsBack("CondPlayerPos")
  BY <1>1, PrintNames, ConditionCallsAre, BackTwo, EntryTypes DEF PlayerConds, Builds, ItemTypes
<1>8. PrintsBack("CondBallPos")
  BY <1>2, PrintNames, ConditionCallsAre, BackOne, EntryTypes DEF BallConds, Builds, ItemTypes
<1>9. PrintsBack("CondBallOwner")
  BY <1>2, PrintNames, ConditionCallsAre, BackOne, EntryTypes DEF BallConds, Builds, ItemTypes
<1>10. PrintsBack("CondPlayMode")
  BY <1>2, PrintNames, ConditionCallsAre, BackNone DEF BallConds, Builds
<1>11. PrintsBack("CondAnd")
  BY <1>3, PrintNames, ConditionCallsAre, BackOne, EntryTypes DEF ListConds, Builds, ItemTypes
<1>12. PrintsBack("CondOr")
  BY <1>3, PrintNames, ConditionCallsAre, BackOne, EntryTypes DEF ListConds, Builds, ItemTypes
<1>13. PrintsBack("CondNot")
  BY <1>4, PrintNames, ConditionCallsAre, BackOne, EntryTypes DEF OtherConds, Builds, ItemTypes
<1>14. PrintsBack("CondNamed")
  BY <1>4, PrintNames, ConditionCallsAre, BackNone DEF OtherConds, Builds
<1> QED
  BY <1>5, <1>6, <1>7, <1>8, <1>9, <1>10, <1>11, <1>12, <1>13, <1>14, CallNames

\* The print tables of CompareCalls.
LEMMA CompareCallsBack ==
    \A c \in DOMAIN CompareCalls : PrintsBack(c)
<1>1. \A c \in DOMAIN CompareConds : Printed[c] = CompareConds[c]
  BY PrintedAt DEF PrintTables
<1>2. \A c \in DOMAIN SetsAndLists : Printed[c] = SetsAndLists[c]
  BY PrintedAt DEF PrintTables
<1>3. PrintsBack("CondTime")
  BY <1>1, PrintNames, CompareCallsAre, BackNone DEF CompareConds, Builds
<1>4. PrintsBack("CondOppGoal")
  BY <1>1, PrintNames, CompareCallsAre, BackNone DEF CompareConds, Builds
<1>5. PrintsBack("CondOurGoal")
  BY <1>1, PrintNames, CompareCallsAre, BackNone DEF CompareConds, Builds
<1>6. PrintsBack("CondGoalDiff")
  BY <1>1, PrintNames, CompareCallsAre, BackNone DEF CompareConds, Builds
<1>7. PrintsBack("CondUNum")
  BY <1>1, PrintNames, CompareCallsAre, BackOne, EntryTypes DEF CompareConds, Builds, ItemTypes
<1>8. PrintsBack("AddToCondList")
  BY <1>2, PrintNames, CompareCallsAre, BackTwo, EntryTypes DEF SetsAndLists, Builds, ItemTypes
<1>9. PrintsBack("CreateCondList")
  BY <1>2, PrintNames, CompareCallsAre, BackOne, EntryTypes DEF SetsAndLists, Builds, ItemTypes
<1> QED
  BY <1>3, <1>4, <1>5, <1>6, <1>7, <1>8, <1>9, CallNames

\* The print tables of RegionCalls.
LEMMA RegionCallsBack ==
    \A c \in DOMAIN RegionCalls : PrintsBack(c)
<1>1. \A c \in DOMAIN QuadRegions : Printed[c] = QuadRegions[c]
  BY PrintedAt DEF PrintTables
<1>2. \A c \in DOMAIN ArcRegions : Printed[c] = ArcRegions[c]
  BY PrintedAt DEF PrintTables
<1>3. \A c \in DOMAIN UnionRegions : Printed[c] = UnionRegions[c]
  BY PrintedAt DEF PrintTables
<1>4. \A c \in DOMAIN PlainRegions : Printed[c] = PlainRegions[c]
  BY PrintedAt DEF PrintTables
<1>5. \A c \in DOMAIN CornerRegions : Printed[c] = CornerRegions[c]
  BY PrintedAt DEF PrintTables
<1>6. PrintsBack("RegNull")
  BY <1>1, PrintNames, RegionCallsAre, BackNone DEF QuadRegions, Builds
<1>7. PrintsBack("RegQuad")
  BY <1>1, PrintNames, RegionCallsAre, BackQuad, EntryTypes DEF QuadRegions, Builds, ItemTypes
<1>8. PrintsBack("RegArc")
  BY <1>2, PrintNames, RegionCallsAre, BackOne, EntryTypes DEF ArcRegions, Builds, ItemTypes
<1>9. PrintsBack("RegUnion")
  BY <1>3, PrintNames, RegionCallsAre, BackOne, EntryTypes DEF UnionRegions, Builds, ItemTypes
<1>10. PrintsBack("RegNamed")
  BY <1>4, PrintNames, RegionCallsAre, BackNone DEF PlainRegions, Builds
<1>11. PrintsBack("RegPoint")
  BY <1>4, PrintNames, RegionCallsAre, BackOne, EntryTypes DEF PlainRegions, Builds, ItemTypes
<1>12. PrintsBack("RegTri")
  BY <1>5, PrintNames, RegionCallsAre, BackThree, EntryTypes DEF CornerRegions, Builds, ItemTypes
<1>13. PrintsBack("RegRec")
  BY <1>5, PrintNames, RegionCallsAre, BackTwo, EntryTypes DEF CornerRegions, Builds, ItemTypes
<1> QED
  BY <1>6, <1>7, <1>8, <1>9, <1>10, <1>11, <1>12, <1>13, CallNames

\* The print tables of PointCalls.
LEMMA PointCallsBack ==
    \A c \in DOMAIN PointCalls : PrintsBack(c)
<1>1. \A c \in DOMAIN Points : Printed[c] = Points[c]
  BY PrintedAt DEF PrintTables
<1>2. \A c \in DOMAIN ArithPoints : Printed[c] = ArithPoints[c]
  BY PrintedAt DEF PrintTables
<1>3. \A c \in DOMAIN SetsAndLists : Printed[c] = SetsAndLists[c]
  BY PrintedAt DEF PrintTables
<1>4. PrintsBack("PointSimple")
  BY <1>1, PrintNames, PointCallsAre, BackNone DEF Points, Builds
<1>5. PrintsBack("PointRel")
  BY <1>1, PrintNames, PointCallsAre, BackOne, EntryTypes DEF Points, Builds, ItemTypes
<1>6. PrintsBack("PointBall")
  BY <1>1, PrintNames, PointCallsAre, BackNone DEF Points, Builds
<1>7. PrintsBack("PointPlayer")
  BY <1>1, PrintNames, PointCallsAre, BackNone DEF Points, Builds
<1>8. PrintsBack("PointArith")
  BY <1>2, PrintNames, PointCallsAre, BackTwo, EntryTypes DEF ArithPoints, Builds, ItemTypes
<1>9. PrintsBack("UNum")
  BY <1>3, PrintNames, PointCallsAre, BackNone DEF SetsAndLists, Builds
<1>10. PrintsBack("UNumSet")
  BY <1>3, PrintNames, PointCallsAre, BackOne, EntryTypes DEF SetsAndLists, Builds, ItemTypes
<1>11. PrintsBack("BallMoveToken")
  BY <1>3, PrintNames, PointCallsAre, BackNone DEF SetsAndLists, Builds
<1> QED
  BY <1>4, <1>5, <1>6, <1>7, <1>8, <1>9, <1>10, <1>11, CallNames

\* The print tables of RuleCalls.
LEMMA RuleCallsBack ==
    \A c \in DOMAIN RuleCalls : PrintsBack(c)
<1>1. \A c \in DOMAIN RuleMsgs : Printed[c] = RuleMsgs[c]
  BY PrintedAt DEF PrintTables
<1>2. \A c \in DOMAIN RuleLists : Printed[c] = RuleLists[c]
  BY PrintedAt DEF PrintTables
<1>3. \A c \in DOMAIN SetsAndLists : Printed[c] = SetsAndLists[c]
  BY PrintedAt DEF PrintTables
<1>4. \A c \in DOMAIN DelMsgs : Printed[c] = DelMsgs[c]
  BY PrintedAt DEF PrintTables
<1>5. \A c \in DOMAIN RuleDefinitions : Printed[c] = RuleDefinitions[c]
  BY PrintedAt DEF PrintTables
<1>6. \A c \in DOMAIN CondRules : Printed[c] = CondRules[c]
  BY PrintedAt DEF PrintTables
<1>7. \A c \in DOMAIN IDListRules : Printed[c] = IDListRules[c]
  BY PrintedAt DEF PrintTables
<1>8. PrintsBack("RuleMsg")
  BY <1>1, PrintNames, RuleCallsAre, BackOne, EntryTypes DEF RuleMsgs, Speaks, ItemTypes
<1>9. PrintsBack("ActivateRules")
  BY <1>2, PrintNames, RuleCallsAre, BackOne, EntryTypes DEF RuleLists, Builds, ItemTypes
<1>10. PrintsBack("RuleID")
  BY <1>3, PrintNames, RuleCallsAre, BackNone DEF SetsAndLists, Builds
<1>11. PrintsBack("RuleIDList")
  BY <1>2, PrintNames, RuleCallsAre, BackOne, EntryTypes DEF RuleLists, Builds, ItemTypes
<1>12. PrintsBack("RuleIDListALL")
  BY <1>2, PrintNames, RuleCallsAre, BackNone DEF RuleLists, Builds
<1>13. PrintsBack("DelMsg")
  BY <1>4, PrintNames, RuleCallsAre, BackOne, EntryTypes DEF DelMsgs, Speaks, ItemTypes
<1>14. PrintsBack("DefineModelRule")
  BY <1>5, PrintNames, RuleCallsAre, BackOne, EntryTypes DEF RuleDefinitions, Builds, ItemTypes
<1>15. PrintsBack("DefineDirectiveRule")
  BY <1>5, PrintNames, RuleCallsAre, BackOne, EntryTypes DEF RuleDefinitions, Builds, ItemTypes
<1>16. PrintsBack("SimpleRule")
  BY <1>6, PrintNames, RuleCallsAre, BackTwo, EntryTypes DEF CondRules, Builds, ItemTypes
<1>17. PrintsBack("NestedRule")
  BY <1>6, PrintNames, RuleCallsAre, BackTwo, EntryTypes DEF CondRules, Builds, ItemTypes
<1>18. PrintsBack("IDRule")
  BY <1>7, PrintNames, RuleCallsAre, BackOne, EntryTypes DEF IDListRules, Builds, ItemTypes
<1> QED
  BY <1>8, <1>9, <1>10, <1>11, <1>12, <1>13, <1>14, <1>15, <1>16, <1>17, <1>18,
     CallNames

\* Every call prints what it took from the last to the first.
LEMMA CallsPrintBack ==
    ASSUME NEW c \in Calls
    PROVE  PrintsBack(c)
<1>1. PICK t \in CallTables : c \in DOMAIN t
  BY CallsDomain
<1> QED
  BY <1>1, MessageCallsBack, TokenCallsBack, ActionCallsBack, ActionCallsOfVersion8Back,
     DirectiveCallsBack, ConditionCallsBack, CompareCallsBack, RegionCallsBack,
     PointCallsBack, RuleCallsBack DEF CallTables

-----------------------------------------------------------------------------
(* A call takes its groups one after the other.                            *)
LEMMA TakeAllGives ==
    ASSUME items \in Seq(Items), StackInOrder(items), NEW c, Takes[c] \in Seq(Entries),
           NEW a \in Shapes, NEW m, HasShape(items, a), Pops(a, Takes[c], m)
    PROVE  /\ Halfway(TakeAll(c), Len(Takes[c]), AllMarks(items))
           /\ HasShape(TakeAll(c).items, m)
<1> DEFINE gs == Takes[c]
           n == Len(gs)
           W == AllMarks(items)
           s0 == [items |-> items, error |-> FALSE, taken |-> <<>>]
           F == [x \in (1 .. n) \X TakeStates |->
                   IF Take(x[2], gs[x[1]]) \in TakeStates THEN Take(x[2], gs[x[1]]) ELSE s0]
           Step(g) == [i \in 0 .. n |-> IF i = 0 THEN s0 ELSE Take(g[i - 1], gs[i])]
<1>1. n \in Nat /\ \A i \in 1 .. n : gs[i] \in Entries
  OBVIOUS
<1>2. PICK q : PopsBy(q, a, gs, m)
  BY DEF Pops
<1>3. q \in [0 .. n -> Shapes] /\ q[0] = a /\ q[n] = m /\ \A i \in 1 .. n : Pop(q[i - 1], gs[i], q[i])
  BY <1>2 DEF PopsBy
<1>4. s0 \in TakeStates /\ Halfway(s0, 0, W) /\ HasShape(s0.items, q[0])
  <2>1. s0 \in TakeStates /\ s0.items = items /\ s0.taken = <<>> /\ ~s0.error
    BY DEF TakeStates, Texts
  <2>2. Len(s0.taken) = 0 /\ \A i \in 1 .. 0 : FALSE
    BY <2>1
  <2>3. UNION {Marks(s0.taken[i]) : i \in 1 .. 0} = {}
    OBVIOUS
  <2> HIDE DEF s0
  <2> QED  BY <2>1, <2>2, <2>3, <1>3 DEF Halfway
<1> DEFINE Fine(f, k) == Halfway(f[k], k, W) /\ HasShape(f[k].items, q[k])
<1>5. ASSUME NEW k \in 1 .. n, NEW f, Fine(f, k - 1)
      PROVE  Halfway(Take(f[k - 1], gs[k]), k, W) /\ HasShape(Take(f[k - 1], gs[k]).items, q[k])
  <2>1. k - 1 \in Nat /\ k - 1 \in 0 .. n /\ k \in 0 .. n /\ (k - 1) + 1 = k
    BY <1>1
  <2>2. q[k] \in Shapes /\ gs[k] \in Entries /\ Pop(q[k - 1], gs[k], q[k])
    BY <2>1, <1>1, <1>3
  <2>3. Halfway(f[k - 1], k - 1, W) /\ HasShape(f[k - 1].items, q[k - 1])
    BY <1>5
  <2>4. Halfway(Take(f[k - 1], gs[k]), (k - 1) + 1, W) /\ HasShape(Take(f[k - 1], gs[k]).items, q[k])
    BY <2>1, <2>2, <2>3, TakeHalfway
  <2> QED  BY <2>1, <2>4
<1>6. \A k, f : Halfway(f, k, W) => f \in TakeStates
  BY DEF Halfway
<1>7. F \in NextOnes(n, TakeStates)
  BY <1>4 DEF NextOnes
<1>8. \A i \in 1 .. n, x \in TakeStates :
        F[<<i, x>>] = IF Take(x, gs[i]) \in TakeStates THEN Take(x, gs[i]) ELSE s0
  OBVIOUS
<1> HIDE DEF F, s0, gs, n, W
<1>9. PICK h : Recursion(n, TakeStates, s0, F, h)
  BY <1>1, <1>4, <1>7, RecursionMeets
<1>10. h \in [0 .. n -> TakeStates] /\ h[0] = s0 /\ \A i \in 1 .. n : h[i] = F[<<i, h[i - 1]>>]
  BY <1>9 DEF Recursion
<1>11. ASSUME NEW k \in 1 .. n, Fine(h, k - 1)
       PROVE  h[k] = Take(h[k - 1], gs[k]) /\ Fine(h, k)
  <2>1. k - 1 \in 0 .. n /\ h[k - 1] \in TakeStates
    BY <1>1, <1>10
  <2>2. Halfway(Take(h[k - 1], gs[k]), k, W) /\ HasShape(Take(h[k - 1], gs[k]).items, q[k])
    BY <1>5, <1>11
  <2>3. Take(h[k - 1], gs[k]) \in TakeStates
    BY <2>2, <1>6
  <2>4. h[k] = Take(h[k - 1], gs[k])
    BY <2>1, <2>3, <1>8, <1>10
  <2> QED  BY <2>2, <2>4
<1>12. \A k \in 0 .. n : Fine(h, k)
  <2> DEFINE T == {k \in 0 .. n : Fine(h, k)}
  <2>1. 0 \in T
    BY <1>1, <1>4, <1>10
  <2>2. ASSUME NEW k \in 1 .. n, k - 1 \in T PROVE k \in T
    <3>1. Fine(h, k - 1)
      BY <2>2
    <3> HIDE DEF Fine
    <3>2. Fine(h, k)
      BY <3>1, <1>11
    <3>3. k \in 0 .. n
      BY <1>1
    <3> QED  BY <3>2, <3>3
  <2> HIDE DEF Fine
  <2>3. \A k \in T : Fine(h, k)
    OBVIOUS
  <2> HIDE DEF T
  <2> QED  BY <1>1, <2>1, <2>2, <2>3, CountedUp
<1>13. h = Step(h)
  <2> HIDE DEF Fine
  <2>1. ASSUME NEW i \in 0 .. n PROVE h[i] = IF i = 0 THEN s0 ELSE Take(h[i - 1], gs[i])
    <3>1. CASE i = 0
      BY <3>1, <1>10
    <3>2. CASE i # 0
      <4>1. i \in 1 .. n /\ i - 1 \in 0 .. n
        BY <3>2, <1>1
      <4> QED  BY <3>2, <4>1, <1>11, <1>12
    <3> QED  BY <3>1, <3>2
  <2> QED  BY <2>1, <1>10
<1> DEFINE r == CHOOSE g : g = Step(g)
<1>14. r = Step(r)
  <2> HIDE DEF Step
  <2> QED  BY <1>13, Zenon
<1>15. TakeAll(c) = r[n]
  BY Zenon DEF TakeAll, s0, n, gs
<1> HIDE DEF r
<1>16. r[0] = s0 /\ \A i \in 1 .. n : r[i] = Take(r[i - 1], gs[i])
  <2>1. 0 \in 0 .. n /\ \A i \in 1 .. n : i \in 0 .. n /\ i # 0
    BY <1>1
  <2> QED  BY <2>1, <1>14
<1>17. Fine(r, n)
  <2> DEFINE T == {k \in 0 .. n : Fine(r, k)}
  <2>1. 0 \in T
    BY <1>1, <1>4, <1>16
  <2>2. ASSUME NEW k \in 1 .. n, k - 1 \in T PROVE k \in T
    <3>1. Fine(r, k - 1)
      BY <2>2
    <3>2. Fine(r, k)
      BY <3>1, <1>5, <1>16
    <3>3. k \in 0 .. n
      BY <1>1
    <3> HIDE DEF Fine
    <3> QED  BY <3>2, <3>3
  <2> HIDE DEF Fine
  <2>3. \A k \in T : Fine(r, k)
    OBVIOUS
  <2> HIDE DEF T
  <2>4. n \in 0 .. n
    BY <1>1
  <2> QED  BY <1>1, <2>1, <2>2, <2>3, <2>4, CountedUp
<1> QED  BY <1>3, <1>15, <1>17 DEF n, gs, W

\* Words kept as a set.
LEMMA AsSetKeeps ==
    ASSUME NEW x \in Texts
    PROVE  /\ AsSet(x) \in Texts /\ InOrder(AsSet(x)) /\ Marks(AsSet(x)) = Marks(x)
           /\ UNION ToSet(x) = Marks(x)
<1>1. UNION ToSet(x) = Marks(x)
  BY DEF ToSet, Marks, Texts
<1>2. Marks(x) \subseteq Nat
  <2>1. \A i \in 1 .. Len(x) : x[i] \in SUBSET Nat
    BY DEF Texts
  <2> QED  BY <2>1 DEF Marks
<1> DEFINE M == Marks(x)
           y == <<M>>
<1>3. y \in Texts /\ Len(y) = 1 /\ y[1] = M
  BY <1>2 DEF Texts
<1>4. AsSet(x) = y
  BY <1>1 DEF AsSet
<1> HIDE DEF y, M
<1>5. InOrder(y)
  BY <1>3 DEF InOrder
<1>6. \A w : w \in Marks(y) <=> w \in M
  <2>1. \A i \in 1 .. Len(y) : i = 1
    BY <1>3
  <2>2. 1 \in 1 .. Len(y)
    BY <1>3
  <2> QED  BY <2>1, <2>2, <1>3, MarkIn
<1>7. Marks(y) = M
  BY <1>6
<1> QED  BY <1>1, <1>3, <1>4, <1>5, <1>7 DEF M

\* What is printed of what was taken.
LEMMA TextGives ==
    ASSUME NEW c, PrintsBack(c), NEW st, NEW W, Halfway(st, Len(Takes[c]), W)
    PROVE  LET text == Text(c, st.taken)
           IN  /\ text \in Texts /\ InOrder(text) /\ Before(AllMarks(st.items), Marks(text))
               /\ c # "RegQuad" => W = AllMarks(st.items) \cup Marks(text)
               /\ c = "RegQuad" =>
                    /\ st.taken[1] \in Texts
                    /\ Marks(st.taken[1]) \subseteq W
                    /\ W \ Marks(st.taken[1]) = AllMarks(st.items) \cup Marks(text)
<1> DEFINE n == Len(Takes[c])
           t == st.taken
           order == Printed[c]
           shown == [i \in 1 .. Len(t) |-> IF Takes[c][i].type \in {"UNUM", "BMT"}
                                           THEN AsSet(t[i]) ELSE t[i]]
           y == [i \in 1 .. Len(order) |-> shown[order[i]]]
           B == AllMarks(st.items)
<1>1. n \in Nat /\ Len(t) = n /\ t \in Seq(Texts) /\ \A i \in 1 .. n : t[i] \in Texts
  BY DEF PrintsBack, Halfway, TakeStates
<1>2. (\A i \in 1 .. n : InOrder(t[i]) /\ Before(B, Marks(t[i])))
      /\ (\A i, j \in 1 .. n : i < j => Before(Marks(t[j]), Marks(t[i])))
      /\ W = B \cup UNION {Marks(t[i]) : i \in 1 .. n}
  BY DEF Halfway
<1>3. Text(c, t) = FlattenSeq(y)
  BY Zenon DEF Text
<1>4. \A i \in 1 .. n : shown[i] \in Texts /\ InOrder(shown[i]) /\ Marks(shown[i]) = Marks(t[i])
  BY <1>1, <1>2, AsSetKeeps
<1> HIDE DEF shown
<1>5. Len(order) \in Nat /\ \A i \in 1 .. Len(order) : order[i] \in 1 .. n
  BY DEF PrintsBack
<1>6. y \in Seq(Texts) /\ Len(y) = Len(order) /\ \A i \in 1 .. Len(order) : y[i] = shown[order[i]]
  <2>1. y \in [1 .. Len(order) -> Texts]
    BY <1>4, <1>5
  <2>2. \A i \in 1 .. Len(order) : y[i] = shown[order[i]]
    OBVIOUS
  <2> HIDE DEF y
  <2> QED  BY <2>1, <2>2, <1>5, ListOf
<1> HIDE DEF y
<1>7. \A i \in 1 .. Len(y) : InOrder(y[i]) /\ Marks(y[i]) = Marks(t[order[i]])
  BY <1>4, <1>5, <1>6
<1>8. \A i, j \in 1 .. Len(y) : i < j => Before(Marks(y[i]), Marks(y[j]))
  <2> TAKE i, j \in 1 .. Len(y)
  <2>1. i < j => order[j] < order[i]
    BY <1>6 DEF PrintsBack
  <2>2. order[i] \in 1 .. n /\ order[j] \in 1 .. n
    BY <1>5, <1>6
  <2> QED  BY <2>1, <2>2, <1>2, <1>7
<1> DEFINE x == FlattenSeq(y)
<1>9. x \in Texts /\ InOrder(x) /\ Marks(x) = UNION {Marks(y[i]) : i \in 1 .. Len(y)}
  BY <1>6, <1>7, <1>8, Flattened
<1> HIDE DEF x
<1>10. \A w : w \in Marks(x) <=> \E i \in 1 .. Len(order) : w \in Marks(t[order[i]])
  BY <1>6, <1>7, <1>9
<1>11. ASSUME NEW b \in B, NEW w \in Marks(x) PROVE b < w
  <2>1. PICK i \in 1 .. Len(order) : w \in Marks(t[order[i]])
    BY <1>10
  <2>2. order[i] \in 1 .. n
    BY <1>5
  <2> QED  BY <2>1, <2>2, <1>2 DEF Before
<1>12. \A w : w \in W <=> w \in B \/ \E k \in 1 .. n : w \in Marks(t[k])
  BY <1>2
<1>13. ASSUME c # "RegQuad" PROVE W = B \cup Marks(x)
  <2>1. \A k \in 1 .. n : \E i \in 1 .. Len(order) : order[i] = k
    BY <1>13 DEF PrintsBack
  <2>2. \A w : w \in W <=> w \in B \/ w \in Marks(x)
    BY <2>1, <1>5, <1>10, <1>12
  <2> QED  BY <2>2
<1>14. ASSUME c = "RegQuad"
       PROVE  t[1] \in Texts /\ Marks(t[1]) \subseteq W /\ W \ Marks(t[1]) = B \cup Marks(x)
  <2>0. n = 4
    BY <1>14 DEF PrintsBack
  <2>1. n = 4 /\ 1 \in 1 .. n
    <3> HIDE DEF n
    <3> QED  BY <2>0
  <2>2. \A k \in 1 .. n : k = 1 \/ \E i \in 1 .. Len(order) : order[i] = k
    BY DEF PrintsBack
  <2>3. \A i \in 1 .. Len(order) : order[i] # 1
    BY <1>14 DEF PrintsBack
  <2>4. ASSUME NEW w \in Marks(t[1]) PROVE w \notin B /\ w \notin Marks(x) /\ w \in Nat
    <3>0. w \in Nat
      <4>1. PICK i \in 1 .. Len(t[1]) : w \in t[1][i]
        BY <2>4, MarkIn
      <4>2. t[1] \in Texts
        BY <2>1, <1>1
      <4>3. t[1][i] \in SUBSET Nat
        BY <4>1, <4>2 DEF Texts
      <4> QED  BY <4>1, <4>3
    <3>1. w \notin B
      <4>1. SUFFICES ASSUME w \in B PROVE FALSE
        OBVIOUS
      <4>2. w < w
        BY <4>1, <2>1, <2>4, <1>2 DEF Before
      <4> QED  BY <4>2, <3>0
    <3>2. ASSUME w \in Marks(x) PROVE FALSE
      <4>1. PICK i \in 1 .. Len(order) : w \in Marks(t[order[i]])
        BY <3>2, <1>10
      <4>2. order[i] \in 1 .. n /\ 1 < order[i]
        BY <2>1, <2>3, <1>5
      <4>3. Before(Marks(t[order[i]]), Marks(t[1]))
        BY <4>2, <2>1, <1>2
      <4>4. w < w
        BY <4>1, <4>3, <2>4 DEF Before
      <4> QED  BY <4>4, <3>0
    <3> QED  BY <3>0, <3>1, <3>2
  <2>5. \A w : w \in W /\ w \notin Marks(t[1]) <=> w \in B \/ w \in Marks(x)
    <3>1. ASSUME NEW w \in W, w \notin Marks(t[1]) PROVE w \in B \/ w \in Marks(x)
      <4>1. SUFFICES ASSUME w \notin B PROVE w \in Marks(x)
        OBVIOUS
      <4>2. PICK k \in 1 .. n : w \in Marks(t[k])
        BY <4>1, <3>1, <1>12
      <4>3. k # 1
        BY <4>2, <3>1
      <4>4. PICK i \in 1 .. Len(order) : order[i] = k
        BY <4>3, <2>2
      <4> QED  BY <4>2, <4>4, <1>10
    <3>2. ASSUME NEW w \in B PROVE w \in W /\ w \notin Marks(t[1])
      BY <3>2, <2>4, <1>12
    <3>3. ASSUME NEW w \in Marks(x) PROVE w \in W /\ w \notin Marks(t[1])
      <4>1. PICK i \in 1 .. Len(order) : w \in Marks(t[order[i]])
        BY <3>3, <1>10
      <4> QED  BY <4>1, <1>5, <1>12, <2>4, <3>3
    <3> QED  BY <3>1, <3>2, <3>3
  <2>6. Marks(t[1]) \subseteq W
    BY <2>1, <1>12
  <2>7. W \ Marks(t[1]) = B \cup Marks(x)
    BY <2>5
  <2> QED  BY <2>1, <2>6, <2>7, <1>1
<1>15. Before(B, Marks(x))
  BY <1>11 DEF Before
<1>16. x = Text(c, t)
  BY <1>3 DEF x
<1> HIDE DEF order, n
<1> QED  BY <1>9, <1>13, <1>14, <1>15, <1>16

-----------------------------------------------------------------------------
(* A builder call.                                                         *)
\* The result goes on top, as an item of its own or one more of a run.
LEMMA ShapeGrows ==
    ASSUME NEW s \in Seq(Items), NEW m \in Shapes, HasShape(s, m), NEW x \in Items,
           NEW b, Adds(m, x.type, b)
    PROVE  HasShape(Append(s, x), b)
<1> DEFINE t == x.type
<1>1. t \in ItemTypes /\ One(t) \in Entries /\ Many(t) \in Entries
      /\ One(t).type = t /\ Many(t).type = t /\ Many(t).many
  BY DEF Items, Entries, One, Many
<1> HIDE DEF t
<1>2. CASE AddsOne(m, t, b)
  BY <1>1, <1>2, ItemPushed DEF AddsOne, t
<1>3. CASE AddsToRun(m, t, b)
  <2>1. PICK r \in Shapes : RunOver(r, m, t, b)
    BY <1>3 DEF AddsToRun
  <2>2. b = Append(r, Many(t)) /\ (m = r \/ m = Append(r, Many(t)))
    BY <2>1 DEF RunOver
  <2>3. CASE m = r
    BY <2>2, <2>3, <1>1, ItemPushed DEF t
  <2>4. CASE m = Append(r, Many(t))
    BY <2>2, <2>4, <1>1, ItemOnRun DEF t
  <2> QED  BY <2>2, <2>3, <2>4
<1> QED  BY <1>2, <1>3 DEF Adds, t

\* Its words come after all words below it.
LEMMA OrderGrows ==
    ASSUME NEW s \in Seq(Items), StackInOrder(s), NEW x \in Items, InOrder(x.text),
           Before(AllMarks(s), Marks(x.text))
    PROVE  /\ Append(s, x) \in Seq(Items) /\ StackInOrder(Append(s, x))
           /\ AllMarks(Append(s, x)) = AllMarks(s) \cup Marks(x.text)
<1> DEFINE r == Append(s, x)
           n == Len(s)
<1>1. r \in Seq(Items) /\ n \in Nat /\ Len(r) = n + 1 /\ r[n + 1] = x
      /\ \A i \in 1 .. n : r[i] = s[i]
  OBVIOUS
<1> HIDE DEF r
<1>2. ASSUME NEW i \in 1 .. Len(r) PROVE (i \in 1 .. n /\ r[i] = s[i]) \/ (i = n + 1 /\ r[i] = x)
  BY <1>1
<1>3. \A w : w \in AllMarks(r) <=> w \in AllMarks(s) \/ w \in Marks(x.text)
  <2> TAKE w
  <2>1. ASSUME w \in AllMarks(r) PROVE w \in AllMarks(s) \/ w \in Marks(x.text)
    <3>1. PICK i \in 1 .. Len(r) : w \in Marks(r[i].text)
      BY <2>1, AllMarksIn
    <3> QED  BY <3>1, <1>2, AllMarksIn
  <2>2. ASSUME w \in AllMarks(s) PROVE w \in AllMarks(r)
    <3>1. PICK i \in 1 .. n : w \in Marks(s[i].text)
      BY <2>2, AllMarksIn
    <3>2. i \in 1 .. Len(r) /\ r[i] = s[i]
      BY <1>1
    <3> QED  BY <3>1, <3>2, AllMarksIn
  <2>3. ASSUME w \in Marks(x.text) PROVE w \in AllMarks(r)
    <3>1. n + 1 \in 1 .. Len(r)
      BY <1>1
    <3> QED  BY <2>3, <3>1, <1>1, AllMarksIn
  <2> QED  BY <2>1, <2>2, <2>3
<1>4. \A i \in 1 .. Len(r) : InOrder(r[i].text)
  BY <1>2 DEF StackInOrder
<1>5. ASSUME NEW i \in 1 .. Len(r), NEW j \in 1 .. Len(r), i < j
      PROVE  Before(Marks(r[i].text), Marks(r[j].text))
  <2>1. i \in 1 .. n /\ r[i] = s[i]
    BY <1>1, <1>2, <1>5
  <2>2. CASE j \in 1 .. n
    BY <2>1, <2>2, <1>1, <1>5 DEF StackInOrder
  <2>3. CASE j = n + 1
    <3>1. Marks(s[i].text) \subseteq AllMarks(s)
      BY <2>1, AllMarksIn
    <3> QED  BY <2>1, <2>3, <3>1, <1>1 DEF Before
  <2> QED  BY <1>2, <2>2, <2>3
<1>6. AllMarks(r) = AllMarks(s) \cup Marks(x.text)
  BY <1>3
<1> QED  BY <1>1, <1>4, <1>5, <1>6 DEF StackInOrder, r

\* The result is an item of a known type.
LEMMA TypeOfResult ==
    ASSUME NEW m \in Shapes, NEW t, NEW b \in Shapes, Adds(m, t, b)
    PROVE  t \in ItemTypes
<1>1. ASSUME NEW r \in Shapes, NEW e, b = Append(r, e) PROVE e \in Entries
  <2>1. b[Len(r) + 1] = e /\ Len(r) + 1 \in 1 .. Len(b)
    BY <1>1 DEF Shapes
  <2> QED  BY <2>1 DEF Shapes
<1>2. One(t) \in Entries \/ Many(t) \in Entries
  BY <1>1 DEF Adds, AddsOne, AddsToRun, RunOver
<1> QED  BY <1>2 DEF Entries, One, Many

\* A word that carries data is a mark of its own.
Word(n) == <<{n}>>
\* Its text is that mark.
LEMMA WordSaid ==
    ASSUME NEW n \in Nat
    PROVE  Word(n) \in Texts /\ InOrder(Word(n)) /\ Marks(Word(n)) = {n}
<1>1. Word(n) \in Texts /\ Len(Word(n)) = 1 /\ Word(n)[1] = {n}
  BY DEF Word, Texts
<1>2. InOrder(Word(n))
  BY <1>1 DEF InOrder
<1>3. \A w : w \in Marks(Word(n)) <=> w = n
  <2>1. \A i \in 1 .. Len(Word(n)) : i = 1
    BY <1>1
  <2>2. 1 \in 1 .. Len(Word(n))
    BY <1>1
  <2> QED  BY <2>1, <2>2, <1>1, MarkIn
<1> QED  BY <1>1, <1>2, <1>3

\* What a call shows, and the words said and left out after it.
Leaf(c) == Takes[c] = <<>>
Shown(c) == IF Leaf(c) THEN <<{spoken + 1}>> ELSE Text(c, TakeAll(c).taken)
SpokenAfter(c) == IF Leaf(c) THEN spoken + 1 ELSE spoken
FourthAfter(c) == IF c = "RegQuad" THEN fourth \cup UNION ToSet(TakeAll(c).taken[1]) ELSE fourth
Heard == (1 .. spoken) \ fourth

\* No word is lost, doubled or moved by a call, but the fourth point of a quad.
LEMMA CallShows ==
    ASSUME items \in Seq(Items), StackInOrder(items), spoken \in Nat, fourth \subseteq 1 .. spoken,
           AllMarks(items) = Heard, NEW c \in Calls, NEW a \in Shapes, NEW m,
           HasShape(items, a), Pops(a, Takes[c], m)
    PROVE  LET st == TakeAll(c)
           IN  /\ ~st.error /\ st.items \in Seq(Items) /\ StackInOrder(st.items)
               /\ HasShape(st.items, m)
               /\ Shown(c) \in Texts /\ InOrder(Shown(c))
               /\ Before(AllMarks(st.items), Marks(Shown(c)))
               /\ SpokenAfter(c) \in Nat /\ FourthAfter(c) \subseteq 1 .. SpokenAfter(c)
               /\ AllMarks(st.items) \cup Marks(Shown(c)) = (1 .. SpokenAfter(c)) \ FourthAfter(c)
<1> DEFINE st == TakeAll(c)
           B == AllMarks(st.items)
<1>1. PrintsBack(c)
  BY CallsPrintBack
<1>2. Takes[c] \in Seq(Entries)
  BY <1>1 DEF PrintsBack
<1>3. Halfway(st, Len(Takes[c]), Heard) /\ HasShape(st.items, m)
  BY <1>2, TakeAllGives
<1> HIDE DEF st
<1>4. ~st.error /\ st.items \in Seq(Items) /\ StackInOrder(st.items) /\ st.taken \in Seq(Texts)
  BY <1>3 DEF Halfway, TakeStates
<1>5. CASE Leaf(c)
  <2>1. Len(Takes[c]) = 0 /\ c # "RegQuad"
    BY <1>5, <1>1 DEF PrintsBack, Leaf
  <2>2. Heard = B
    <3>1. \A i : i \notin 1 .. 0
      OBVIOUS
    <3>2. UNION {Marks(st.taken[i]) : i \in 1 .. 0} = {}
      BY <3>1
    <3> HIDE DEF B
    <3>3. Heard = B \cup UNION {Marks(st.taken[i]) : i \in 1 .. 0}
      BY <2>1, <1>3 DEF Halfway, B
    <3> QED  BY <3>2, <3>3
  <2>3. Shown(c) = Word(spoken + 1) /\ SpokenAfter(c) = spoken + 1 /\ FourthAfter(c) = fourth
    BY <1>5, <2>1 DEF Shown, SpokenAfter, FourthAfter, Word
  <2>4. Shown(c) \in Texts /\ InOrder(Shown(c)) /\ Marks(Shown(c)) = {spoken + 1}
    BY <2>3, WordSaid
  <2>5. Before(B, Marks(Shown(c)))
    BY <2>2, <2>4 DEF Before, Heard
  <2>6. B \cup {spoken + 1} = (1 .. spoken + 1) \ fourth
    <3>1. \A w : w \in 1 .. spoken + 1 <=> w \in 1 .. spoken \/ w = spoken + 1
      OBVIOUS
    <3>2. spoken + 1 \notin fourth
      <4>1. spoken + 1 \notin 1 .. spoken
        OBVIOUS
      <4> QED  BY <4>1
    <3> HIDE DEF B
    <3>3. \A w : w \in B \cup {spoken + 1} <=> w \in (1 .. spoken + 1) \ fourth
      BY <3>1, <3>2, <2>2 DEF Heard
    <3> QED  BY <3>3
  <2>7. fourth \subseteq 1 .. spoken + 1
    OBVIOUS
  <2> HIDE DEF B
  <2> QED  BY <2>3, <2>4, <2>5, <2>6, <2>7, <1>3, <1>4 DEF st, B
<1>6. CASE ~Leaf(c)
  <2>1. Shown(c) = Text(c, st.taken) /\ SpokenAfter(c) = spoken
    BY <1>6 DEF Shown, SpokenAfter, st
  <2>2. /\ Shown(c) \in Texts /\ InOrder(Shown(c)) /\ Before(B, Marks(Shown(c)))
        /\ c # "RegQuad" => Heard = B \cup Marks(Shown(c))
        /\ c = "RegQuad" => /\ st.taken[1] \in Texts
                            /\ Marks(st.taken[1]) \subseteq Heard
                            /\ Heard \ Marks(st.taken[1]) = B \cup Marks(Shown(c))
    <3> DEFINE x == Text(c, st.taken)
    <3>1. /\ x \in Texts /\ InOrder(x) /\ Before(B, Marks(x))
          /\ c # "RegQuad" => Heard = B \cup Marks(x)
          /\ c = "RegQuad" => /\ st.taken[1] \in Texts
                              /\ Marks(st.taken[1]) \subseteq Heard
                              /\ Heard \ Marks(st.taken[1]) = B \cup Marks(x)
      BY <1>1, <1>3, TextGives, Zenon
    <3> HIDE DEF x, B
    <3>2. Shown(c) = x
      BY <2>1 DEF x
    <3> QED  BY <3>1, <3>2
  <2> HIDE DEF B
  <2>3. CASE c # "RegQuad"
    <3>1. FourthAfter(c) = fourth
      BY <2>3 DEF FourthAfter
    <3> QED  BY <2>1, <2>2, <2>3, <3>1, <1>3, <1>4 DEF Heard, st, B
  <2>4. CASE c = "RegQuad"
    <3> DEFINE M == Marks(st.taken[1])
    <3>1. FourthAfter(c) = fourth \cup M
      BY <2>2, <2>4, AsSetKeeps DEF FourthAfter, st
    <3> HIDE DEF M
    <3>2. M \subseteq 1 .. spoken /\ Heard \ M = B \cup Marks(Shown(c))
      BY <2>2, <2>4 DEF Heard, M
    <3>3. Heard \ M = (1 .. spoken) \ (fourth \cup M)
      BY DEF Heard
    <3> QED  BY <2>1, <2>2, <3>1, <3>2, <3>3, <1>3, <1>4 DEF st, B
  <2> QED  BY <2>3, <2>4
<1> QED  BY <1>5, <1>6
-----------------------------------------------------------------------------
(* The versions a message asks for.                                        *)
Range78(lo, hi) == [min |-> lo, max |-> hi]
VersOK(v, a) ==
  \/ a = {} /\ (v = NoVersion \/ v = Range78(8, 7))
  \/ a = {7} /\ v = Range78(7, 7)
  \/ a = {8} /\ v = Range78(8, 8)
  \/ a = {7, 8} /\ v = Range78(7, 8)

\* One more version asked for, in whatever order.
LEMMA VersionAsked ==
    ASSUME NEW v, NEW a, VersOK(v, a), NEW x \in Versions
    PROVE  LET lo == IF x = "7" THEN 7 ELSE 8
               hi == IF x = "8" THEN 8 ELSE 7
           IN  /\ VersOK(setVer(v, lo, hi), IF lo = hi THEN a \cup {lo} ELSE a)
               /\ setVer(v, lo, hi) # NoVersion
<1> DEFINE lo == IF x = "7" THEN 7 ELSE 8
           hi == IF x = "8" THEN 8 ELSE 7
<1>1. x = "7" \/ x = "8" \/ x = "8 or 7"
  BY DEF Versions
<1>2. CASE x = "7"
  <2>1. lo = 7 /\ hi = 7
    BY <1>2
  <2> HIDE DEF lo, hi
  <2>2. CASE a = {}
    BY <2>1, <2>2 DEF VersOK, setVer, NoVersion, Range78
  <2>3. CASE a = {7}
    BY <2>1, <2>3 DEF VersOK, setVer, NoVersion, Range78
  <2>4. CASE a = {8}
    BY <2>1, <2>4 DEF VersOK, setVer, NoVersion, Range78
  <2>5. CASE a = {7, 8}
    BY <2>1, <2>5 DEF VersOK, setVer, NoVersion, Range78
  <2> QED  BY <2>2, <2>3, <2>4, <2>5 DEF VersOK, lo, hi
<1>3. CASE x = "8"
  <2>1. lo = 8 /\ hi = 8
    BY <1>3
  <2> HIDE DEF lo, hi
  <2>2. CASE a = {}
    BY <2>1, <2>2 DEF VersOK, setVer, NoVersion, Range78
  <2>3. CASE a = {7}
    BY <2>1, <2>3 DEF VersOK, setVer, NoVersion, Range78
  <2>4. CASE a = {8}
    BY <2>1, <2>4 DEF VersOK, setVer, NoVersion, Range78
  <2>5. CASE a = {7, 8}
    BY <2>1, <2>5 DEF VersOK, setVer, NoVersion, Range78
  <2> QED  BY <2>2, <2>3, <2>4, <2>5 DEF VersOK, lo, hi
<1>4. CASE x = "8 or 7"
  <2>1. lo = 8 /\ hi = 7
    BY <1>4
  <2> HIDE DEF lo, hi
  <2>2. CASE a = {}
    BY <2>1, <2>2 DEF VersOK, setVer, NoVersion, Range78
  <2>3. CASE a = {7}
    BY <2>1, <2>3 DEF VersOK, setVer, NoVersion, Range78
  <2>4. CASE a = {8}
    BY <2>1, <2>4 DEF VersOK, setVer, NoVersion, Range78
  <2>5. CASE a = {7, 8}
    BY <2>1, <2>5 DEF VersOK, setVer, NoVersion, Range78
  <2> QED  BY <2>2, <2>3, <2>4, <2>5 DEF VersOK, lo, hi
<1> QED  BY <1>1, <1>2, <1>3, <1>4

\* The message takes over the builder's versions.
LEMMA VersionsMerged ==
    ASSUME NEW v, NEW a, VersOK(v, a)
    PROVE  setVer(v, v.min, v.max) = v /\ setVer(NoVersion, v.min, v.max) = v
<1>1. CASE v = NoVersion
  BY <1>1 DEF setVer, NoVersion
<1>2. CASE v = Range78(8, 7)
  BY <1>2 DEF setVer, NoVersion, Range78
<1>3. CASE v = Range78(7, 7)
  BY <1>3 DEF setVer, NoVersion, Range78
<1>4. CASE v = Range78(8, 8)
  BY <1>4 DEF setVer, NoVersion, Range78
<1>5. CASE v = Range78(7, 8)
  BY <1>5 DEF setVer, NoVersion, Range78
<1> QED  BY <1>1, <1>2, <1>3, <1>4, <1>5 DEF VersOK

\* A client hears a message when it supports every version asked for.
LEMMA VersionsCovered ==
    ASSUME NEW v, NEW a, VersOK(v, a), v # NoVersion, NEW lo \in 6 .. 9, NEW hi \in 6 .. 9, lo <= hi
    PROVE  isSupported(v, lo, hi) <=>
             IF a = {} THEN {7, 8} \cap lo .. hi # {} ELSE a \subseteq lo .. hi
<1>0. \A n \in {7, 8} : n \in lo .. hi <=> lo <= n /\ n <= hi
  OBVIOUS
<1>1. CASE a = {}
  <2>1. v = Range78(8, 7)
    BY <1>1 DEF VersOK
  <2>2. isSupported(v, lo, hi) <=> (lo <= 7 /\ 7 <= hi) \/ (lo <= 8 /\ 8 <= hi)
    BY <2>1 DEF isSupported, Range78
  <2>3. {7, 8} \cap lo .. hi # {} <=> 7 \in lo .. hi \/ 8 \in lo .. hi
    BY Zenon
  <2> QED  BY <1>0, <1>1, <2>2, <2>3
<1>2. CASE a = {7}
  <2>1. v = Range78(7, 7)
    BY <1>2 DEF VersOK
  <2>2. isSupported(v, lo, hi) <=> lo <= 7 /\ 7 <= hi
    BY <2>1 DEF isSupported, Range78
  <2> QED  BY <1>0, <1>2, <2>2
<1>3. CASE a = {8}
  <2>1. v = Range78(8, 8)
    BY <1>3 DEF VersOK
  <2>2. isSupported(v, lo, hi) <=> lo <= 8 /\ 8 <= hi
    BY <2>1 DEF isSupported, Range78
  <2> QED  BY <1>0, <1>3, <2>2
<1>4. CASE a = {7, 8}
  <2>1. v = Range78(7, 8)
    BY <1>4 DEF VersOK
  <2>2. isSupported(v, lo, hi) <=> lo <= 7 /\ 8 <= hi
    BY <2>1 DEF isSupported, Range78
  <2> QED  BY <1>0, <1>4, <2>2
<1> QED  BY <1>1, <1>2, <1>3, <1>4 DEF VersOK

-----------------------------------------------------------------------------
(* The parse.                                                              *)
MessageRecords == [text : Texts, vers : {NoVersion} \cup [min : Nat, max : Nat], made : BOOLEAN]

\* Where the derivation stands: items on the stack, or the message made.
Building(a) == a \in Shapes /\ ~message.made /\ HasShape(items, a) /\ AllMarks(items) = Heard
Complete ==
  /\ message.made /\ items = <<>> /\ VersOK(message.vers, asked)
  /\ InOrder(message.text) /\ Marks(message.text) = Heard
StandsAt(a) ==
  \/ Building(a)
  \/ a = Made /\ Complete
  \/ a = Over /\ Complete /\ message.vers # NoVersion
GoesOn == \E a : Leads(a, todo, Over) /\ StandsAt(a)

ClangInv ==
  /\ items \in Seq(Items) /\ StackInOrder(items)
  /\ spoken \in Nat /\ fourth \subseteq 1 .. spoken
  /\ message \in MessageRecords /\ VersOK(vers, asked)
  /\ parse \in {"reading", "said", "rejected"}
  /\ parse = "reading" => GoesOn
  /\ parse = "said" => Complete /\ message.vers # NoVersion

\* A made message is no stack.
LEMMA EndsApart ==
    Made \notin Shapes /\ Over \notin Shapes /\ Made # Over
<1>1. One("MADE") \notin Entries /\ One("OVER") \notin Entries /\ One("MADE") # One("OVER")
  BY DEF One, Entries, ItemTypes
<1>2. ASSUME NEW e, <<e>> \in Shapes PROVE e \in Entries
  <2> DEFINE s == <<e>>
  <2>1. Len(s) = 1 /\ s[1] = e
    OBVIOUS
  <2> HIDE DEF s
  <2>2. s \in Shapes
    BY <1>2 DEF s
  <2>3. s \in Seq(Entries) /\ 1 \in 1 .. Len(s)
    BY <2>1, <2>2 DEF Shapes
  <2>4. s[1] \in Entries
    BY <2>3
  <2> QED  BY <2>1, <2>4
<1>3. ASSUME NEW e, NEW f, <<e>> = <<f>> PROVE e = f
  BY <1>3
<1> QED  BY <1>1, <1>2, <1>3 DEF Made, Over

\* The derivation starts from the empty stack.
LEMMA ClangInvInit ==
    ASSUME ClangInit
    PROVE  ClangInv
<1>1. "message" \in DOMAIN Syntax /\ "message" \in Symbols
  BY SyntaxAt, SyntaxNames DEF SyntaxTables, Symbols
<1>2. Effect("message", <<>>, Over)
  BY DEF Effect
<1>3. Leads(<<>>, <<"message">>, Over)
  BY <1>1, <1>2, LeadsOne
<1>4. items \in Seq(Items) /\ Len(items) = 0 /\ HasShape(items, <<>>) /\ <<>> \in Shapes
  BY EmptyStack DEF ClangInit, Shapes
<1>5. \A i : i \notin 1 .. Len(items)
  BY <1>4
<1>6. StackInOrder(items) /\ \A w : w \notin AllMarks(items)
  BY <1>5, AllMarksIn DEF StackInOrder
<1>7. spoken = 0 /\ fourth = {} /\ spoken \in Nat /\ fourth \subseteq 1 .. spoken /\ Heard = {}
  BY DEF ClangInit, Heard
<1>8. message \in MessageRecords /\ ~message.made
  BY DEF ClangInit, NoMessage, MessageRecords, Texts
<1>9. VersOK(vers, asked) /\ parse = "reading"
  BY DEF ClangInit, VersOK
<1>10. Building(<<>>)
  BY <1>4, <1>6, <1>7, <1>8 DEF Building
<1>11. GoesOn
  BY <1>3, <1>10 DEF GoesOn, StandsAt, ClangInit
<1> QED  BY <1>4, <1>6, <1>7, <1>8, <1>9, <1>11 DEF ClangInv

\* What the first symbol of what is left does.
LEMMA NextSymbol ==
    ASSUME ClangInv, Reading
    PROVE  \E a, m : StandsAt(a) /\ Effect(Head(todo), a, m) /\ Leads(m, Tail(todo), Over)
<1>1. PICK a : Leads(a, todo, Over) /\ StandsAt(a)
  BY DEF ClangInv, Reading, GoesOn
<1> QED  BY <1>1, LeadsHead DEF Reading

\* The parser goes on with one of the right-hand sides.
LEMMA DeriveKeeps ==
    ASSUME ClangInv, Derive
    PROVE  ClangInv'
<1> DEFINE x == Head(todo)
           rest == Tail(todo)
<1>1. Reading /\ x \in DOMAIN Syntax
  BY DEF Derive
<1>2. PICK a, m : StandsAt(a) /\ Effect(x, a, m) /\ Leads(m, rest, Over)
  BY <1>1, NextSymbol
<1>3. PICK rhs \in Syntax[x] : todo' = rhs \o rest
  BY DEF Derive
<1> HIDE DEF x, rest
<1>4. Leads(a, todo', Over)
  BY <1>1, <1>2, <1>3, DeriveLeads, LeadsOn
<1>5. UNCHANGED <<items, vers, message, parse, calls, spoken, fourth, asked>>
  BY DEF Derive
<1>6. StandsAt(a)'
  BY <1>2, <1>5 DEF StandsAt, Building, Complete, Heard
<1>7. GoesOn'
  BY <1>4, <1>6 DEF GoesOn
<1> QED  BY <1>5, <1>7 DEF ClangInv, Complete, Heard

\* What a call leaves, when it takes what it finds.
LEMMA BuildDoes ==
    ASSUME Build
    PROVE  LET c == Head(todo)
               st == TakeAll(c)
           IN  ~st.error /\ (c \in Messages => st.items = <<>>) =>
                 /\ spoken' = SpokenAfter(c) /\ fourth' = FourthAfter(c)
                 /\ todo' = Tail(todo) /\ parse' = parse /\ asked' = asked
                 /\ c \in Messages =>
                      /\ message' = [text |-> Shown(c), made |-> TRUE,
                                     vers |-> setVer(NoVersion, vers.min, vers.max)]
                      /\ vers' = setVer(vers, vers.min, vers.max) /\ items' = st.items
                 /\ c \notin Messages =>
                      /\ items' = Append(st.items, [type |-> Type(c), text |-> Shown(c)])
                      /\ vers' = vers /\ message' = message
  BY Zenon DEF Build, SpokenAfter, FourthAfter, Shown, Leaf

\* A call finds what it takes on the stack and leaves the next shape.
LEMMA BuildKeeps ==
    ASSUME ClangInv, Build
    PROVE  ClangInv'
<1> DEFINE c == Head(todo)
           st == TakeAll(c)
<1>1. Reading /\ c \in Calls
  BY DEF Build
<1>2. PICK a, m : StandsAt(a) /\ Effect(c, a, m) /\ Leads(m, Tail(todo), Over)
  BY <1>1, NextSymbol
<1>3. c \notin Versions /\ c \notin DOMAIN Syntax /\ c # "message"
  <2>1. "message" \in DOMAIN Syntax
    BY SyntaxAt, SyntaxNames DEF SyntaxTables
  <2> QED  BY <2>1, <1>1, SymbolsApart
<1>4. /\ ~st.error /\ (c \in Messages => st.items = <<>>) =>
           /\ spoken' = SpokenAfter(c) /\ fourth' = FourthAfter(c)
           /\ todo' = Tail(todo) /\ parse' = parse /\ asked' = asked
           /\ c \in Messages =>
                /\ message' = [text |-> Shown(c), made |-> TRUE,
                               vers |-> setVer(NoVersion, vers.min, vers.max)]
                /\ vers' = setVer(vers, vers.min, vers.max) /\ items' = st.items
           /\ c \notin Messages =>
                /\ items' = Append(st.items, [type |-> Type(c), text |-> Shown(c)])
                /\ vers' = vers /\ message' = message
  BY BuildDoes, Zenon
<1>5. items \in Seq(Items) /\ StackInOrder(items) /\ spoken \in Nat /\ fourth \subseteq 1 .. spoken
      /\ message \in MessageRecords /\ VersOK(vers, asked) /\ parse = "reading"
  BY <1>1 DEF ClangInv, Reading
<1> HIDE DEF c
<1>6. ASSUME NEW r, a \in Shapes, Pops(a, Takes[c], r)
      PROVE  /\ ~st.error /\ st.items \in Seq(Items) /\ StackInOrder(st.items)
             /\ HasShape(st.items, r)
             /\ Shown(c) \in Texts /\ InOrder(Shown(c))
             /\ Before(AllMarks(st.items), Marks(Shown(c)))
             /\ SpokenAfter(c) \in Nat /\ FourthAfter(c) \subseteq 1 .. SpokenAfter(c)
             /\ AllMarks(st.items) \cup Marks(Shown(c)) = (1 .. SpokenAfter(c)) \ FourthAfter(c)
             /\ ~message.made
  <2>1. Building(a)
    BY <1>2, <1>6, EndsApart DEF StandsAt
  <2>2. HasShape(items, a) /\ AllMarks(items) = Heard /\ ~message.made
    BY <2>1 DEF Building
  <2> QED  BY <2>2, <1>1, <1>5, <1>6, CallShows, Zenon
<1> HIDE DEF st
<1>7. CASE c \in Messages
  <2>1. a \in Shapes /\ Pops(a, Takes[c], <<>>) /\ m = Made
    BY <1>1, <1>2, <1>3, <1>7 DEF Effect, MessageEffect
  <2>2. /\ ~st.error /\ st.items \in Seq(Items) /\ HasShape(st.items, <<>>)
        /\ Shown(c) \in Texts /\ InOrder(Shown(c))
        /\ SpokenAfter(c) \in Nat /\ FourthAfter(c) \subseteq 1 .. SpokenAfter(c)
        /\ AllMarks(st.items) \cup Marks(Shown(c)) = (1 .. SpokenAfter(c)) \ FourthAfter(c)
    BY <1>6, <2>1, Zenon
  <2>3. st.items = <<>>
    BY <2>2, EmptyStack
  <2>4. \A w : w \notin AllMarks(st.items)
    <3>1. \A i : i \notin 1 .. Len(st.items)
      BY <2>3
    <3> QED  BY <3>1, AllMarksIn
  <2>5. Marks(Shown(c)) = (1 .. SpokenAfter(c)) \ FourthAfter(c)
    BY <2>2, <2>4
  <2>6. /\ spoken' = SpokenAfter(c) /\ fourth' = FourthAfter(c)
        /\ todo' = Tail(todo) /\ parse' = parse /\ asked' = asked
        /\ message' = [text |-> Shown(c), made |-> TRUE,
                       vers |-> setVer(NoVersion, vers.min, vers.max)]
        /\ vers' = setVer(vers, vers.min, vers.max) /\ items' = st.items
    BY <1>4, <1>7, <2>2, <2>3
  <2>7. vers' = vers /\ message' = [text |-> Shown(c), made |-> TRUE, vers |-> vers]
    BY <2>6, <1>5, VersionsMerged
  <2>8. message'.made /\ message'.text = Shown(c) /\ message'.vers = vers
        /\ (vers \in {NoVersion} \cup [min : Nat, max : Nat] => message' \in MessageRecords)
    BY <2>7, <2>2 DEF MessageRecords
  <2>9. vers \in {NoVersion} \cup [min : Nat, max : Nat]
    BY <1>5 DEF VersOK, Range78
  <2>10. Complete'
    BY <2>2, <2>3, <2>5, <2>6, <2>8, <1>5 DEF Complete, Heard
  <2>11. GoesOn'
    BY <2>1, <2>6, <2>10, <1>2 DEF GoesOn, StandsAt
  <2>12. StackInOrder(items')
    BY <2>2, <2>6, <2>1, <1>6, Zenon
  <2> QED  BY <2>2, <2>6, <2>7, <2>8, <2>9, <2>11, <2>12, <1>5 DEF ClangInv
<1>8. CASE c \notin Messages
  <2>1. CallEffect(c, a, m)
    BY <1>1, <1>2, <1>3, <1>8 DEF Effect
  <2>2. PICK r \in Shapes : Pops(a, Takes[c], r) /\ Adds(r, Type(c), m)
    BY <2>1 DEF CallEffect
  <2>3. a \in Shapes /\ m \in Shapes
    BY <2>1 DEF CallEffect
  <2>4. /\ ~st.error /\ st.items \in Seq(Items) /\ StackInOrder(st.items)
        /\ HasShape(st.items, r)
        /\ Shown(c) \in Texts /\ InOrder(Shown(c))
        /\ Before(AllMarks(st.items), Marks(Shown(c)))
        /\ SpokenAfter(c) \in Nat /\ FourthAfter(c) \subseteq 1 .. SpokenAfter(c)
        /\ AllMarks(st.items) \cup Marks(Shown(c)) = (1 .. SpokenAfter(c)) \ FourthAfter(c)
        /\ ~message.made
    BY <1>6, <2>2, <2>3, Zenon
  <2> DEFINE x == [type |-> Type(c), text |-> Shown(c)]
  <2>5. Type(c) \in ItemTypes
    BY <2>2, <2>3, TypeOfResult
  <2>6. x \in Items /\ x.type = Type(c) /\ x.text = Shown(c)
    BY <2>4, <2>5 DEF Items
  <2>7. /\ spoken' = SpokenAfter(c) /\ fourth' = FourthAfter(c)
        /\ todo' = Tail(todo) /\ parse' = parse /\ asked' = asked
        /\ items' = Append(st.items, x) /\ vers' = vers /\ message' = message
    BY <1>4, <1>8, <2>4, Zenon
  <2> HIDE DEF x
  <2>8. HasShape(items', m)
    BY <2>2, <2>4, <2>6, <2>7, ShapeGrows
  <2>9. items' \in Seq(Items) /\ StackInOrder(items')
        /\ AllMarks(items') = AllMarks(st.items) \cup Marks(Shown(c))
    BY <2>4, <2>6, <2>7, OrderGrows
  <2>10. Building(m)'
    BY <2>3, <2>4, <2>7, <2>8, <2>9 DEF Building, Heard
  <2>11. GoesOn'
    BY <2>7, <2>10, <1>2 DEF GoesOn, StandsAt
  <2> QED  BY <2>4, <2>7, <2>9, <2>11, <1>5 DEF ClangInv
<1> QED  BY <1>7, <1>8

\* setVer merges what is asked for, in the builder and in the message.
LEMMA VersionKeepsInv ==
    ASSUME ClangInv, Version
    PROVE  ClangInv'
<1> DEFINE x == Head(todo)
           lo == IF x = "7" THEN 7 ELSE 8
           hi == IF x = "8" THEN 8 ELSE 7
<1>1. Reading /\ x \in Versions
  BY DEF Version
<1>2. PICK a, m : StandsAt(a) /\ Effect(x, a, m) /\ Leads(m, Tail(todo), Over)
  BY <1>1, NextSymbol
<1>3. /\ vers' = setVer(vers, lo, hi)
      /\ message' = IF message.made THEN [message EXCEPT !.vers = setVer(@, lo, hi)] ELSE message
      /\ asked' = IF lo = hi THEN asked \cup {lo} ELSE asked
      /\ todo' = Tail(todo) /\ UNCHANGED <<items, parse, calls, spoken, fourth>>
  BY Zenon DEF Version
<1>4. VersOK(vers, asked) /\ message \in MessageRecords
  BY DEF ClangInv
<1>5. \A v : VersOK(v, asked) => VersOK(setVer(v, lo, hi), asked') /\ setVer(v, lo, hi) # NoVersion
  BY <1>1, <1>3, VersionAsked, Zenon
<1> HIDE DEF lo, hi
<1>6. x \notin Messages /\ x \notin Calls /\ x \notin DOMAIN Syntax /\ x # "message"
  <2>1. "message" \in DOMAIN Syntax
    BY SyntaxAt, SyntaxNames DEF SyntaxTables
  <2> QED  BY <2>1, <1>1, SymbolsApart, SpeechIsCall
<1> HIDE DEF x
<1>7. VersionEffect(a, m)
  BY <1>2, <1>6 DEF Effect
<1>8. \A v, b : VersOK(v, b) => v \in {NoVersion} \cup [min : Nat, max : Nat]
  BY DEF VersOK, Range78
<1>9. CASE a \in Shapes /\ m = a
  <2>1. Building(a)
    BY <1>2, <1>9, EndsApart DEF StandsAt
  <2>2. message' = message
    BY <2>1, <1>3 DEF Building
  <2>3. Building(a)'
    BY <2>1, <2>2, <1>3 DEF Building, Heard
  <2>4. GoesOn'
    BY <2>3, <1>2, <1>3, <1>9 DEF GoesOn, StandsAt
  <2> QED  BY <2>2, <2>4, <1>1, <1>3, <1>4, <1>5 DEF ClangInv, Reading
<1>10. CASE a = Made /\ m = Over
  <2>1. Complete
    BY <1>2, <1>10, EndsApart DEF StandsAt, Building
  <2>2. message' = [message EXCEPT !.vers = setVer(message.vers, lo, hi)]
    BY <2>1, <1>3 DEF Complete
  <2>3. VersOK(setVer(message.vers, lo, hi), asked') /\ setVer(message.vers, lo, hi) # NoVersion
    BY <2>1, <1>5 DEF Complete
  <2>4. setVer(message.vers, lo, hi) \in {NoVersion} \cup [min : Nat, max : Nat]
    BY <2>3, <1>8
  <2>5. message' \in MessageRecords /\ message'.made = message.made /\ message'.text = message.text
        /\ message'.vers = setVer(message.vers, lo, hi)
    BY <2>2, <2>4, <1>4 DEF MessageRecords
  <2>6. Complete' /\ message'.vers # NoVersion
    BY <2>1, <2>3, <2>5, <1>3 DEF Complete, Heard
  <2>7. GoesOn'
    BY <2>6, <1>2, <1>3, <1>10 DEF GoesOn, StandsAt
  <2> QED  BY <2>5, <2>7, <1>1, <1>3, <1>4, <1>5 DEF ClangInv, Reading
<1> QED  BY <1>7, <1>9, <1>10 DEF VersionEffect

\* At the end nothing is left to derive: the message is made.
LEMMA EndKeeps ==
    ASSUME ClangInv, EndOfMessage
    PROVE  ClangInv'
<1>1. parse = "reading" /\ todo = <<>> /\ parse' = "said"
      /\ UNCHANGED <<todo, items, vers, message, calls, spoken, fourth, asked>>
  BY DEF EndOfMessage
<1>2. PICK a : Leads(a, todo, Over) /\ StandsAt(a)
  BY <1>1 DEF ClangInv, GoesOn
<1>3. a = Over
  BY <1>1, <1>2, LeadsNowhere
<1>4. Complete /\ message.vers # NoVersion
  BY <1>2, <1>3, EndsApart DEF StandsAt, Building
<1>5. Complete'
  BY <1>1, <1>4 DEF Complete, Heard
<1> QED  BY <1>1, <1>4, <1>5 DEF ClangInv

\* Every step keeps the invariant.
LEMMA ClangInvNext ==
    ASSUME ClangInv, [ClangNext]_gvars
    PROVE  ClangInv'
<1>1. CASE Derive
  BY <1>1, DeriveKeeps
<1>2. CASE Build
  BY <1>2, BuildKeeps
<1>3. CASE Version
  BY <1>3, VersionKeepsInv
<1>4. CASE LongName
  BY <1>4 DEF LongName, ClangInv
<1>5. CASE EndOfMessage
  BY <1>5, EndKeeps
<1>6. CASE UNCHANGED gvars
  BY <1>6 DEF gvars, ClangInv, GoesOn, StandsAt, Building, Complete, Heard
<1> QED  BY <1>1, <1>2, <1>3, <1>4, <1>5, <1>6 DEF ClangNext

\* The invariant gives the property.
LEMMA ClangInvGives ==
    ASSUME ClangInv
    PROVE  MessageAsSaid
<1>1. parse # "error"
  BY DEF ClangInv
<1>2. ASSUME parse = "said"
      PROVE  /\ message.made /\ items = <<>>
             /\ UNION ToSet(message.text) = (1 .. spoken) \ fourth
             /\ \A i, j \in 1 .. Len(message.text) :
                  i < j => \A a \in message.text[i], b \in message.text[j] : a < b
             /\ \A lo, hi \in 6 .. 9 : lo <= hi =>
                  (isSupported(message.vers, lo, hi) <=>
                     IF asked = {} THEN {7, 8} \cap lo .. hi # {} ELSE asked \subseteq lo .. hi)
  <2>1. Complete /\ message.vers # NoVersion /\ message.text \in Texts
    BY <1>2 DEF ClangInv, MessageRecords
  <2>2. message.made /\ items = <<>> /\ VersOK(message.vers, asked)
        /\ InOrder(message.text) /\ Marks(message.text) = (1 .. spoken) \ fourth
    BY <2>1 DEF Complete, Heard
  <2>3. UNION ToSet(message.text) = (1 .. spoken) \ fourth
    BY <2>1, <2>2, AsSetKeeps
  <2>4. \A i, j \in 1 .. Len(message.text) :
          i < j => \A a \in message.text[i], b \in message.text[j] : a < b
    BY <2>2 DEF InOrder, Before
  <2>5. \A lo, hi \in 6 .. 9 : lo <= hi =>
          (isSupported(message.vers, lo, hi) <=>
             IF asked = {} THEN {7, 8} \cap lo .. hi # {} ELSE asked \subseteq lo .. hi)
    BY <2>1, <2>2, VersionsCovered, Zenon
  <2> QED  BY <2>2, <2>3, <2>4, <2>5
<1> QED  BY <1>1, <1>2, Zenon DEF MessageAsSaid

\* While a message is read, what is left of the derivation leads from the shape
\* of the stack to a finished message, the words on the stack are the words said
\* so far, in order, and the versions are the ones asked for.
THEOREM ClangInvHolds == ClangSpec => []ClangInv
<1>1. ClangInit => ClangInv
  BY ClangInvInit
<1>2. ClangInv /\ [ClangNext]_gvars => ClangInv'
  BY ClangInvNext
<1> QED  BY <1>1, <1>2, PTL DEF ClangSpec

\* Every message of the grammar is built without an error and printed as it was
\* said, but for the fourth points of quads, for the clients that support what
\* it asks for (MessageAsSaid), for all numbers of builder calls.
THEOREM MessageAsSaidHolds == ClangSpec => []MessageAsSaid
<1>1. ClangInv => MessageAsSaid
  BY ClangInvGives
<1> QED  BY <1>1, ClangInvHolds, PTL
=============================================================================
