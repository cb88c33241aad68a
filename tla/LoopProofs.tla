----------------------------- MODULE LoopProofs -----------------------------
(***************************************************************************)
(* Proofs about the loop that drives the server: its counters (Timers),    *)
(* for all lengths of the steps and of single passes; its wait for the     *)
(* clients in the synchronous mode (Think), for any number of clients; and *)
(* its end (Shutdown), for any number of signals.                          *)
(***************************************************************************)
EXTENDS Timers, Think, Shutdown, TLAPS

------------------------------------------------------------------------------
(* Timers: multiples of a step.                                             *)

\* What the floor of a quotient is.
LEMMA DivBounds ==
    ASSUME NEW S \in Nat \ {0}, NEW t \in Nat
    PROVE  t \div S \in Nat /\ S * (t \div S) <= t /\ t < S * (t \div S + 1)
  OBVIOUS

\* Multiples are ordered as their factors are.
LEMMA ProductOrder ==
    ASSUME NEW S \in Nat \ {0}, NEW a \in Int, NEW b \in Int
    PROVE  /\ S * a \in Int
           /\ S * a <= S * b => a <= b
           /\ S * a < S * b => a < b
           /\ a <= b => S * a <= S * b
           /\ S * (a + 1) = S * a + S
           /\ S * (a - 1) = S * a - S
  OBVIOUS

\* A step that divides lcm_step does so without rest.
LEMMA Divides ==
    ASSUME NEW S \in Nat \ {0}, NEW L \in Nat \ {0}, L % S = 0
    PROVE  L \div S \in Nat \ {0} /\ L = S * (L \div S)
  OBVIOUS

\* The rest of a division is the only one that is less than the divisor.
LEMMA RestIsUnique ==
    ASSUME NEW S \in Nat \ {0}, NEW a \in Int, NEW r \in 0 .. S - 1, NEW t \in Nat,
           t = S * a + r
    PROVE  t % S = r
<1>1. t = S * (t \div S) + (t % S) /\ t % S \in 0 .. S - 1 /\ t \div S \in Int
  OBVIOUS
<1>2. a = t \div S
  BY <1>1, ProductOrder
<1> QED  BY <1>1, <1>2

\* One stream of messages with the step S and the counter c, in a pass from
\* time l to time t.
LEMMA StreamPass ==
    ASSUME NEW S \in Nat \ {0}, LcmStep % S = 0, NEW c \in Nat \ {0},
           NEW l \in Nat, NEW t \in Nat, l <= t, l < LcmStep,
           S * (c - 1) <= l, l < S * c
    PROVE  LET m == IF t >= LcmStep THEN 0 ELSE t
               d == IF t >= S * c THEN Counted(S, t) ELSE c
           IN  d \in Nat \ {0} /\ S * (d - 1) <= m /\ m < S * d
<1> DEFINE q == LcmStep \div S
<1>0. LcmStep \in Nat \ {0}
  BY TimersAssumption
<1>1. q \in Nat \ {0} /\ LcmStep = S * q
  BY <1>0, Divides
<1> HIDE DEF q
<1>2. S * c <= LcmStep
  <2>1. S * (c - 1) < S * q
    BY <1>1
  <2>2. c <= q
    BY <1>1, <2>1, ProductOrder
  <2> QED  BY <1>1, <2>2, ProductOrder
<1>3. t \div S \in Nat /\ S * (t \div S) <= t /\ t < S * (t \div S + 1)
  BY DivBounds
<1>4. CASE t >= LcmStep
  <2>1. S * q < S * (t \div S + 1)
    BY <1>1, <1>3, <1>4
  <2>2. q <= t \div S
    BY <1>1, <1>3, <2>1, ProductOrder
  <2>3. Counted(S, t) = 1 /\ t >= S * c
    BY <1>2, <1>4, <2>2, <1>0 DEF Counted, q
  <2> QED  BY <1>4, <2>3
<1>5. CASE t < LcmStep /\ t >= S * c
  <2>1. S * (t \div S) < S * q
    BY <1>1, <1>3, <1>5
  <2>2. t \div S < q
    BY <1>1, <1>3, <2>1, ProductOrder
  <2>3. Counted(S, t) = t \div S + 1
    BY <1>1, <1>3, <2>2 DEF Counted, q
  <2> QED  BY <1>0, <1>3, <1>5, <2>3
<1>6. CASE t < S * c
  <2>1. t < LcmStep
    BY <1>0, <1>2, <1>6
  <2> QED  BY <1>0, <1>6, <2>1
<1> QED  BY <1>0, <1>4, <1>5, <1>6

------------------------------------------------------------------------------
(* Timers: the invariant.                                                   *)

TimersTypeOK ==
    /\ sync \in BOOLEAN /\ lcmt \in Nat /\ lcmt < LcmStep
    /\ cSim \in Nat \ {0} /\ cnt \in [DOMAIN Steps -> Nat \ {0}]
    /\ cSynch \in Nat \ {0} /\ cSee \in Nat \ {0}
    /\ sentSee \in BOOLEAN /\ skipped \in BOOLEAN

\* The synchronous timer's clock is a multiple of its constant pass.
OnGrid == sync => \E n \in Nat : lcmt = Delta * n

\* The synchronous see of a step is counted once, when its offset is reached.
SeeCounted ==
    ~ skipped /\ SeeOffset > 0 =>
        /\ cSee = cSim + (IF sentSee THEN 1 ELSE 0)
        /\ sentSee <=> lcmt >= SimStep * (cSim - 1) + SeeOffset

\* The last pass of a round of the synchronous timer ends on lcm_step, or at
\* least not so late that the see of the next round is due.
SeeFits == LcmStep % Delta = 0 \/ Delta <= SeeOffset

TimersInv == TimersTypeOK /\ StreamsInStep /\ ThinkInStep /\ OnGrid

\* What is known of the time t and the simulator counter k of a pass of either
\* timer.
PassOf(t, k) ==
    /\ t \in Nat /\ k \in Nat \ {0} /\ lcmt <= t
    /\ SimStep * (k - 1) <= t /\ t < SimStep * (k + 1)
    /\ k = cSim \/ (k > cSim /\ t = SimStep * k)
    /\ sync => t = lcmt + Delta /\ k = cSim
    /\ ~ sync => t < SimStep * k \/ t = SimStep * k

\* The standard timer sets its clock back to the last simulator step that is
\* due; the synchronous one passes at most one simulator step at a time.
LEMMA StandardIsPass ==
    ASSUME TimersInv, NEW e \in 0..Slowest, StandardPass(e)
    PROVE  \E t, k \in Nat : PassOf(t, k) /\ Pass(t, k)
<1> DEFINE u == lcmt + (IF e > Delta THEN e ELSE Delta)
           k == SlowSim(u)
           t == IF u >= SimStep * cSim THEN SimStep * k ELSE u
<1> USE TimersAssumption
<1>1. /\ lcmt \in Nat /\ cSim \in Nat \ {0} /\ u \in Nat /\ lcmt <= u
      /\ SimStep \in Nat \ {0}
  BY DEF TimersInv, TimersTypeOK
<1>2. SimStep * (cSim - 1) <= lcmt /\ lcmt < SimStep * cSim
  BY DEF TimersInv, StreamsInStep
<1>3. ~ sync /\ Pass(t, k)
  BY DEF StandardPass
<1> HIDE DEF u
<1>4. CASE u >= SimStep * cSim
  <2>1. k = u \div SimStep
    BY <1>4 DEF SlowSim
  <2>2. k \in Nat /\ SimStep * k <= u /\ u < SimStep * (k + 1)
    BY <1>1, <2>1, DivBounds
  <2>3. t = SimStep * k
    BY <1>4
  <2> HIDE DEF k, t
  <2>4. cSim <= k
    <3>1. SimStep * cSim < SimStep * (k + 1)
      BY <1>1, <1>4, <2>2, ProductOrder
    <3> QED  BY <1>1, <2>2, <3>1, ProductOrder
  <2>5. SimStep * cSim <= SimStep * k
    BY <1>1, <2>2, <2>4, ProductOrder
  <2>6. SimStep * (k + 1) = SimStep * k + SimStep /\ SimStep * (k - 1) = SimStep * k - SimStep
    BY <1>1, <2>2, ProductOrder
  <2>7. SimStep * k \in Int /\ SimStep * cSim \in Int
    BY <1>1, <2>2, ProductOrder
  <2>8. t \in Nat /\ lcmt <= t
    BY <1>1, <1>2, <2>3, <2>5, <2>7
  <2>9. PassOf(t, k)
    BY <1>1, <1>3, <2>2, <2>3, <2>4, <2>6, <2>7, <2>8 DEF PassOf
  <2> QED  BY <1>3, <2>2, <2>8, <2>9
<1>5. CASE u < SimStep * cSim
  <2>0. SimStep * cSim \in Int
    BY <1>1, ProductOrder
  <2>1. k = cSim /\ t = u
    BY <1>1, <1>5, <2>0 DEF SlowSim
  <2>2. SimStep * (k + 1) = SimStep * k + SimStep
    BY <1>1, <2>1, ProductOrder
  <2>3. PassOf(t, k)
    BY <1>1, <1>2, <1>3, <1>5, <2>0, <2>1, <2>2 DEF PassOf
  <2> QED  BY <1>1, <1>3, <2>1, <2>3
<1>6. SimStep * cSim \in Int
  BY <1>1, ProductOrder
<1> QED  BY <1>1, <1>4, <1>5, <1>6

LEMMA SyncIsPass ==
    ASSUME TimersInv, SyncPass
    PROVE  \E t, k \in Nat : PassOf(t, k) /\ Pass(t, k)
<1> USE TimersAssumption
<1>1. /\ lcmt \in Nat /\ cSim \in Nat \ {0} /\ SimStep \in Nat \ {0} /\ Delta \in Nat \ {0}
      /\ Delta <= SimStep /\ lcmt + Delta \in Nat
  BY DEF TimersInv, TimersTypeOK
<1>2. SimStep * (cSim - 1) <= lcmt /\ lcmt < SimStep * cSim
  BY DEF TimersInv, StreamsInStep
<1>3. SimStep * (cSim + 1) = SimStep * cSim + SimStep /\ SimStep * cSim \in Int
      /\ SimStep * (cSim - 1) = SimStep * cSim - SimStep
  BY <1>1, ProductOrder
<1>4. sync /\ Pass(lcmt + Delta, cSim)
  BY DEF SyncPass
<1>5. PassOf(lcmt + Delta, cSim)
  BY <1>1, <1>2, <1>3, <1>4 DEF PassOf
<1> QED  BY <1>1, <1>4, <1>5

\* The simulator counter and the wrap of the clock go together.
LEMMA SimPass ==
    ASSUME TimersInv, NEW t \in Nat, NEW k \in Nat, PassOf(t, k), Pass(t, k)
    PROVE  /\ cSim' \in Nat \ {0} /\ lcmt' \in Nat /\ lcmt' < LcmStep
           /\ SimStep * (cSim' - 1) <= lcmt' /\ lcmt' < SimStep * cSim'
           /\ t < SimStep * k => cSim' = cSim /\ k = cSim /\ lcmt' = t /\ t < LcmStep
           /\ t >= SimStep * k =>
                 \/ k < LcmStep \div SimStep /\ cSim' = k + 1 /\ lcmt' = t /\ t < LcmStep
                 \/ /\ k >= LcmStep \div SimStep /\ cSim' = 1 /\ lcmt' = 0 /\ t >= LcmStep
                    /\ k = cSim => LcmStep = SimStep * k
<1> DEFINE q == LcmStep \div SimStep
<1> USE TimersAssumption
<1>1. /\ lcmt \in Nat /\ cSim \in Nat \ {0} /\ SimStep \in Nat \ {0} /\ LcmStep \in Nat \ {0}
      /\ lcmt < LcmStep
  BY DEF TimersInv, TimersTypeOK
<1>2. SimStep * (cSim - 1) <= lcmt /\ lcmt < SimStep * cSim
  BY DEF TimersInv, StreamsInStep
<1>3. q \in Nat \ {0} /\ LcmStep = SimStep * q
  BY <1>1, Divides
<1>4. /\ lcmt' = IF t >= LcmStep THEN 0 ELSE t
      /\ cSim' = IF t >= SimStep * k THEN (IF q <= k THEN 1 ELSE k + 1) ELSE k
  BY DEF Pass
<1> HIDE DEF q
<1>5. cSim <= q /\ SimStep * cSim <= LcmStep
  <2>1. SimStep * (cSim - 1) < SimStep * q
    BY <1>1, <1>2, <1>3, ProductOrder
  <2>2. cSim - 1 < q
    BY <1>1, <1>3, <2>1, ProductOrder
  <2>3. cSim <= q
    BY <1>1, <1>3, <2>2
  <2> QED  BY <1>1, <1>3, <2>3, ProductOrder
<1>6. /\ k \in Nat \ {0} /\ lcmt <= t /\ t < SimStep * (k + 1)
      /\ SimStep * (k - 1) <= t
      /\ k = cSim \/ (k > cSim /\ t = SimStep * k)
  BY DEF PassOf
<1>7. SimStep * k \in Int /\ SimStep * (k + 1) \in Int /\ SimStep * (k - 1) \in Int
  BY <1>1, <1>6, ProductOrder
<1>8. CASE t < SimStep * k
  <2>1. k = cSim
    BY <1>6, <1>7, <1>8
  <2>2. t < LcmStep /\ lcmt' = t /\ cSim' = cSim
    BY <1>1, <1>4, <1>5, <1>7, <1>8, <2>1
  <2> QED  BY <1>1, <1>6, <1>7, <1>8, <2>1, <2>2
<1>9. CASE t >= SimStep * k /\ k < q
  <2>1. SimStep * (k + 1) <= LcmStep
    BY <1>1, <1>3, <1>6, <1>9, ProductOrder
  <2>2. t < LcmStep /\ lcmt' = t /\ cSim' = k + 1
    BY <1>1, <1>3, <1>4, <1>6, <1>7, <1>9, <2>1
  <2>3. k + 1 - 1 = k
    BY <1>6
  <2> QED  BY <1>1, <1>3, <1>6, <1>7, <1>9, <2>2, <2>3 DEF q
<1>10. CASE t >= SimStep * k /\ k >= q
  <2>1. SimStep * k >= LcmStep
    BY <1>1, <1>3, <1>6, <1>10, ProductOrder
  <2>2. t >= LcmStep /\ lcmt' = 0 /\ cSim' = 1
    BY <1>1, <1>3, <1>4, <1>7, <1>10, <2>1
  <2>3. k = cSim => LcmStep = SimStep * k
    BY <1>1, <1>3, <1>5, <1>10
  <2> QED  BY <1>1, <1>7, <1>10, <2>2, <2>3 DEF q
<1> QED  BY <1>1, <1>3, <1>6, <1>7, <1>8, <1>9, <1>10

\* Both timers take passes, and the passes of both preserve the invariant.
LEMMA PassKeepsInv ==
    ASSUME TimersInv, NEW t \in Nat, NEW k \in Nat, PassOf(t, k), Pass(t, k)
    PROVE  TimersInv'
<1> USE TimersAssumption
<1>0. /\ lcmt \in Nat /\ lcmt < LcmStep /\ cnt \in [DOMAIN Steps -> Nat \ {0}]
      /\ cSynch \in Nat \ {0} /\ cSee \in Nat \ {0} /\ LcmStep \in Nat \ {0}
      /\ SimStep \in Nat \ {0} /\ Delta \in Nat \ {0} /\ SynchOffset \in 1 .. SimStep - 1
      /\ Delta <= SimStep
  BY DEF TimersInv, TimersTypeOK
<1>1. /\ cSim' \in Nat \ {0} /\ lcmt' \in Nat /\ lcmt' < LcmStep
      /\ SimStep * (cSim' - 1) <= lcmt' /\ lcmt' < SimStep * cSim'
  BY SimPass
<1>2. lcmt' = (IF t >= LcmStep THEN 0 ELSE t) /\ sync' = sync /\ lcmt <= t
  BY DEF Pass, PassOf
<1>3. ASSUME NEW x \in DOMAIN Steps
      PROVE  /\ cnt'[x] \in Nat \ {0}
             /\ x \in Streams => Steps[x] * (cnt'[x] - 1) <= lcmt' /\ lcmt' < Steps[x] * cnt'[x]
  <2>1. cnt'[x] = IF x \in Streams /\ t >= Steps[x] * cnt[x]
                  THEN Counted(Steps[x], t) ELSE cnt[x]
    BY DEF Pass
  <2>2. Steps[x] \in Nat \ {0} /\ LcmStep % Steps[x] = 0 /\ cnt[x] \in Nat \ {0}
    BY <1>0
  <2>3. CASE x \notin Streams
    BY <2>1, <2>2, <2>3
  <2>4. CASE x \in Streams
    <3>1. Steps[x] * (cnt[x] - 1) <= lcmt /\ lcmt < Steps[x] * cnt[x]
      BY <2>4 DEF TimersInv, StreamsInStep
    <3> DEFINE d == IF t >= Steps[x] * cnt[x] THEN Counted(Steps[x], t) ELSE cnt[x]
               m == IF t >= LcmStep THEN 0 ELSE t
    <3>2. d \in Nat \ {0} /\ Steps[x] * (d - 1) <= m /\ m < Steps[x] * d
      BY <1>0, <1>2, <2>2, <3>1, StreamPass
    <3>3. cnt'[x] = d /\ lcmt' = m
      BY <1>2, <2>1, <2>4
    <3> QED  BY <3>2, <3>3
  <2> QED  BY <2>3, <2>4
<1>4. cnt' \in [DOMAIN Steps -> Nat \ {0}]
  <2>1. cnt' = [x \in DOMAIN Steps |-> cnt'[x]]
    BY DEF Pass
  <2> QED  BY <1>3, <2>1
<1>5. StreamsInStep'
  <2>1. Streams' = Streams /\ Streams \subseteq DOMAIN Steps
    BY <1>2 DEF Streams
  <2> QED  BY <1>1, <1>3, <2>1 DEF StreamsInStep
<1>6. TimersTypeOK'
  <2>1. /\ cSynch' = IF t >= LcmStep THEN 1
                     ELSE IF sync /\ t >= SimStep * (cSynch - 1) + SynchOffset
                     THEN cSynch + 1 ELSE cSynch
        /\ cSee' = 1 \/ cSee' = cSee + 1 \/ cSee' = cSee
    BY DEF Pass
  <2>2. cSynch' \in Nat \ {0} /\ cSee' \in Nat \ {0}
    BY <1>0, <2>1
  <2>3. sync' \in BOOLEAN /\ sentSee' \in BOOLEAN /\ skipped' \in BOOLEAN
    BY DEF Pass, TimersInv, TimersTypeOK
  <2> QED  BY <1>1, <1>4, <2>2, <2>3 DEF TimersTypeOK
<1>7. ThinkInStep'
  <2> SUFFICES ASSUME sync
               PROVE  /\ lcmt' < SimStep * (cSynch' - 1) + SynchOffset
                      /\ SimStep * (cSynch' - 2) + SynchOffset <= lcmt'
    BY <1>2 DEF ThinkInStep
  <2>1. /\ lcmt < SimStep * (cSynch - 1) + SynchOffset
        /\ SimStep * (cSynch - 2) + SynchOffset <= lcmt
    BY DEF TimersInv, ThinkInStep
  <2>2. t = lcmt + Delta
    BY DEF PassOf
  <2>3. cSynch' = IF t >= LcmStep THEN 1
                  ELSE IF t >= SimStep * (cSynch - 1) + SynchOffset THEN cSynch + 1
                  ELSE cSynch
    BY DEF Pass
  <2>4. /\ SimStep * (cSynch - 1) = SimStep * cSynch - SimStep
        /\ SimStep * (cSynch - 2) = SimStep * cSynch - 2 * SimStep
        /\ SimStep * cSynch \in Int
    BY <1>0
  <2>5. CASE t >= LcmStep
    BY <1>0, <1>2, <2>3, <2>5
  <2>6. CASE t < LcmStep /\ t >= SimStep * (cSynch - 1) + SynchOffset
    <3>1. cSynch' - 1 = cSynch /\ cSynch' - 2 = cSynch - 1 /\ lcmt' = t
      BY <1>0, <1>2, <2>3, <2>6
    <3> QED  BY <1>0, <2>1, <2>2, <2>4, <2>6, <3>1
  <2>7. CASE t < LcmStep /\ t < SimStep * (cSynch - 1) + SynchOffset
    <3>1. cSynch' = cSynch /\ lcmt' = t
      BY <1>0, <1>2, <2>3, <2>4, <2>7
    <3> QED  BY <1>0, <2>1, <2>2, <2>4, <2>7, <3>1
  <2> QED  BY <1>0, <2>4, <2>5, <2>6, <2>7
<1>8. OnGrid'
  <2> SUFFICES ASSUME sync PROVE \E n \in Nat : lcmt' = Delta * n
    BY <1>2 DEF OnGrid
  <2>1. PICK n \in Nat : lcmt = Delta * n
    BY DEF TimersInv, OnGrid
  <2>2. t = Delta * (n + 1)
    BY <1>0, <2>1 DEF PassOf
  <2>3. 0 = Delta * 0 /\ n + 1 \in Nat
    BY <1>0
  <2> QED  BY <1>2, <2>2, <2>3
<1> QED  BY <1>5, <1>6, <1>7, <1>8 DEF TimersInv

\* Every step of the timers is a pass or leaves the counters alone.
LEMMA TimersSteps ==
    ASSUME TimersInv, [TimersNext]_tvars
    PROVE  \/ \E t, k \in Nat : PassOf(t, k) /\ Pass(t, k)
           \/ UNCHANGED tvars
  BY StandardIsPass, SyncIsPass DEF TimersNext

\* The invariant of the counters of both timers.
LEMMA TimersInvHolds == TimersSpec => []TimersInv
<1>1. TimersInit => TimersInv
  <2> SUFFICES ASSUME TimersInit PROVE TimersInv
    OBVIOUS
  <2> USE TimersAssumption
  <2>1. TimersTypeOK
    <3>1. cnt \in [DOMAIN Steps -> Nat \ {0}]
      BY DEF TimersInit
    <3>2. lcmt \in Nat /\ lcmt < LcmStep
      BY DEF TimersInit
    <3> QED  BY <3>1, <3>2 DEF TimersInit, TimersTypeOK
  <2>2. StreamsInStep
    <3>1. cSim = 1 /\ lcmt = 0 /\ \A x \in DOMAIN Steps : cnt[x] = 1
      BY DEF TimersInit
    <3>2. Streams \subseteq DOMAIN Steps
      BY DEF Streams
    <3> QED  BY <3>1, <3>2 DEF StreamsInStep
  <2>3. ThinkInStep
    BY DEF TimersInit, ThinkInStep
  <2>4. OnGrid
    <3>1. lcmt = Delta * 0
      BY DEF TimersInit
    <3> QED  BY <3>1 DEF OnGrid
  <2> QED  BY <2>1, <2>2, <2>3, <2>4 DEF TimersInv
<1>2. TimersInv /\ [TimersNext]_tvars => TimersInv'
  <2> SUFFICES ASSUME TimersInv, [TimersNext]_tvars PROVE TimersInv'
    OBVIOUS
  <2>1. CASE UNCHANGED tvars
    BY <2>1 DEF tvars, TimersInv, TimersTypeOK, StreamsInStep, Streams, ThinkInStep, OnGrid
  <2> QED  BY <2>1, TimersSteps, PassKeepsInv
<1> QED  BY <1>1, <1>2, PTL DEF TimersSpec

\* For all steps and all delays of single passes, the counters of the standard
\* and of the synchronous timer are those of the next multiples, and the clients
\* are asked to think once in every simulator step.
THEOREM StreamsInStepHolds == TimersSpec => [](StreamsInStep /\ ThinkInStep)
<1>1. TimersInv => StreamsInStep /\ ThinkInStep
  BY DEF TimersInv
<1> QED  BY <1>1, TimersInvHolds, PTL

\* One pass, as the synchronous see messages count it.
LEMMA SeePass ==
    ASSUME SeeFits, TimersInv, SeeCounted,
           NEW t \in Nat, NEW k \in Nat, PassOf(t, k), Pass(t, k)
    PROVE  SeeCounted'
<1> SUFFICES ASSUME ~ skipped', SeeOffset > 0
             PROVE  /\ cSee' = cSim' + (IF sentSee' THEN 1 ELSE 0)
                    /\ sentSee' <=> lcmt' >= SimStep * (cSim' - 1) + SeeOffset
  BY DEF SeeCounted
<1> USE TimersAssumption
<1>0. /\ lcmt \in Nat /\ lcmt < LcmStep /\ cSim \in Nat \ {0} /\ cSee \in Nat \ {0}
      /\ SimStep \in Nat \ {0} /\ SeeOffset \in 1 .. SimStep - 1 /\ LcmStep \in Nat \ {0}
      /\ Delta \in Nat \ {0} /\ sentSee \in BOOLEAN /\ k \in Nat \ {0}
  BY DEF TimersInv, TimersTypeOK, PassOf
<1> DEFINE due == t >= SimStep * k
           see == (~ sentSee \/ due) /\ t >= SimStep * (cSee - 1) + SeeOffset
<1>1. /\ cSee' = IF t >= LcmStep THEN 1 ELSE IF see THEN cSee + 1 ELSE cSee
      /\ sentSee' <=> see \/ (sentSee /\ ~ due)
      /\ skipped' <=> skipped \/ (due /\ (~ sentSee \/ k > cSim))
  BY DEF Pass
<1>2. ~ skipped /\ (due => sentSee /\ ~ (k > cSim))
  BY <1>1
<1>3. k = cSim
  <2>1. k = cSim \/ (k > cSim /\ t = SimStep * k)
    BY DEF PassOf
  <2>2. k > cSim => due
    BY <1>0, <2>1
  <2> QED  BY <1>2, <2>1, <2>2
<1>4. /\ cSee = cSim + (IF sentSee THEN 1 ELSE 0)
      /\ sentSee <=> lcmt >= SimStep * (cSim - 1) + SeeOffset
  BY <1>0, <1>2 DEF SeeCounted
<1>5. /\ SimStep * cSim \in Int /\ SimStep * (cSim - 1) = SimStep * cSim - SimStep
  BY <1>0, ProductOrder
<1>6. lcmt <= t /\ (~ sync => t < SimStep * k \/ t = SimStep * k)
      /\ (sync => t = lcmt + Delta)
  BY DEF PassOf
<1>7. CASE ~ due
  <2>1. cSim' = cSim /\ lcmt' = t /\ t < LcmStep
    BY <1>0, <1>3, <1>5, <1>7, SimPass
  <2>2. CASE sentSee
    <3>0. ~ see
      BY <1>7, <2>2
    <3>1. sentSee' /\ cSee' = cSee
      BY <1>0, <1>1, <1>7, <2>1, <2>2, <3>0
    <3> QED  BY <1>0, <1>4, <1>5, <1>6, <2>1, <2>2, <3>1
  <2>3. CASE ~ sentSee
    <3>1. see <=> t >= SimStep * (cSim - 1) + SeeOffset
      BY <1>0, <1>4, <2>3
    <3> HIDE DEF see
    <3>2. (sentSee' <=> see) /\ cSee' = IF see THEN cSee + 1 ELSE cSee
      BY <1>0, <1>1, <2>1, <2>3
    <3> QED  BY <1>0, <1>4, <2>1, <2>3, <3>1, <3>2
  <2> QED  BY <1>0, <2>2, <2>3
<1>8. CASE due
  <2>1. sentSee /\ cSee - 1 = cSim
    BY <1>0, <1>2, <1>4, <1>8
  <2>2. see <=> t >= SimStep * cSim + SeeOffset
    BY <1>8, <2>1
  <2>3. sentSee' <=> see
    BY <1>1, <1>8
  <2>4. CASE t < LcmStep
    <3>1. cSim' = cSim + 1 /\ lcmt' = t
      BY <1>0, <1>3, <1>5, <1>8, <2>4, SimPass
    <3>2. cSee' = IF see THEN cSee + 1 ELSE cSee
      BY <1>0, <1>1, <2>4
    <3>3. cSim' - 1 = cSim
      BY <1>0, <3>1
    <3> QED  BY <1>0, <2>1, <2>2, <2>3, <3>1, <3>2, <3>3
  <2>5. CASE t >= LcmStep
    <3>1. cSim' = 1 /\ lcmt' = 0 /\ LcmStep = SimStep * cSim
      BY <1>0, <1>3, <1>5, <1>8, <2>5, SimPass
    <3>2. cSee' = 1
      BY <1>1, <2>5
    <3>3. t < LcmStep + SeeOffset
      <4>1. CASE ~ sync
        BY <1>0, <1>3, <1>6, <2>5, <3>1, <4>1
      <4>2. CASE sync /\ Delta <= SeeOffset
        BY <1>0, <1>6, <4>2
      <4>3. CASE sync /\ LcmStep % Delta = 0
        <5>1. PICK n \in Nat : lcmt = Delta * n
          BY <4>3 DEF TimersInv, OnGrid
        <5>2. LcmStep \div Delta \in Nat \ {0} /\ LcmStep = Delta * (LcmStep \div Delta)
          BY <1>0, <4>3, Divides
        <5> DEFINE m == LcmStep \div Delta
        <5> HIDE DEF m
        <5>3. m \in Nat \ {0} /\ LcmStep = Delta * m
          BY <5>2 DEF m
        <5>4. n + 1 <= m
          BY <1>0, <5>1, <5>3, ProductOrder
        <5>5. Delta * (n + 1) <= LcmStep
          BY <1>0, <5>3, <5>4, ProductOrder
        <5>6. t = Delta * (n + 1)
          BY <1>0, <1>6, <4>3, <5>1, ProductOrder
        <5> QED  BY <1>0, <5>5, <5>6
      <4> QED  BY <4>1, <4>2, <4>3 DEF SeeFits
    <3>4. ~ see
      BY <1>0, <2>2, <3>1, <3>3
    <3> QED  BY <1>0, <2>3, <3>1, <3>2, <3>4
  <2> QED  BY <1>0, <2>4, <2>5
<1> QED  BY <1>7, <1>8

\* With offsets at which a round of the synchronous timer cannot run into the
\* see of the next one, all counters of both timers stay in step, the one of the
\* synchronous see included.
THEOREM CountersInStepHolds ==
    ASSUME SeeFits
    PROVE  TimersSpec => []CountersInStep
<1>1. TimersInit => SeeCounted
  BY TimersAssumption DEF TimersInit, SeeCounted
<1>2. TimersInv /\ SeeCounted /\ [TimersNext]_tvars => SeeCounted'
  <2> SUFFICES ASSUME TimersInv, SeeCounted, [TimersNext]_tvars PROVE SeeCounted'
    OBVIOUS
  <2>1. CASE UNCHANGED tvars
    BY <2>1 DEF tvars, SeeCounted
  <2> QED  BY <2>1, TimersSteps, SeePass, SeeFits
<1>3. TimersInv /\ SeeCounted => CountersInStep
  <2> SUFFICES ASSUME TimersInv, SeeCounted PROVE CountersInStep
    OBVIOUS
  <2>1. /\ SimStep * (cSim - 1) <= lcmt /\ lcmt < SimStep * cSim
        /\ lcmt \in Nat /\ cSim \in Nat \ {0} /\ SimStep \in Nat \ {0}
        /\ SeeOffset \in 0 .. SimStep - 1
    BY TimersAssumption DEF TimersInv, TimersTypeOK, StreamsInStep
  <2>2. lcmt % SimStep = lcmt - SimStep * (cSim - 1)
    <3> DEFINE r == lcmt - SimStep * (cSim - 1)
    <3>1. lcmt = SimStep * (cSim - 1) + r /\ r \in 0 .. SimStep - 1 /\ cSim - 1 \in Int
      BY <2>1, ProductOrder
    <3> HIDE DEF r
    <3>2. lcmt % SimStep = r
      BY <2>1, <3>1, RestIsUnique
    <3> QED  BY <3>2 DEF r
  <2>3. SeeInStep
    BY <2>1, <2>2 DEF SeeCounted, SeeInStep
  <2> QED  BY <2>3 DEF TimersInv, CountersInStep
<1> QED  BY <1>1, <1>2, <1>3, TimersInvHolds, PTL DEF TimersSpec

------------------------------------------------------------------------------
(* Think.                                                                   *)

\* No client has answered more than it was asked.
ThinkTypeOK ==
    /\ on \subseteq Minds /\ waited \in Int /\ waited >= -1
    /\ queue \in [Minds -> Nat]
    /\ asked \in [Minds -> 0 .. MaxQueue] /\ given \in [Minds -> 0 .. MaxQueue]
    /\ \A m \in Minds : queue[m] <= asked[m]

\* A player behind by more than the cycles given up is behind by this cycle's
\* question only, is waited for, and has not been read yet.
LagInCycle ==
    \A m \in on \cap Workers :
        \/ asked[m] <= given[m]
        \/ waited >= 0 /\ m \in wait /\ m \notin flag /\ asked[m] <= given[m] + 1

ThinkInv == ThinkTypeOK /\ LagInCycle

\* The questions that are open after a pass of the loop: none that were read.
LEMMA ReceiveTypes ==
    ASSUME ThinkTypeOK, Receive
    PROVE  /\ ThinkTypeOK'
           /\ \A m \in on : asked'[m] = asked[m] - queue[m]
           /\ \A m \in on : given[m] <= given'[m]
           /\ waited + 1 > MaxWait =>
                 \A m \in on : given'[m] = given[m] + 1 \/ given'[m] = MaxQueue
<1> USE ThinkAssumption DEF ThinkTypeOK
<1>1. waited' \in Int /\ waited' >= -1 /\ on' = on
  BY DEF Receive
<1>2. /\ queue' = [m \in Minds |-> IF m \in on THEN 0 ELSE queue[m]]
      /\ asked' = [m \in Minds |-> IF m \in on THEN asked[m] - queue[m] ELSE asked[m]]
      /\ given' = [m \in Minds |-> IF waited + 1 > MaxWait /\ given[m] < MaxQueue
                                   THEN given[m] + 1 ELSE given[m]]
  BY DEF Receive
<1>3. ASSUME NEW m \in Minds
      PROVE  /\ queue[m] \in Nat /\ asked[m] \in 0 .. MaxQueue /\ queue[m] <= asked[m]
             /\ given[m] \in 0 .. MaxQueue
  OBVIOUS
<1>4. queue' \in [Minds -> Nat]
  BY <1>2, <1>3
<1>5. asked' \in [Minds -> 0 .. MaxQueue]
  BY <1>2, <1>3
<1>6. given' \in [Minds -> 0 .. MaxQueue]
  BY <1>2, <1>3
<1>7. \A m \in Minds : queue'[m] <= asked'[m]
  BY <1>2, <1>3
<1>8. \A m \in on : asked'[m] = asked[m] - queue[m] /\ given[m] <= given'[m]
  BY <1>2, <1>3
<1>9. waited + 1 > MaxWait =>
          \A m \in on : given'[m] = given[m] + 1 \/ given'[m] = MaxQueue
  BY <1>2, <1>3
<1> QED  BY <1>1, <1>4, <1>5, <1>6, <1>7, <1>8, <1>9

\* However late the clients answer, come, go and switch their eye, no player
\* lags behind by more than the cycles that the server gave up since it came.
THEOREM LagIsMissedHolds == ThinkSpec => []LagIsMissed
<1> USE ThinkAssumption
<1>1. ThinkInit => ThinkInv
  BY DEF ThinkInit, ThinkInv, ThinkTypeOK, LagInCycle
<1>2. ThinkInv /\ [ThinkNext]_kvars => ThinkInv'
  <2> SUFFICES ASSUME ThinkTypeOK, LagInCycle, [ThinkNext]_kvars
               PROVE  ThinkTypeOK' /\ LagInCycle'
    BY DEF ThinkInv
  <2>1. ASSUME NEW m \in Minds, Comes(m) PROVE ThinkTypeOK' /\ LagInCycle'
    <3>1. ThinkTypeOK'
      BY <2>1 DEF Comes, ThinkTypeOK
    <3>2. asked'[m] = 0 /\ given'[m] = 0
      BY <2>1 DEF Comes, ThinkTypeOK
    <3>3. ASSUME NEW n \in on \cap Workers, n # m
          PROVE  asked'[n] = asked[n] /\ given'[n] = given[n]
      BY <2>1, <3>3 DEF Comes, ThinkTypeOK
    <3> QED  BY <2>1, <3>1, <3>2, <3>3 DEF Comes, LagInCycle
  <2>2. ASSUME NEW m \in Minds, Goes(m) PROVE ThinkTypeOK' /\ LagInCycle'
    BY <2>2 DEF Goes, ThinkTypeOK, LagInCycle
  <2>3. ASSUME NEW m \in Minds, Eye(m) PROVE ThinkTypeOK' /\ LagInCycle'
    BY <2>3 DEF Eye, ThinkTypeOK, LagInCycle
  <2>4. ASSUME NEW m \in Minds, Answers(m) PROVE ThinkTypeOK' /\ LagInCycle'
    BY <2>4 DEF Answers, ThinkTypeOK, LagInCycle
  <2>5. ASSUME NEW kick \in BOOLEAN, ThinkStep(kick) PROVE ThinkTypeOK' /\ LagInCycle'
    <3>1. /\ asked' = [m \in Minds |-> IF m \in wait' \cap on /\ asked[m] < MaxQueue
                                       THEN asked[m] + 1 ELSE asked[m]]
          /\ waited = -1 /\ waited' = 0 /\ on' = on /\ queue' = queue /\ given' = given
          /\ wait' = (on \cap Workers) \cup eye /\ flag' = {}
      BY <2>5 DEF ThinkStep, ResetFlags
    <3>2. ASSUME NEW m \in Minds
          PROVE  asked[m] \in 0 .. MaxQueue /\ queue[m] \in Nat /\ queue[m] <= asked[m]
                 /\ given[m] \in 0 .. MaxQueue
      BY DEF ThinkTypeOK
    <3>3. ThinkTypeOK'
      BY <3>1, <3>2 DEF ThinkTypeOK
    <3>4. ASSUME NEW m \in on \cap Workers
          PROVE  m \in wait' /\ asked'[m] <= given'[m] + 1
      <4>1. m \in Minds /\ asked[m] <= given[m]
        BY <3>1 DEF LagInCycle, Minds
      <4> QED  BY <3>1, <3>2, <4>1
    <3> QED  BY <3>1, <3>3, <3>4 DEF LagInCycle
  <2>6. CASE Receive
    <3>1. /\ ThinkTypeOK'
          /\ \A m \in on : asked'[m] = asked[m] - queue[m] /\ given[m] <= given'[m]
          /\ waited + 1 > MaxWait =>
                \A m \in on : given'[m] = given[m] + 1 \/ given'[m] = MaxQueue
      BY <2>6, ReceiveTypes
    <3>2. ASSUME NEW m \in on \cap Workers
          PROVE  \/ asked'[m] <= given'[m]
                 \/ waited' >= 0 /\ m \in wait' /\ m \notin flag' /\ asked'[m] <= given'[m] + 1
      <4>0. /\ m \in Minds /\ queue[m] \in Nat /\ asked[m] \in Nat /\ given[m] \in Nat
            /\ asked[m] <= MaxQueue /\ asked'[m] \in Nat /\ given'[m] \in Nat
            /\ MaxQueue \in Nat /\ waited \in Int
        BY <3>1 DEF ThinkTypeOK, Minds
      <4>1. asked'[m] = asked[m] - queue[m] /\ given[m] <= given'[m]
        BY <3>1
      <4>2. CASE asked[m] <= given[m] \/ queue[m] > 0
        BY <4>0, <4>1, <4>2 DEF LagInCycle
      <4>3. CASE asked[m] > given[m] /\ queue[m] = 0
        <5>1. m \in wait /\ m \notin flag /\ asked[m] <= given[m] + 1
          BY <4>0, <4>3 DEF LagInCycle
        <5>2. CASE waited + 1 > MaxWait
          BY <3>1, <4>0, <4>1, <4>3, <5>1, <5>2
        <5>3. CASE ~ (waited + 1 > MaxWait)
          <6> DEFINE read == {n \in on : queue[n] > 0}
          <6>1. m \notin read /\ m \in Unanswered(read)
            BY <4>0, <4>3, <5>1 DEF Unanswered
          <6>2. waited' = waited + 1 /\ waited >= 0 /\ flag' = flag \cup read /\ wait' = wait
            BY <2>6, <5>3, <6>1 DEF Receive
          <6> QED  BY <4>0, <4>1, <5>1, <6>1, <6>2
        <5> QED  BY <5>2, <5>3
      <4> QED  BY <4>0, <4>2, <4>3
    <3>3. on' = on
      BY <2>6 DEF Receive
    <3> QED  BY <3>1, <3>2, <3>3 DEF LagInCycle
  <2>7. CASE UNCHANGED kvars
    BY <2>7 DEF kvars, ThinkTypeOK, LagInCycle
  <2> QED  BY <2>1, <2>2, <2>3, <2>4, <2>5, <2>6, <2>7 DEF ThinkNext
<1>3. ThinkInv => LagIsMissed
  BY DEF ThinkInv, LagInCycle, LagIsMissed
<1> QED  BY <1>1, <1>2, <1>3, PTL DEF ThinkSpec

------------------------------------------------------------------------------
(* Shutdown.                                                                *)

ShutdownTypeOK ==
    /\ pc \in {"loop", "teams", "auto", "exit"}
    /\ fin \in [Runners -> {"no", "set", "kill", "save"}]
    /\ first \in BOOLEAN /\ alive \in BOOLEAN
    /\ child \in [Sides -> {"none", "runs", "killed"}] /\ lateChild \subseteq Sides
    /\ score \in Nat /\ results \in Seq([Savers -> Nat]) /\ signals \in Nat

MainCall == IF fin["main"] = "no" THEN 0 ELSE 1
HandlerCall == IF fin["handler"] = "no" THEN 0 ELSE 1

\* Calls of finalize that have passed its test, ended or not.
Calls == Len(results) + MainCall + HandlerCall

\* Before the flag is cleared, nobody is past it; afterwards one call has passed
\* the test, or two if a signal came in between.  Without a signal it is one.
PastTest ==
    /\ first => Len(results) = 0 /\ \A r \in Runners : fin[r] \in {"no", "set"}
    /\ ~ first => Calls \in 1 .. 2
    /\ signals = 0 => fin["handler"] = "no" /\ Calls \in 0 .. 1

\* The program exits after a call of finalize, and results that are saved stop
\* the match.
EndOfMatch ==
    /\ pc = "exit" => ~ first \/ fin["main"] # "no"
    /\ fin["main"] # "no" => pc \in {"loop", "exit"}
    /\ Len(results) > 0 => ~ alive
    /\ signals = 0 /\ ~ first => pc \in {"loop", "exit"} /\ (fin["main"] # "no" \/ ~ alive)
    /\ signals = 0 /\ Len(results) > 0 => results[1] = [x \in Savers |-> score]

\* Once killTeams has run, only late children are alive.
TeamsKilled ==
    /\ Len(results) > 0 \/ (\E r \in Runners : fin[r] = "save") =>
          {s \in Sides : child[s] = "runs"} \subseteq lateChild
    /\ signals = 0 => lateChild = {}

ShutdownInv == ShutdownTypeOK /\ PastTest /\ EndOfMatch /\ TeamsKilled

\* A call of finalize by a runner that runs nothing yet.
LEMMA FinalizeCalled ==
    ASSUME ShutdownInv, NEW r \in Runners, Finalize(r),
           fin["handler"] = "no", fin["main"] = "no" \/ r = "handler",
           fin["main"] = "no" \/ signals' > 0, signals' \in Nat,
           r = "handler" => signals' > 0, signals' = 0 => signals = 0,
           UNCHANGED <<first, alive, child, lateChild, score, results>>
    PROVE  /\ ShutdownTypeOK' \/ pc' \notin {"loop", "teams", "auto", "exit"}
           /\ PastTest' /\ TeamsKilled'
           /\ fin'[r] = (IF first THEN "set" ELSE "no")
           /\ r = "handler" => fin'["main"] = fin["main"]
           /\ r = "main" => fin'["handler"] = "no"
<1> USE DEF ShutdownInv, ShutdownTypeOK, Runners
<1>1. fin' = [fin EXCEPT ![r] = IF first THEN "set" ELSE "no"]
  BY DEF Finalize, Test
<1>2. /\ fin'[r] = (IF first THEN "set" ELSE "no")
      /\ \A x \in Runners : x # r => fin'[x] = fin[x]
      /\ fin' \in [Runners -> {"no", "set", "kill", "save"}]
  BY <1>1
<1>3. ShutdownTypeOK' \/ pc' \notin {"loop", "teams", "auto", "exit"}
  BY <1>2
<1>4. Len(results) \in Nat /\ Len(results') = Len(results)
  OBVIOUS
<1>5. PastTest'
  <2>1. CASE r = "main"
    <3>1. /\ fin["main"] = "no" /\ fin["handler"] = "no" /\ fin'["handler"] = "no"
          /\ fin'["main"] = (IF first THEN "set" ELSE "no")
      BY <1>2, <2>1
    <3>2. Calls' = Len(results) + (IF first THEN 1 ELSE 0) /\ Calls = Len(results)
      BY <1>4, <3>1 DEF Calls, MainCall, HandlerCall
    <3>3. PastTest /\ first' = first /\ signals \in Nat
      OBVIOUS
    <3> QED  BY <1>4, <3>1, <3>2, <3>3 DEF PastTest
  <2>2. CASE r = "handler"
    <3>1. /\ fin'["main"] = fin["main"] /\ fin["handler"] = "no"
          /\ fin'["handler"] = (IF first THEN "set" ELSE "no")
      BY <1>2, <2>2
    <3>2. /\ MainCall' = MainCall /\ MainCall \in 0..1
          /\ HandlerCall' = (IF first THEN 1 ELSE 0) /\ HandlerCall = 0
      BY <3>1 DEF MainCall, HandlerCall
    <3>3. ~ first => Calls' = Calls
      BY <1>4, <3>2 DEF Calls
    <3>4. PastTest /\ first' = first /\ signals' # 0
      BY <2>2
    <3> QED  BY <1>4, <3>1, <3>3, <3>4 DEF PastTest
  <2> QED  BY <2>1, <2>2
<1>6. TeamsKilled'
  BY <1>2, <1>4 DEF TeamsKilled
<1> QED  BY <1>2, <1>3, <1>5, <1>6

\* The steps of finalize.
LEMMA FinalizeSteps ==
    ASSUME ShutdownInv, NEW r \in Runners, FinalizeStep(r)
    PROVE  ShutdownInv'
<1> USE DEF ShutdownTypeOK, Runners
<1>0. ShutdownTypeOK /\ PastTest /\ EndOfMatch /\ TeamsKilled
  BY DEF ShutdownInv
<1>1. Len(results) \in Nat
  BY <1>0
<1>2. CASE SetFirst(r)
  <2>1. /\ fin[r] = "set" /\ fin'[r] = "kill" /\ \A x \in Runners : x # r => fin'[x] = fin[x]
        /\ fin' \in [Runners -> {"no", "set", "kill", "save"}] /\ ~ first'
        /\ UNCHANGED <<pc, alive, child, lateChild, score, results, signals>>
    BY <1>0, <1>2 DEF SetFirst
  <2>2. ShutdownTypeOK'
    BY <1>0, <1>2, <2>1 DEF SetFirst
  <2>3. Calls' = Calls /\ Calls \in 1..2
    <3>1. MainCall' = MainCall /\ HandlerCall' = HandlerCall /\ MainCall \in 0..1 /\ HandlerCall \in 0..1
      BY <2>1 DEF MainCall, HandlerCall
    <3>2. MainCall = 1 \/ HandlerCall = 1
      BY <2>1 DEF MainCall, HandlerCall
    <3>3. Len(results') = Len(results)
      BY <2>1
    <3> QED  BY <1>0, <1>1, <3>1, <3>2, <3>3 DEF Calls, PastTest
  <2>4. PastTest'
    BY <1>0, <2>1, <2>3 DEF PastTest
  <2>5. EndOfMatch'
    <3>1. signals = 0 => r = "main"
      BY <1>0, <2>1 DEF PastTest
    <3>2. fin'["main"] # "no" => fin["main"] # "no"
      BY <2>1
    <3>3. signals = 0 => fin'["main"] # "no" /\ pc \in {"loop", "exit"}
      BY <1>0, <2>1, <3>1 DEF EndOfMatch
    <3> QED  BY <1>0, <2>1, <3>2, <3>3 DEF EndOfMatch
  <2>6. TeamsKilled'
    BY <1>0, <2>1 DEF TeamsKilled
  <2> QED  BY <2>2, <2>4, <2>5, <2>6 DEF ShutdownInv
<1>3. CASE killTeams(r)
  <2>1. /\ fin[r] = "kill" /\ fin'[r] = "save" /\ \A x \in Runners : x # r => fin'[x] = fin[x]
        /\ fin' \in [Runners -> {"no", "set", "kill", "save"}]
        /\ UNCHANGED <<pc, first, alive, lateChild, score, results, signals>>
    BY <1>0, <1>3 DEF killTeams
  <2>2. /\ child' \in [Sides -> {"none", "runs", "killed"}]
        /\ \A s \in Sides : child'[s] # "runs"
    BY <1>0, <1>3 DEF killTeams
  <2>3. ShutdownTypeOK'
    BY <1>0, <2>1, <2>2
  <2>4. PastTest'
    BY <1>0, <1>1, <2>1 DEF PastTest, Calls, MainCall, HandlerCall
  <2>5. EndOfMatch'
    BY <1>0, <2>1 DEF EndOfMatch
  <2>6. TeamsKilled'
    BY <1>0, <2>1, <2>2 DEF TeamsKilled
  <2> QED  BY <2>3, <2>4, <2>5, <2>6 DEF ShutdownInv
<1>4. CASE saveResults(r)
  <2> DEFINE row == [x \in Savers |-> score]
  <2>1. /\ fin[r] = "save" /\ fin'[r] = "no" /\ \A x \in Runners : x # r => fin'[x] = fin[x]
        /\ fin' \in [Runners -> {"no", "set", "kill", "save"}]
        /\ results' = Append(results, row) /\ ~ alive' /\ alive' \in BOOLEAN
        /\ UNCHANGED <<pc, first, child, lateChild, score, signals>>
    BY <1>0, <1>4 DEF saveResults
  <2>2. row \in [Savers -> Nat]
    BY <1>0
  <2> HIDE DEF row
  <2>3. /\ results' \in Seq([Savers -> Nat]) /\ Len(results') = Len(results) + 1
        /\ results'[Len(results) + 1] = row
    BY <1>0, <2>1, <2>2
  <2>4. ShutdownTypeOK'
    BY <1>0, <2>1, <2>3
  <2>5. ~ first /\ Calls' = Calls
    <3>1. Len(results') = Len(results) + 1
      BY <2>3
    <3>2. ~ first
      BY <1>0, <2>1 DEF PastTest
    <3>3. CASE r = "main"
      <4>1. MainCall = 1 /\ MainCall' = 0 /\ HandlerCall' = HandlerCall /\ HandlerCall \in 0..1
        BY <2>1, <3>3 DEF MainCall, HandlerCall
      <4> QED  BY <1>1, <3>1, <3>2, <4>1 DEF Calls
    <3>4. CASE r = "handler"
      <4>1. HandlerCall = 1 /\ HandlerCall' = 0 /\ MainCall' = MainCall /\ MainCall \in 0..1
        BY <2>1, <3>4 DEF MainCall, HandlerCall
      <4> QED  BY <1>1, <3>1, <3>2, <4>1 DEF Calls
    <3>5. Calls' = Calls
      BY <3>3, <3>4
    <3> QED  BY <3>2, <3>5
  <2>6. PastTest'
    BY <1>0, <2>1, <2>5 DEF PastTest
  <2>7. signals = 0 => Len(results) = 0
    BY <1>0, <1>1, <2>1 DEF PastTest, Calls, MainCall, HandlerCall
  <2>8. EndOfMatch'
    BY <1>0, <2>1, <2>3, <2>5, <2>7 DEF EndOfMatch, row
  <2>9. TeamsKilled'
    BY <1>0, <2>1 DEF TeamsKilled
  <2> QED  BY <2>4, <2>6, <2>8, <2>9 DEF ShutdownInv
<1> QED  BY <1>2, <1>3, <1>4 DEF FinalizeStep

\* Whatever the match and the team processes do, and whenever signals arrive:
\* an exit is orderly.
THEOREM ExitIsOrderlyHolds == ShutdownSpec => []ExitIsOrderly
<1> USE ShutdownAssumption
<1>1. ShutdownInit => ShutdownInv
  <2> SUFFICES ASSUME ShutdownInit PROVE ShutdownInv
    OBVIOUS
  <2>1. ShutdownTypeOK /\ Len(results) = 0
    BY DEF ShutdownInit, ShutdownTypeOK, Runners
  <2> QED  BY <2>1 DEF ShutdownInit, ShutdownInv, PastTest, EndOfMatch, TeamsKilled, Calls,
                       MainCall, HandlerCall, Runners
<1>2. ShutdownInv /\ [ShutdownNext]_svars => ShutdownInv'
  <2> SUFFICES ASSUME ShutdownInv, [ShutdownNext]_svars PROVE ShutdownInv'
    OBVIOUS
  <2>0. ShutdownTypeOK /\ PastTest /\ EndOfMatch /\ TeamsKilled /\ Len(results) \in Nat
    BY DEF ShutdownInv, ShutdownTypeOK
  <2> DEFINE SameCalls == UNCHANGED <<fin, first, results, signals>>
  <2>1. ASSUME SameCalls PROVE PastTest'
    BY <2>0, <2>1 DEF PastTest, Calls, MainCall, HandlerCall
  <2>2. ASSUME NEW goal \in {0, 1}, Step(goal) PROVE ShutdownInv'
    <3>1. ShutdownTypeOK'
      BY <2>0, <2>2 DEF Step, ShutdownTypeOK
    <3>2. alive /\ fin["main"] = "no" /\ fin["handler"] = "no"
      BY <2>2 DEF Step, InMain, MainRuns
    <3>3. EndOfMatch'
      BY <2>0, <2>2, <3>2 DEF Step, EndOfMatch
    <3> QED  BY <2>0, <2>1, <2>2, <3>1, <3>3 DEF Step, ShutdownInv, TeamsKilled
  <2>3. ASSUME NEW s \in Sides, NEW forks \in BOOLEAN, startTeams(s, forks)
        PROVE  ShutdownInv'
    <3>1. ShutdownTypeOK'
      BY <2>0, <2>3 DEF startTeams, ShutdownTypeOK
    <3>2. pc = "teams" /\ fin["main"] = "no" /\ fin["handler"] = "no"
      BY <2>3 DEF startTeams, InMain, MainRuns
    <3>3. (signals = 0 => first) /\ pc' \in {"teams", "auto"} /\ (alive' => alive)
      BY <2>0, <2>3, <3>2 DEF startTeams, EndOfMatch
    <3>4. EndOfMatch'
      BY <2>0, <2>3, <3>2, <3>3 DEF startTeams, EndOfMatch
    <3>5. \A x \in Sides : child'[x] = "runs" => child[x] = "runs" \/ x = s
      BY <2>0, <2>3 DEF startTeams, ShutdownTypeOK
    <3>6. TeamsKilled'
      <4>1. CASE first
        <5>1. Len(results) = 0 /\ \A r \in Runners : fin[r] # "save"
          BY <2>0, <4>1 DEF PastTest
        <5> QED  BY <2>0, <2>3, <4>1, <5>1 DEF startTeams, TeamsKilled
      <4>2. CASE ~ first
        BY <2>0, <2>3, <3>3, <3>5, <4>2 DEF startTeams, TeamsKilled
      <4> QED  BY <4>1, <4>2
    <3> QED  BY <2>1, <2>3, <3>1, <3>4, <3>6 DEF startTeams, ShutdownInv
  <2>4. CASE TeamsStarted \/ AutoGoesOn
    <3>1. /\ pc \in {"teams", "auto"} /\ pc' \in {"auto", "loop"} /\ fin["main"] = "no"
          /\ UNCHANGED <<fin, first, alive, child, lateChild, score, results, signals>>
      BY <2>4 DEF TeamsStarted, AutoGoesOn, InMain
    <3>2. ShutdownTypeOK'
      BY <2>0, <3>1 DEF ShutdownTypeOK
    <3>3. EndOfMatch'
      BY <2>0, <3>1 DEF EndOfMatch
    <3> QED  BY <2>0, <2>1, <3>1, <3>2, <3>3 DEF ShutdownInv, TeamsKilled
  <2>5. CASE AutoGameOver
    <3>1. /\ pc = "auto" /\ pc' = "loop" /\ Finalize("main") /\ fin["main"] = "no"
          /\ fin["handler"] = "no"
          /\ UNCHANGED <<first, alive, child, lateChild, score, results, signals>>
      BY <2>5 DEF AutoGameOver, InMain, MainRuns
    <3>2. signals \in Nat /\ "main" \in Runners
      BY <2>0 DEF ShutdownTypeOK, Runners
    <3>3. ShutdownTypeOK' /\ PastTest' /\ TeamsKilled'
      BY <3>1, <3>2, FinalizeCalled
    <3>4. EndOfMatch'
      BY <2>0, <3>1 DEF EndOfMatch
    <3> QED  BY <3>3, <3>4 DEF ShutdownInv
  <2>6. CASE Quit
    <3>1. /\ pc = "loop" /\ ~ alive /\ pc' = "exit" /\ Finalize("main") /\ fin["main"] = "no"
          /\ fin["handler"] = "no"
          /\ UNCHANGED <<first, alive, child, lateChild, score, results, signals>>
      BY <2>6 DEF Quit, InMain, MainRuns
    <3>2. signals \in Nat /\ "main" \in Runners
      BY <2>0 DEF ShutdownTypeOK, Runners
    <3>3. /\ ShutdownTypeOK' /\ PastTest' /\ TeamsKilled'
          /\ fin'["main"] = (IF first THEN "set" ELSE "no")
      BY <3>1, <3>2, FinalizeCalled
    <3>4. EndOfMatch'
      BY <2>0, <3>1, <3>3 DEF EndOfMatch
    <3> QED  BY <3>3, <3>4 DEF ShutdownInv
  <2>7. CASE Signal
    <3>1. /\ fin["handler"] = "no" /\ signals' = signals + 1 /\ Finalize("handler")
          /\ UNCHANGED <<pc, first, alive, child, lateChild, score, results>>
      BY <2>7 DEF Signal, MainRuns
    <3>2. signals \in Nat /\ signals' \in Nat /\ signals' > 0 /\ "handler" \in Runners
      BY <2>0, <3>1 DEF ShutdownTypeOK, Runners
    <3>3. /\ ShutdownTypeOK' /\ PastTest' /\ TeamsKilled' /\ fin'["main"] = fin["main"]
      <4>1. pc' \in {"loop", "teams", "auto", "exit"}
        BY <2>0, <3>1 DEF ShutdownTypeOK
      <4> QED  BY <3>1, <3>2, <4>1, FinalizeCalled
    <3>4. EndOfMatch'
      BY <2>0, <3>1, <3>2, <3>3 DEF EndOfMatch
    <3> QED  BY <3>3, <3>4 DEF ShutdownInv
  <2>8. ASSUME NEW r \in Runners, FinalizeStep(r) PROVE ShutdownInv'
    BY <2>8, FinalizeSteps
  <2>9. CASE UNCHANGED svars
    BY <2>0, <2>1, <2>9 DEF svars, ShutdownInv, ShutdownTypeOK, EndOfMatch, TeamsKilled
  <2> QED  BY <2>2, <2>3, <2>4, <2>5, <2>6, <2>7, <2>8, <2>9 DEF ShutdownNext
<1>3. ShutdownInv => ExitIsOrderly
  <2> SUFFICES ASSUME ShutdownInv, pc = "exit", fin = [r \in Runners |-> "no"]
               PROVE  /\ Len(results) \in 1 .. (IF signals = 0 THEN 1 ELSE 2)
                      /\ signals = 0 => results[1] = [x \in Savers |-> score]
                      /\ {s \in Sides : child[s] = "runs"} \subseteq lateChild
                      /\ signals = 0 => lateChild = {}
    BY DEF ExitIsOrderly
  <2>1. fin["main"] = "no" /\ fin["handler"] = "no" /\ Len(results) \in Nat
    BY DEF ShutdownInv, ShutdownTypeOK, Runners
  <2>2. Calls = Len(results) /\ ~ first
    BY <2>1 DEF Calls, MainCall, HandlerCall, ShutdownInv, EndOfMatch
  <2> QED  BY <2>1, <2>2 DEF ShutdownInv, PastTest, EndOfMatch, TeamsKilled
<1> QED  BY <1>1, <1>2, <1>3, PTL DEF ShutdownSpec
=============================================================================
