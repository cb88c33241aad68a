------------------------------- MODULE Timers -------------------------------
(***************************************************************************)
(* The loops of StandardTimer::run and SyncTimer::run.  Every pass of the  *)
(* loop adds its duration to lcmt and serves the streams of messages whose *)
(* next multiple of the step is reached; the counters start anew after     *)
(* lcm_step.  The standard timer passes over simulator steps when a pass   *)
(* was slow; the synchronous one adds a constant and waits for its clients *)
(* in the middle of the step (module Think).                               *)
(*                                                                         *)
(* Durations are multiples of a unit of time.                              *)
(***************************************************************************)
EXTENDS Integers

CONSTANTS
    Delta,          \* TIMEDELTA
    SimStep,        \* server::simulator_step
    Steps,          \* the steps of the other streams, by their names
    LcmStep,        \* ServerParam::lcmStep
    SeeOffset,      \* server::synch_see_offset
    SynchOffset,    \* server::synch_offset
    Slowest         \* bound: the longest pass of the loop

\* lcm_step is the least common multiple of all the steps and offsets, and
\* send_step is a multiple of four.
ASSUME TimersAssumption ==
    /\ Delta \in Nat \ {0} /\ SimStep \in Nat \ {0} /\ LcmStep \in Nat \ {0}
    /\ Delta <= SimStep /\ LcmStep % SimStep = 0
    /\ DOMAIN Steps = {"recv", "sense", "visual", "coach"}
    /\ \A x \in DOMAIN Steps : Steps[x] \in Nat \ {0} /\ LcmStep % Steps[x] = 0
    /\ SeeOffset \in 0 .. SimStep - 1 /\ SynchOffset \in 1 .. SimStep - 1
    /\ Slowest \in Nat

VARIABLES
    sync,       \* server::synch_mode
    lcmt,       \* time since the last multiple of lcm_step
    cSim,       \* c_simt
    cnt,        \* c_rect, c_sbt, c_sent, c_svt
    cSynch,     \* c_synch, the counter of the (think) messages
    cSee,       \* c_synch_see
    sentSee,    \* sent_synch_see
    skipped     \* history: has a cycle ended without its synchronous see?

tvars == <<sync, lcmt, cSim, cnt, cSynch, cSee, sentSee, skipped>>

Streams == IF sync THEN {"sense", "visual", "coach"} ELSE DOMAIN Steps

TimersInit ==
    /\ sync \in BOOLEAN
    /\ lcmt = 0 /\ cSim = 1 /\ cnt = [x \in DOMAIN Steps |-> 1]
    /\ cSynch = 1 /\ cSee = 1 /\ sentSee = FALSE
    /\ skipped = FALSE

\* A counter after its message was sent at time t; it skips what was missed.
CountedPastEnd(step, t) ==
    IF LcmStep \div step < t \div step THEN 1 ELSE t \div step + 1
Counted(step, t) ==
    IF LcmStep \div step <= t \div step THEN 1 ELSE t \div step + 1

\* The counter of the simulator steps after a slow pass: the step that is due
\* is the last one whose time has come, and the clock is set back to it.
SlowSim(t) == IF t >= SimStep * cSim THEN t \div SimStep ELSE cSim

\* The tests of the loop's body for a pass that ends at time t with simulator
\* counter k; due: does this pass make a simulator step?
Pass(t, k) ==
    LET due == t >= SimStep * k
        see == (~ sentSee \/ due) /\ t >= SimStep * (cSee - 1) + SeeOffset
        think == sync /\ t >= SimStep * (cSynch - 1) + SynchOffset
        wrap == t >= LcmStep
    IN  /\ lcmt' = IF wrap THEN 0 ELSE t
        /\ cSim' = IF ~ due THEN k ELSE IF LcmStep \div SimStep <= k THEN 1 ELSE k + 1
        /\ cnt' = [x \in DOMAIN Steps |->
                   IF x \in Streams /\ t >= Steps[x] * cnt[x]
                   THEN Counted(Steps[x], t) ELSE cnt[x]]
        /\ cSynch' = IF wrap THEN 1 ELSE IF think THEN cSynch + 1 ELSE cSynch
        /\ cSee' = IF wrap THEN 1 ELSE IF see THEN cSee + 1 ELSE cSee
        /\ sentSee' = (see \/ (sentSee /\ ~ due))
        /\ skipped' = (skipped \/ (due /\ (~ sentSee \/ k > cSim)))
        /\ UNCHANGED sync

\* sleep_for returns after Delta, or the work of the last pass took longer.
StandardPass(elapsed) ==
    /\ ~ sync
    /\ LET t == lcmt + (IF elapsed > Delta THEN elapsed ELSE Delta)
           k == SlowSim(t)
       IN  Pass(IF t >= SimStep * cSim THEN SimStep * k ELSE t, k)

SyncPass == sync /\ Pass(lcmt + Delta, cSim)

TimersNext == SyncPass \/ \E e \in 0..Slowest : StandardPass(e)

TimersSpec == TimersInit /\ [][TimersNext]_tvars

------------------------------------------------------------------------------
(* Properties.                                                              *)

\* However slow single passes were, every counter names the next multiple of
\* its step: no message is sent twice for one multiple, no stream falls behind
\* and catches up with a burst, and all of them start anew together.
StreamsInStep ==
    /\ SimStep * (cSim - 1) <= lcmt /\ lcmt < SimStep * cSim
    /\ \A x \in Streams :
           Steps[x] * (cnt[x] - 1) <= lcmt /\ lcmt < Steps[x] * cnt[x]

\* The synchronous timer asks its clients to think once in every simulator step.
ThinkInStep ==
    sync => /\ lcmt < SimStep * (cSynch - 1) + SynchOffset
            /\ SimStep * (cSynch - 2) + SynchOffset <= lcmt

\* As long as no simulator step was passed over, the synchronous see of a step
\* has been sent exactly when its offset is reached.
SeeInStep ==
    ~ skipped /\ SeeOffset > 0 => (sentSee <=> lcmt % SimStep >= SeeOffset)

\* The counters of both timers: StreamsInStep, ThinkInStep and SeeInStep.
CountersInStep == StreamsInStep /\ ThinkInStep /\ SeeInStep
=============================================================================
