---------------------------- MODULE MCMatchClock ----------------------------
(* The match clock on small matches: two halves of 3 cycles, two extra      *)
(* halves of 2 cycles.  The configurations choose the competition rules.    *)
EXTENDS MatchClock
=============================================================================
