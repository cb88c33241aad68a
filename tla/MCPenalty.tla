----------------------------- MODULE MCPenalty -----------------------------
(* Shoot-outs of teams of two, two regular kicks and one extra kick a side: *)
(* everybody kicks twice and the takers' sets are cleared on the way.       *)
EXTENDS Penalty
=============================================================================
