----------------------------- MODULE MCSetPlay -----------------------------
EXTENDS SetPlay

MCPlayers == {<<Left, 1>>, <<Left, 2>>, <<Right, 1>>}
MCGoalies == {<<Left, 1>>, <<Right, 1>>}
=============================================================================
