----------------------------- MODULE PlayModes -----------------------------
(***************************************************************************)
(* Sides and play modes (src/src/types.h), and the classifications of a    *)
(* play mode that Stadium, the referees and Player spell out as chains of  *)
(* comparisons.  A play mode PM_<Kind>_<Left|Right> is the record          *)
(* [kind |-> "<Kind>", side |-> Left or Right]; the modes without a side   *)
(* have the side Neutral.  The modes nothing in the server assigns         *)
(* (PM_PK_*, PM_FirstHalfOver, PM_Pause, PM_Human, the two unused fouls)   *)
(* are left out.                                                           *)
(***************************************************************************)

Left    == "l"
Right   == "r"
Neutral == "n"
Sides   == {Left, Right}

\* The code negates a Side to get the opponent's: (Side)( -side ).
Opp(s) == IF s = Left THEN Right ELSE IF s = Right THEN Left ELSE Neutral

PM(k, s) == [kind |-> k, side |-> s]

\* Modes in which play waits for the offence to be punished.
FaultKinds == {"OffSide", "Illegal_Defense", "Foul_Charge", "Foul_Push",
               "Back_Pass", "Free_Kick_Fault", "CatchFault"}

\* Modes in which one side restarts play (FreeKickRef::freeKick, goalKick).
FreeKickKinds == {"KickOff", "KickIn", "FreeKick", "CornerKick", "IndFreeKick"}
RestartKinds  == FreeKickKinds \cup {"GoalKick"}

PenaltyKinds == {"PenaltySetup", "PenaltyReady", "PenaltyTaken",
                 "PenaltyMiss", "PenaltyScore"}

NeutralKinds == {"BeforeKickOff", "TimeOver", "PlayOn", "Drop_Ball"}
SidedKinds   == {"AfterGoal"} \cup FaultKinds \cup RestartKinds \cup PenaltyKinds

PlayMode == [kind : NeutralKinds, side : {Neutral}]
              \cup [kind : SidedKinds, side : Sides]

BeforeKickOff == PM("BeforeKickOff", Neutral)
TimeOver      == PM("TimeOver", Neutral)
PlayOn        == PM("PlayOn", Neutral)
Drop_Ball     == PM("Drop_Ball", Neutral)

\* The modes in which Stadium::step stops the clock, TimeRef looks away and
\* Player::kick is a fault (with BeforeKickOff and TimeOver).
IsStopped(pm) == pm.kind \in {"AfterGoal"} \cup FaultKinds

isPenaltyShootOut(pm) == pm.kind \in PenaltyKinds

\* The ball is in play or waiting to be put in play, and the clock runs.
IsLive(pm) == pm.kind \in {"PlayOn", "Drop_Ball"} \cup RestartKinds

\* M_kick_off_side after changePlayMode( pm ), when it was s.
KickOffSideAfter(pm, s) ==
    IF pm.kind \in RestartKinds THEN pm.side
    ELSE IF pm.kind = "Illegal_Defense" THEN Opp(pm.side)
    ELSE IF pm = Drop_Ball THEN Neutral
    ELSE s

\* What the referees between TimeRef and PenaltyRef may call in a live mode
\* (but for a goal).
FieldCalls ==
    {PM(k, s) : k \in {"FreeKick", "KickIn", "CornerKick", "GoalKick"}
                        \cup (FaultKinds \ {"Foul_Push"}),
                s \in Sides}

\* After a stop the side that did not offend, or that conceded the goal, restarts.
RestartsAfter(pm) ==
    IF pm.kind = "AfterGoal" THEN {PM("KickOff", Opp(pm.side))}
    ELSE IF pm.kind = "Back_Pass" THEN {PM("IndFreeKick", Opp(pm.side))}
    ELSE IF pm.kind \in {"Foul_Charge", "Foul_Push"}
         THEN {PM(k, Opp(pm.side)) : k \in {"FreeKick", "IndFreeKick"}}
    ELSE {PM("FreeKick", Opp(pm.side))}
=============================================================================
