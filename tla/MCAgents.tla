------------------------------ MODULE MCAgents ------------------------------
(***************************************************************************)
(* The agents' side of the program for TLC: the body of a player, its      *)
(* hearing, the online coach, the messages that the protocols' senders     *)
(* give to clients, and the coach language.  These components share no     *)
(* state in the model, so a behaviour picks one of them, the part, at the  *)
(* start and explores it while the others rest.                            *)
(***************************************************************************)
EXTENDS PlayerBody, Hear, Coach, Senders, Clang

VARIABLE part

allVars == <<bvars, hvars, ovars, nvars, gvars, part>>

MCWin == [k \in Kinds |-> 1]
MCActs == {{"point", "tackle", "card"}, {"goalie", "kick", "foul"}}

Init ==
    /\ BodyInit /\ HearInit /\ CoachInit /\ SendersInit /\ ClangInit
    /\ part \in {"body", "hearing", "types", "say", "senders", "clang"}
    /\ part # "hearing" => keeps
    /\ part # "senders" => role = "player" /\ ver = 18 /\ goals.left

CoachTypes == TypesNext \/ CoachStep(1) \/ \E m \in {"on", "stop", "penalty"} : CoachMode(m)
CoachSays == MessagesNext \/ KickOffTypes

Next ==
    \/ part = "body" /\ BodyNext
       /\ UNCHANGED <<hvars, ovars, nvars, gvars, part>>
    \/ part = "hearing" /\ HearNext
       /\ UNCHANGED <<bvars, ovars, nvars, gvars, part>>
    \/ ((part = "types" /\ CoachTypes) \/ (part = "say" /\ CoachSays))
       /\ UNCHANGED <<bvars, hvars, nvars, gvars, part>>
    \/ part = "senders" /\ SendersNext
       /\ UNCHANGED <<bvars, hvars, ovars, gvars, part>>
    \/ part = "clang" /\ ClangNext
       /\ UNCHANGED <<bvars, hvars, ovars, nvars, part>>

Spec == Init /\ [][Next]_allVars
=============================================================================
