------------------------------- MODULE Coach -------------------------------
(***************************************************************************)
(* The online coach of a team and what it governs: the queue of its        *)
(* messages to the players with the limits on them (OnlineCoach), and the  *)
(* player types of the team with the limits on substitutions (Team).       *)
(* The trainer substitutes without those limits.                           *)
(*                                                                         *)
(* A message of the coach language is its kind and the time at which it    *)
(* was received; the language itself is the module Clang.                  *)
(***************************************************************************)
EXTENDS Integers, Sequences, FiniteSets, SequencesExt

CONSTANTS
    Kinds,          \* limited kinds of messages (META, INFO, ADVICE, ...)
    Win,            \* server::clang_*_win, by kind
    WinSize,        \* server::clang_win_size
    MessDelay,      \* server::clang_mess_delay
    PerCycle,       \* server::clang_mess_per_cycle
    FreeformMax,    \* server::freeform_count_max (say_coach_cnt_max)
    WaitPeriod,     \* server::freeform_wait_period
    SendPeriod,     \* server::freeform_send_period
    Squad,          \* players that connect before the match
    Extra,          \* players that may connect later
    PlayerTypes,    \* player::player_types
    PtMax,          \* player::pt_max
    SubsMax,        \* player::subs_max
    AllowMult,      \* player::allow_mult_default_type
    GameTime,       \* cycles until substitutions are closed
    MaxCoachQueue,  \* bound: messages in the queue
    MaxSubs         \* bound: substitutions by the trainer

ASSUME CoachAssumption ==
    /\ Win \in [Kinds -> Int] /\ {WinSize, MessDelay, PerCycle} \subseteq Nat
    /\ FreeformMax \in Int /\ {WaitPeriod, SendPeriod, GameTime} \subseteq Nat \ {0}
    /\ Squad \in Nat \ {0} /\ Extra \in Nat /\ PlayerTypes \in Nat \ {0}
    /\ {PtMax, SubsMax, MaxCoachQueue, MaxSubs} \subseteq Nat /\ AllowMult \in BOOLEAN

VARIABLES
    mode,       \* "before" the kick-off, "on" (PM_PlayOn), "stop" or "penalty"
    time,       \* M_time
    onSince,    \* M_last_playon_start
    mq,         \* M_message_queue
    left,       \* M_*_messages_left
    window,     \* M_msg_left_update_time
    said,       \* M_freeform_messages_said
    allowed,    \* M_freeform_messages_allowed
    types,      \* the players' types and the counters of the team
    tiles,      \* tiles of the team graphic: inside or outside of its 32 x 8
    free        \* history: has the trainer changed a type?

ovars == <<mode, time, onSince, mq, left, window, said, allowed, types, tiles, free>>
typeVars == <<types, free>>
messageVars == <<mq, left, window, said, allowed>>

Types == 0 .. PlayerTypes - 1
NoType == -1                        \* the key of the players never substituted
Unum == 1 .. Squad + Extra

CoachInit ==
    /\ mode = "before" /\ time = 0 /\ onSince = 0
    /\ mq = <<>> /\ left = [k \in Kinds |-> -1] /\ window = -1
    /\ said = 0 /\ allowed = FreeformMax
    /\ types = [size  |-> Squad,
                type  |-> [u \in Unum |-> 0],           \* M_player_type_id
                subst |-> {},                           \* M_substituted
                count |-> [t \in Types \cup {NoType} |-> IF t = NoType THEN Squad ELSE 0],
                used  |-> [t \in Types \cup {NoType} |-> IF t = NoType THEN Squad ELSE 0],
                subs  |-> 0]                            \* M_subs_count
    /\ tiles = {} /\ free = FALSE

------------------------------------------------------------------------------
(* Messages.                                                                *)

canSendFreeform ==
    \/ mode # "on"
    \/ LET period == time - onSince
       IN  period > WaitPeriod /\ period % WaitPeriod < SendPeriod

Enqueue(k) == mq' = Append(mq, [kind |-> k, recv |-> time])

\* say, protocol 7 and later; a message beyond its limit is refused.
say(k) ==
    /\ Len(mq) < MaxCoachQueue
    /\ mode = "on" => left[k] > 0
    /\ Enqueue(k)
    /\ left' = IF mode = "on" THEN [left EXCEPT ![k] = @ - 1] ELSE left
    /\ UNCHANGED <<mode, time, onSince, window, said, allowed, tiles, typeVars>>

sayFreeform ==
    /\ Len(mq) < MaxCoachQueue
    /\ canSendFreeform /\ (said < allowed \/ allowed < 0)
    /\ Enqueue("freeform")
    /\ said' = said + 1
    /\ UNCHANGED <<mode, time, onSince, left, window, allowed, tiles, typeVars>>

\* check_message_queue: the loop counts up from PerCycle, so that only a
\* message that is not due, or an empty queue, ends it.
Due(m) == mode # "on" \/ time - m.recv >= MessDelay
DuePrefix == SelectInSeq(mq, LAMBDA m : ~ Due(m))
Sent == IF PerCycle = 0 THEN 0
        ELSE IF DuePrefix = 0 THEN Len(mq) ELSE DuePrefix - 1

update_messages_left ==
    IF window >= 0 /\ time - window < WinSize
    THEN UNCHANGED <<left, window>>
    ELSE left' = Win /\ window' = time

awardFreeformMessageCount ==
    allowed' = IF time' > time /\ time' % GameTime = 0 /\ allowed > 0
               THEN allowed + FreeformMax ELSE allowed

\* The coach's part of Stadium::step.
CoachStep(clock) ==
    /\ time + clock <= GameTime + 1
    /\ mode = "on" => clock = 1
    /\ mode = "before" => clock = 0
    /\ mq' = SubSeq(mq, Sent + 1, Len(mq))
    /\ update_messages_left
    /\ time' = time + clock
    /\ awardFreeformMessageCount
    /\ UNCHANGED <<mode, onSince, said, tiles, typeVars>>

------------------------------------------------------------------------------
(* Player types.                                                            *)

CountedAs(r, u) == IF u \in r.subst THEN r.type[u] ELSE NoType

\* Team::substitute: without a player of the old type nothing is changed, and
\* nobody is told so.
substituteUncounted(r, u, t) ==
    LET old == CountedAs(r, u)
        inPlay == IF time > 0 THEN 1 ELSE 0
    IN  IF r.count[old] <= 0 THEN r
        ELSE [r EXCEPT !.type[u] = t, !.subst = @ \cup {u}, !.count[old] = @ - 1,
                       !.subs = @ + inPlay, !.used[t] = @ + inPlay]

substituteType(r, u, t) ==
    LET old == CountedAs(r, u)
    IN  IF r.count[old] <= 0 THEN r
        ELSE [r EXCEPT !.type[u] = t, !.subst = @ \cup {u},
                       !.count = [x \in DOMAIN @ |->
                           @[x] - (IF x = old THEN 1 ELSE 0) + (IF x = t THEN 1 ELSE 0)],
                       !.subs = @ + (IF time > 0 THEN 1 ELSE 0),
                       !.used[t] = @ + (IF time > 0 THEN 1 ELSE 0)]

Free(t) == t = 0 /\ AllowMult

\* OnlineCoach::change_player_type: its tests in their order.
MayChange(u, t) ==
    /\ mode # "on" /\ time < GameTime
    /\ types.subs < SubsMax
    /\ types.used[t] > 0 /\ ~ Free(t) => types.used[t] < PtMax
    /\ u <= types.size
    /\ \/ Free(t) \/ types.count[t] < PtMax
       \/ u \in types.subst /\ types.type[u] = t

change_player_type(u, t) ==
    /\ MayChange(u, t)
    /\ types' = substituteType(types, u, t)
    /\ UNCHANGED <<mode, time, onSince, tiles, free, messageVars>>

\* Coach::change_player_type: the trainer is not limited.
trainer_change_player_type(u, t) ==
    /\ u <= types.size /\ types.subs < MaxSubs
    /\ types' = substituteType(types, u, t)
    /\ free' = TRUE
    /\ UNCHANGED <<mode, time, onSince, tiles, messageVars>>

\* Team::assignPlayerTypes for one player: the first type that is not used up.
\* A player who has that type already is not substituted, only counted.
AssignOne(r, u) ==
    LET old == CountedAs(r, u)
        open == {t \in Types : r.used[t] < PtMax}
        t == CHOOSE t \in open : \A x \in open : t <= x
        Moved(f) == [x \in DOMAIN f |->
                        f[x] + (IF x = t THEN 1 ELSE 0) - (IF x = old THEN 1 ELSE 0)]
        m == [r EXCEPT !.count = Moved(@), !.used = Moved(@)]
    IN  IF (old >= 0 /\ r.used[old] <= PtMax) \/ open = {} THEN r
        ELSE IF r.type[u] = t THEN m
        ELSE [m EXCEPT !.type[u] = t, !.subst = @ \cup {u}]

\* First the counters start anew; the goalie, number 1, is the first in line.
Recounted(r) ==
    LET now == [t \in Types \cup {NoType} |->
                   Cardinality({u \in 1 .. r.size : CountedAs(r, u) = t})]
    IN  [r EXCEPT !.count = now, !.used = now]

assignPlayerTypes(r) ==
    IF AllowMult THEN Recounted(r)
    ELSE LET after[u \in 0 .. r.size] ==
               IF u = 0 THEN Recounted(r) ELSE AssignOne(after[u - 1], u)
         IN  after[r.size]

\* Stadium::kickOff before the match, and the play mode afterwards.
KickOffTypes ==
    /\ mode = "before"
    /\ types' = assignPlayerTypes(types)
    /\ mode' = "stop"
    /\ UNCHANGED <<time, onSince, tiles, free, messageVars>>

CoachMode(m) ==
    /\ mode # "before" /\ m # mode
    /\ m = "penalty" <=> time >= GameTime
    /\ mode' = m
    /\ onSince' = IF m = "on" THEN time ELSE onSince
    /\ UNCHANGED <<time, tiles, messageVars, typeVars>>

\* Team::newPlayer.
NewPlayer ==
    /\ types.size < Squad + Extra
    /\ types' = [types EXCEPT !.size = @ + 1, !.count[NoType] = @ + 1,
                              !.used[NoType] = @ + 1]
    /\ UNCHANGED <<mode, time, onSince, tiles, free, messageVars>>

\* A tile outside of the graphic is warned about and kept all the same.
team_graphic(where) ==
    /\ mode = "before"
    /\ tiles' = tiles \cup {where}
    /\ UNCHANGED <<mode, time, onSince, messageVars, typeVars>>

TypesNext ==
    \/ \E u \in Unum, t \in Types :
           change_player_type(u, t) \/ trainer_change_player_type(u, t)
    \/ KickOffTypes \/ NewPlayer
    \/ \E w \in {"inside", "outside"} : team_graphic(w)

MessagesNext ==
    \/ \E k \in Kinds : say(k)
    \/ sayFreeform
    \/ \E clock \in {0, 1} : CoachStep(clock)
    \/ \E m \in {"on", "stop", "penalty"} : CoachMode(m)

OnlineCoachNext == TypesNext \/ MessagesNext

CoachSpec == CoachInit /\ [][OnlineCoachNext]_ovars

------------------------------------------------------------------------------
(* Properties.                                                              *)

Having(t) == {u \in 1 .. types.size : u \in types.subst /\ types.type[u] = t}

\* The limits on player types hold for the players, not only for the counters:
\* as long as only the coach and the server itself change types, no type but
\* an unlimited default is given to more than pt_max players, and the coach
\* makes at most subs_max substitutions.
TypeQuota ==
    ~ free => /\ \A t \in Types : ~ Free(t) => Cardinality(Having(t)) <= PtMax
              /\ types.subs <= SubsMax
=============================================================================
