------------------------------- MODULE Senders -------------------------------
(***************************************************************************)
(* What a client is sent: the view of a player with the rhythm of its see  *)
(* messages, and the content of the messages in every protocol version.    *)
(*                                                                         *)
(* A client of version v gets one sender per kind of message and one       *)
(* serializer, each created by a factory that maps versions to classes.    *)
(* A class inherits from the one before it and adds to what it sends.      *)
(* A message is modelled by its kind and the set of the fields it carries; *)
(* the numbers in them, their noise and the names of the objects are left  *)
(* out, except for the score.                                              *)
(*                                                                         *)
(* The unit of angles is 7.5 degrees, with server::visible_angle = 90.     *)
(***************************************************************************)
EXTENDS Integers, FiniteSets, FiniteSetsExt

CONSTANTS
    Protocols,      \* protocol versions of the clients
    Acts,           \* sets of what the observed player may be doing
    MaxGap          \* bound: opportunities counted since the last see

ASSUME SendersAssumption ==
    /\ Protocols \subseteq 1..19
    /\ Acts \subseteq SUBSET {"point", "tackle", "kick", "foul", "card", "goalie"}
    /\ MaxGap \in Nat \ 0..7

VARIABLES
    role,       \* "player", "online" or "trainer"
    ver,        \* M_version
    served,     \* is the client connected?
    view,       \* a player's view
    sendcnt,    \* M_sendcnt of its VisualSenderPlayer
    since,      \* history: opportunities to see since the last see message
    goals,      \* points of his own team and of the other, and his side
    last        \* the message sent by the last step

nvars == <<role, ver, served, view, sendcnt, since, goals, last>>

Nothing == [kind |-> "none"]
Knowledge == {"all", "nounum", "noteam", "close", "unseen"}
Scenes == [known : Knowledge, does : Acts]

------------------------------------------------------------------------------
(* Factories: the class that is registered for a version.                   *)

BodyClasses == {1, 5, 6, 7, 8, 12, 13, 14, 18}
VisualClasses == {1, 4, 5, 6, 7, 8, 13, 18}
FullStateClasses == {1, 5, 8, 13, 18}
InitClasses == {1, 7, 8}
PlayerSerializers == {1, 5, 7, 8, 13, 14, 18}
CoachVisuals == {1, 7, 8, 13}
CoachSerializers == {1, 7, 8, 13, 14}
OnlineInits == {1, 6, 7, 8}

getCreator(classes, v) == Max({c \in classes : c <= v})

From(c, n, fields) == IF c >= n THEN fields ELSE {}

------------------------------------------------------------------------------
(* sense_body.                                                              *)

\* Of the sender classes up to V7, and of the later ones.
BodyDataV1(c) ==
    {"view_mode", "stamina", "effort", "speed"}
        \cup From(c, 5, {"head_angle"}) \cup From(c, 6, {"speed_dir"})

BodyDataV8 == {"arm", "focus", "tackle"}
BodyDataV12 == {"collision"}
BodyDataV14 == {"foul", "cards"}
BodyDataV18 == {"focus_point"}

BodyData(c) ==
    BodyDataV1(c) \cup From(c, 8, BodyDataV8) \cup From(c, 12, BodyDataV12)
        \cup From(c, 14, BodyDataV14) \cup From(c, 18, BodyDataV18)

\* The counts and the stamina are up to the serializer.
BodyCountsV1 == {"kick", "dash", "turn", "say"}
BodyCountsV5 == {"turn_neck"}
BodyCountsV7 == {"catch", "move", "change_view"}
BodyCountsV18 == {"change_focus"}

BodyCounts(z) ==
    BodyCountsV1 \cup From(z, 5, BodyCountsV5) \cup From(z, 7, BodyCountsV7)
        \cup From(z, 18, BodyCountsV18)

BodyStamina(z) == From(z, 13, {"stamina_capacity"})

SenseBody(v) ==
    LET c == getCreator(BodyClasses, v)
        z == getCreator(PlayerSerializers, v)
    IN  BodyData(c) \cup BodyCounts(z) \cup BodyStamina(z)

------------------------------------------------------------------------------
(* see.                                                                     *)

\* What a serializer tells of the acts of a player.
VisualActsV8(does) == does \cap {"tackle"}
VisualActsV13(does) == IF "tackle" \in does THEN {} ELSE does \cap {"kick"}
VisualActs(z, does) == From(z, 8, VisualActsV8(does)) \cup From(z, 13, VisualActsV13(does))

\* serializePlayer of the sender classes, for a player near enough to tell
\* his number, and for any other.
serializePlayerV4(c) == From(c, 4, {"body"})
serializePlayerV5(c) == From(c, 5, {"head"})
serializePlayer(c, z, does) ==
    From(c, 8, (does \cap {"point"}) \cup VisualActs(z, does))

Low(high, fields) == IF high THEN fields ELSE {}

sendPlayer(c, z, high, scene) ==
    CASE scene.known = "unseen" -> {}
      [] scene.known \in {"noteam", "close"} -> {"dir"} \cup Low(high, {"dist"})
      [] scene.known = "nounum" ->
            {"dir", "team"}
                \cup Low(high, {"dist"} \cup serializePlayer(c, z, scene.does))
      [] scene.known = "all" ->
            {"dir", "team", "unum"}
                \cup Low(high, {"dist", "dist_chg", "dir_chg"}
                               \cup serializePlayerV4(c) \cup serializePlayerV5(c)
                               \cup serializePlayer(c, z, scene.does))

\* The ball and the flags: a velocity is told of what is near.  Of a line only
\* the direction and the distance.
sendBall(high, scene) ==
    CASE scene.known = "unseen" -> {}
      [] scene.known = "all" -> {"bdir"} \cup Low(high, {"bdist", "bdist_chg"})
      [] OTHER -> {"bdir"} \cup Low(high, {"bdist"})

sendLine(high, scene) ==
    IF scene.known = "unseen" THEN {} ELSE {"ldir"} \cup Low(high, {"ldist"})

Visual(v, high, scene) ==
    sendPlayer(getCreator(VisualClasses, v), getCreator(PlayerSerializers, v), high, scene)
        \cup sendBall(high, scene) \cup sendLine(high, scene)

------------------------------------------------------------------------------
(* fullstate, score and init.                                               *)

FSBeginV1 == {"side", "unum", "pos", "vel", "body", "neck"}
FSBeginV8(does) == IF "goalie" \in does THEN {"goalie"} ELSE {"type"}
FSBeginV14(does) == {"type"} \cup (does \cap {"goalie"})
FSBegin(z, does) ==
    FSBeginV1 \cup (IF z >= 14 THEN FSBeginV14(does) ELSE From(z, 8, FSBeginV8(does)))

FSStateV14(does) ==
    (IF does \cap {"tackle", "kick"} # {} THEN {} ELSE does \cap {"foul"})
        \cup (does \cap {"card"})
FSState(z, does) == VisualActs(z, does) \cup From(z, 14, FSStateV14(does))

FSStamina(z) == {"stamina", "effort", "recovery"} \cup From(z, 13, {"stamina_capacity"})

FSPlayer(c, z, does) ==
    FSBegin(z, does) \cup FSStamina(z)
        \cup From(c, 8, does \cap {"point"})
        \cup From(c, 13, FSState(z, does))
        \cup From(c, 18, {"focus_point"})

FSCountsV18 == {"change_focus"}
FSSelf(c, z) == From(c, 8, {"count", "arm"}) \cup From(z, 18, FSCountsV18)

FullState(v, does) ==
    LET c == getCreator(FullStateClasses, v)
        z == getCreator(PlayerSerializers, v)
    IN  IF c < 5 THEN {}
        ELSE {"pmode", "vmode", "score", "ball"} \cup FSSelf(c, z)
                 \cup FSPlayer(c, z, does)

LeftGoals == IF goals.left THEN goals.own ELSE goals.opp
RightGoals == IF goals.left THEN goals.opp ELSE goals.own

\* FullStateSenderPlayerV5 assigns the points of the right team to left.
FSScoreV5 == <<RightGoals, 0>>
FSScoreV8Unswapped == <<LeftGoals, RightGoals>>
FSScoreV8 == <<goals.own, goals.opp>>
FSScore(v) == IF getCreator(FullStateClasses, v) >= 8 THEN FSScoreV8 ELSE FSScoreV5

\* InitSenderPlayerV1::sendScore, for every version.
Score == <<goals.own, goals.opp>>

\* InitSenderCommon: nothing, the values in a fixed order, named values.
ServerParamsV7 == {"server_param"}
PlayerParamsV7 == {"player_param"}
PlayerTypesV7 == {"player_type"}
ParamsV8 == {"names"}
Params(c) ==
    From(c, 7, ServerParamsV7 \cup PlayerParamsV7 \cup PlayerTypesV7)
        \cup From(c, 8, ParamsV8)

InitPlayer(v) ==
    LET c == getCreator(InitClasses, v)
    IN  {"side", "mode"} \cup Params(c) \cup From(c, 7, {"changed_players"})

InitTrainer(v) == {"ok"} \cup Params(getCreator(InitClasses, v))

InitOnline(v) ==
    LET c == getCreator(OnlineInits, v)
    IN  {"ok"} \cup Params(c) \cup From(c, 6, {"side"})
            \cup From(c, 7, {"changed_players"}) \cup From(c, 8, {"clang_ver"})

------------------------------------------------------------------------------
(* see_global and look of the coaches.                                      *)

\* What SerializerCoach writes of a player; in version 14 it leaves the foul
\* out when the player points.
CoachObjectV1 == {"name", "pos", "vel", "body", "neck"}
CoachObjectV8(does) == does \cap {"point", "tackle"}
CoachActsV13(does) == VisualActs(13, does)
CoachActsV14(does) ==
    (IF does \cap {"tackle", "kick", "point"} # {} THEN {} ELSE does \cap {"foul"})
        \cup (does \cap {"card"})

CoachPlayer(c, z, does) ==
    CoachObjectV1 \cup From(c, 8, CoachObjectV8(does))
        \cup From(c, 13, CoachActsV13(does) \cup From(z, 14, CoachActsV14(does)))

GlobalVisual(v, does) ==
    {"goals", "ball"}
        \cup CoachPlayer(getCreator(CoachVisuals, v), getCreator(CoachSerializers, v), does)

\* A look shows the players as the class before would.
Look(v, does) ==
    LET c == getCreator(CoachVisuals, v)
    IN  {"goals", "ball"} \cup CoachObjectV1 \cup From(c, 13, CoachObjectV8(does))

------------------------------------------------------------------------------
(* hear: what was said, in full.                                            *)

Voices == {"referee", "coach", "self", "mate", "rival"}

HearV1(from) == {"msg", IF from \in {"mate", "rival"} THEN "dir" ELSE "name"}
HearV7(from) == IF from = "referee" THEN {} ELSE {"quotes"}
HearV8(from) == CASE from = "mate" -> {"side", "unum"} [] from = "rival" -> {"side"}
                  [] OTHER -> {}
CoachHearsV1 == {"name", "msg"}
CoachHearsV7(r, from) ==    \* the online coach takes the trainer for the referee
    IF from = "referee" \/ (from = "coach" /\ r = "online") THEN {} ELSE {"quotes"}

\* To a client of role r.
Hears(r, v, from) ==
    IF r = "player"
    THEN LET z == getCreator(PlayerSerializers, v)
         IN  HearV1(from) \cup From(z, 7, HearV7(from)) \cup From(z, 8, HearV8(from))
    ELSE CoachHearsV1 \cup From(getCreator(CoachSerializers, v), 7, CoachHearsV7(r, from))

------------------------------------------------------------------------------
(* The message of a kind to a client of role r and version v.               *)

Says(r, kind, v, high, scene) ==
    CASE kind = "sense_body" -> SenseBody(v)
      [] kind = "see" -> Visual(v, high, scene)
      [] kind = "fullstate" -> FullState(v, scene.does)
      [] kind = "score" -> {"score"}
      [] kind = "see_global" -> GlobalVisual(v, scene.does)
      [] kind = "look" -> Look(v, scene.does)
      [] kind \in Voices -> Hears(r, v, kind)
      [] kind = "init" /\ r = "player" -> InitPlayer(v)
      [] kind = "init" /\ r = "online" -> InitOnline(v)
      [] kind = "init" /\ r = "trainer" -> InitTrainer(v)

NoScene == [known |-> "unseen", does |-> {}]

Message(kind, scene, score, gap) ==
    [kind |-> kind, scene |-> scene, score |-> score, gap |-> gap, high |-> view.high,
     says |-> Says(role, kind, ver, view.high, scene)]

------------------------------------------------------------------------------
(* The view of a player.                                                    *)

Widths == {"narrow", "normal", "wide"}

Angle(w, synch) ==
    IF synch THEN [narrow |-> 8, normal |-> 16, wide |-> 24][w]
    ELSE [narrow |-> 6, normal |-> 12, wide |-> 24][w]

Interval(w, synch) ==
    IF synch THEN [narrow |-> 1, normal |-> 2, wide |-> 3][w]
    ELSE [narrow |-> 2, normal |-> 4, wide |-> 8][w]

Viewing(w, high, synch, gauss) ==
    [width |-> w, high |-> high, synch |-> synch, gauss |-> gauss,
     angle |-> Angle(w, synch),
     interval |-> IF high THEN Interval(w, synch) ELSE Interval(w, synch) \div 2]

SendersInit ==
    /\ role \in {"player", "online", "trainer"} /\ ver \in Protocols
    /\ served = FALSE
    /\ view = Viewing("normal", TRUE, FALSE, FALSE)
    /\ sendcnt = 0 /\ since = 0
    /\ goals \in [left : BOOLEAN, own : {1}, opp : {2}]
    /\ last = Nothing

\* synch_see keeps the width; there is no way back.
synchView(w) == Viewing(w.width, TRUE, TRUE, w.gauss)

\* setSenders makes new senders; a player of version 18 sees in step from the
\* first init on.  A player that comes back keeps his view.
Join ==
    /\ ~ served
    /\ served' = TRUE
    /\ sendcnt' = 0
    /\ view' = IF role = "player" /\ ver >= 18 THEN synchView(view) ELSE view
    /\ last' = Message("init", NoScene, <<>>, 0)
    /\ UNCHANGED <<role, ver, since, goals>>

Leave ==
    /\ served /\ served' = FALSE
    /\ last' = Nothing
    /\ UNCHANGED <<role, ver, view, sendcnt, since, goals>>

Plays == served /\ role = "player"

Turns(new) ==
    /\ Plays
    /\ view' = new
    /\ last' = Nothing
    /\ UNCHANGED <<role, ver, served, sendcnt, since, goals>>

\* (change_view width quality) and (change_view width)
change_view(w, high) ==
    /\ view.synch => high
    /\ Turns(Viewing(w, high, view.synch, view.gauss))

synch_see == Turns(synchView(view))

gaussian_see == Turns([view EXCEPT !.gauss = TRUE])

------------------------------------------------------------------------------
(* The streams.                                                             *)

\* VisualSenderPlayerV1::sendVisual, at every visual of the player's kind.
DueEarly(n) == n + 1 >= view.interval
DueNow(n) == n >= view.interval

sendVisual(scene) ==
    LET n == sendcnt + 1
        gap == IF since < MaxGap THEN since + 1 ELSE since
    IN  /\ Plays
        /\ IF DueNow(n)
           THEN /\ sendcnt' = 0 /\ since' = 0
                /\ last' = Message("see", scene, <<>>, gap)
           ELSE /\ sendcnt' = n /\ since' = gap
                /\ last' = Nothing
        /\ UNCHANGED <<role, ver, served, view, goals>>

Send(m) == last' = m /\ UNCHANGED <<role, ver, served, view, sendcnt, since, goals>>

\* sense_body in every cycle or when asked for, fullstate, (score)
sendBody == Plays /\ Send(Message("sense_body", NoScene, <<>>, 0))
sendFullState(scene) == Plays /\ Send(Message("fullstate", scene, FSScore(ver), 0))
sendScore == Plays /\ Send(Message("score", NoScene, Score, 0))

\* doSendCoachMessages while the eye is on, and (look)
send_visual_info(scene) ==
    served /\ role # "player" /\ Send(Message("see_global", scene, <<>>, 0))
sendAudio(from) ==
    served /\ (role # "player" => from # "self") /\ Send(Message(from, NoScene, <<>>, 0))
look(scene) == served /\ role # "player" /\ Send(Message("look", scene, <<>>, 0))

SendersNext ==
    \/ Join \/ Leave
    \/ \E w \in Widths, high \in BOOLEAN : change_view(w, high)
    \/ synch_see \/ gaussian_see
    \/ sendBody \/ sendScore
    \/ \E from \in Voices : sendAudio(from)
    \/ \E scene \in Scenes :
          sendVisual(scene) \/ sendFullState(scene) \/ send_visual_info(scene) \/ look(scene)

SendersSpec == SendersInit /\ [][SendersNext]_nvars

------------------------------------------------------------------------------
(* Properties.                                                              *)

\* The angle of view that one opportunity to see is worth.
Worth(w) == IF w.synch THEN 8 ELSE IF w.high THEN 3 ELSE 6

\* Nobody sees more for less: however a player switches width, quality and
\* timing between two see messages, and however often he reconnects, the angle
\* of a see message is paid for by the opportunities he let pass since the last
\* one, at the rate of his mode.
SeePays ==
    last.kind = "see" => last.gap * Worth(view) >= view.angle

\* A client of a later protocol version is told everything that an earlier one
\* would be told in the same situation, by every sender and serializer class;
\* and from version 8 on, the fullstate gives the same score as (score).
NewerKnowsMore ==
    last.kind # "none" =>
        /\ \A v \in ver .. 19 :
              last.says \subseteq Says(role, last.kind, v, last.high, last.scene)
        /\ last.kind = "fullstate" /\ ver >= 8 => last.score = Score
=============================================================================
