------------------------------ MODULE Display ------------------------------
(***************************************************************************)
(* What the monitors and the game log are told of a match.  A show is sent *)
(* and recorded at the end of every simulator step.  The shows of the      *)
(* monitors, and of the log formats 1 and 2, carry the play mode and the   *)
(* teams; those of the later log formats do not, and Logger writes a play  *)
(* mode or team record before the show whenever its own static copies      *)
(* differ from the stadium.  Teams' graphics reach a monitor a few tiles   *)
(* at a time.                                                              *)
(*                                                                         *)
(* A cached show is kept by the clock and the stoppage time, of which      *)
(* every step increments one; it is reused within a step only.  (One case  *)
(* is left out: a stop called in the cycle in which the half is up, and an *)
(* operator who lets play go on, so that callHalfTime turns the clock back *)
(* to the cycle of the last show.)                                         *)
(***************************************************************************)
EXTENDS Integers, Sequences, FiniteSets, FiniteSetsExt, SequencesExt, PlayModes

CONSTANTS
    LogFormats,     \* values of server::game_log_version, -1 for JSON
    ScreenVersions, \* protocol versions of the monitors, -1 for JSON
    Tiles,          \* coordinates of the tiles of a team's graphic
    SendBefore,     \* tiles that a step may send before the kick-off (32)
    SendInPlay,     \* tiles that a later step may send (8)
    MaxScreens,     \* bound: monitors at a time
    MaxPoint        \* bound: goals, and penalties, of a side

ASSUME DisplayAssumption ==
    /\ LogFormats \subseteq {-1} \cup 1 .. 6
    /\ ScreenVersions \subseteq {-1} \cup 1 .. 5
    /\ IsFiniteSet(Tiles)
    /\ SendBefore \in Nat \ {0} /\ SendInPlay \in Nat \ {0}
    /\ MaxScreens \in Nat /\ MaxPoint \in Nat

Unknown == "unknown"
Phases == {"before_kick_off", "play", "stopped", "time_over"}

VARIABLES
    match,      \* the stadium: play mode, and of each team the name, the
                \* goals and the penalties taken
    art,        \* M_team_graphics of each side
    log,        \* the game log: format, state of the file, static copies
                \* of Logger, what a reader of the file knows, and (history)
                \* the match when it was last shown
    screens     \* the monitors, in the order of M_monitors

dvars == <<match, art, log, screens>>

------------------------------------------------------------------------------
(* What the classes of serializers and senders write.                       *)

\* The parts of a show that one class and those that another one writes.
Both(f, g) == [p \in DOMAIN f \cup DOMAIN g |-> IF p \in DOMAIN f THEN f[p] ELSE g[p]]

\* The serializers, by the part of a show that they are asked for.  (The
\* binary shows of the monitors 1 and 2 and the logs 1 to 3 do without.)
SerializerV3Match ==
    [pm |-> {"pm"}, score |-> {"teams", "penalties"}, ball |-> {"ball", "ball_vel"}]
SerializerV3Player ==
    [begin |-> {"state", "type"}, pos |-> {"pos", "vel", "body", "neck"},
     arm |-> {"arm"}, view |-> {"view"}, focusPoint |-> {}, stamina |-> {"stamina"},
     focus |-> {"focus"}, counts |-> {"counts", "tackle_count"}]
SerializerV3 == Both(SerializerV3Match, SerializerV3Player)
SerializerV4 == [SerializerV3 EXCEPT !.stamina = @ \cup {"capacity"}]
SerializerV5 == [SerializerV4 EXCEPT !.counts = @ \cup {"change_focus"},
                                     !.focusPoint = {"focus_point"}]
SerializerJSONMatch == SerializerV3Match
SerializerJSONPlayer ==
    [SerializerV3Player EXCEPT !.focusPoint = {"focus_point"},
                               !.stamina = {"stamina", "capacity"},
                               !.counts = @ \cup {"change_focus"}]
SerializerJSON == Both(SerializerJSONMatch, SerializerJSONPlayer)
Serializer(v) == CASE v = 3 -> SerializerV3 [] v = 4 -> SerializerV4
                   [] v = 5 -> SerializerV5 [] v = -1 -> SerializerJSON

Asked(z, parts) == UNION {z[p] : p \in parts}

\* DispSenderMonitor: the shows of the monitors.
MonitorShowV1 == {"pm", "teams", "ball", "state", "pos", "body"}
MonitorShowV2 ==
    MonitorShowV1 \cup {"ball_vel", "type", "vel", "neck", "view", "stamina", "counts"}
MonitorShowV3(z) == Asked(z, DOMAIN z)
MonitorShowJSON(z) == Asked(z, DOMAIN z \ {"counts"})
MonitorShow(v) == CASE v = 1 -> MonitorShowV1 [] v = 2 -> MonitorShowV2
                    [] v \in 3 .. 5 -> MonitorShowV3(Serializer(v))
                    [] v = -1 -> MonitorShowJSON(Serializer(v))

\* InitSenderMonitor: a monitor of protocol 1 is told no parameters.
AllParams == {"server_param", "player_param", "player_type"}
InitMonitor(v) == IF v = 1 THEN {} ELSE AllParams

\* DispSenderLogger: the shows of the log.
LogShowV1 == {"pm", "teams", "ball", "state", "pos", "body"}
LogShowV2 == LogShowV1
LogShowV3 == {"ball", "ball_vel", "state", "type", "pos", "vel", "body", "neck",
              "view", "stamina", "counts"}
LogShowV4(z) == Asked(z, DOMAIN z \ {"pm", "score"})
LogShowJSON(z) == Asked(z, DOMAIN z \ {"pm", "score", "focusPoint"})
LogShow(f) == CASE f = 1 -> LogShowV1 [] f = 2 -> LogShowV2 [] f = 3 -> LogShowV3
                [] f \in 4 .. 6 -> LogShowV4(Serializer(f - 1))
                [] f = -1 -> LogShowJSON(Serializer(f))

\* InitSenderLogger: the parameters at the head of the log, and the records
\* that precede a show.  The teams' records of format 3 have no penalties.
LogParamsV1 == {}
LogParamsV3 == AllParams
LogParams(f) == IF f \in {1, 2} THEN LogParamsV1 ELSE LogParamsV3
LogRecordsV1 == {}
LogRecordsV3 == {"pm", "teams"}
LogRecordsV4 == {"pm", "teams", "penalties"}
LogRecordsJSON == LogRecordsV4
LogRecords(f) == CASE f \in {1, 2} -> LogRecordsV1 [] f = 3 -> LogRecordsV3
                   [] f \in 4 .. 6 -> LogRecordsV4 [] f = -1 -> LogRecordsJSON

------------------------------------------------------------------------------
(* The start.                                                               *)

Fresh == [pm |-> "before_kick_off", named |-> [s \in Sides |-> FALSE],
          point |-> [s \in Sides |-> 0], taken |-> [s \in Sides |-> 0]]

\* Logger::openGameLog writes the header and the parameters; the copies of
\* writeGameLogImpl are those of a match without teams, and no play mode.
DisplayInit ==
    /\ match = Fresh /\ art = [s \in Sides |-> {}] /\ screens = <<>>
    /\ \E f \in LogFormats, fixed \in BOOLEAN :
          log = [format |-> f, fixed |-> fixed, file |-> "open",
                 memo |-> [Fresh EXCEPT !.pm = Unknown],
                 told |-> [Fresh EXCEPT !.pm = Unknown],
                 shown |-> [Fresh EXCEPT !.pm = Unknown],
                 final |-> FALSE, ends |-> 0]

------------------------------------------------------------------------------
(* The match goes on between two steps.                                     *)

Change(m) == match' = m /\ UNCHANGED <<art, log, screens>>

changePlayMode(p) == Change([match EXCEPT !.pm = p])
NameTeam(s) == ~ match.named[s] /\ Change([match EXCEPT !.named[s] = TRUE])
Score(s) == match.point[s] < MaxPoint /\ Change([match EXCEPT !.point[s] = @ + 1])
TakePenalty(s) == match.taken[s] < MaxPoint /\ Change([match EXCEPT !.taken[s] = @ + 1])

\* A tile that the coach sends again replaces the old one; monitors that have
\* the old one do not get the new one.
addTeamGraphic(s, t) ==
    /\ match.pm = "before_kick_off"
    /\ art' = [art EXCEPT ![s] = @ \cup {t}]
    /\ UNCHANGED <<match, log, screens>>

ScreenInit(v) ==
    /\ Len(screens) < MaxScreens
    /\ screens' = Append(screens, [version |-> v, params |-> InitMonitor(v),
                                   tiles |-> {}, show |-> {}])
    /\ UNCHANGED <<match, art, log>>

MonitorBye(i) ==
    /\ i \in DOMAIN screens
    /\ screens' = RemoveAt(screens, i)
    /\ UNCHANGED <<match, art, log>>

------------------------------------------------------------------------------
(* Shows to the monitors.                                                   *)

\* One class, with one cached message, for the protocols 3, 4 and 5.
SenderClass(v) == IF v \in 3 .. 5 THEN 3 ELSE v

\* Each class sends the message that its first monitor in the list has made.
sendShow(i) ==
    LET same == {j \in 1 .. i : SenderClass(screens[j].version)
                                    = SenderClass(screens[i].version)}
    IN MonitorShow(screens[Min(same)].version)

\* Tiles that are still to send, left ones first, and no more than MAX_SEND.
Pending(m) == ({Left} \X (art[Left] \ {t[2] : t \in {u \in m.tiles : u[1] = Left}}))
         \cup ({Right} \X (art[Right] \ {t[2] : t \in {u \in m.tiles : u[1] = Right}}))

sendTeamGraphics(m) ==
    LET maxSend == IF match.pm = "before_kick_off" THEN SendBefore ELSE SendInPlay
        n == Min({maxSend, Cardinality(Pending(m))})
    IN {S \in SUBSET Pending(m) :
            /\ Cardinality(S) = n
            /\ (\E t \in S : t[1] = Right) => {t \in Pending(m) : t[1] = Left} \subseteq S}

ShowScreens ==
    \E sent \in [DOMAIN screens -> SUBSET (Sides \X Tiles)] :
        /\ \A i \in DOMAIN screens : sent[i] \in sendTeamGraphics(screens[i])
        /\ screens' = [i \in DOMAIN screens |->
                          [screens[i] EXCEPT !.tiles = @ \cup sent[i],
                                             !.show = sendShow(i)]]

------------------------------------------------------------------------------
(* The game log.                                                            *)

isGameLogOpen == log.file = "open"

sendPlayMode(l, m) ==
    IF "pm" \in LogRecords(l.format) THEN [l EXCEPT !.told.pm = m.pm] ELSE l

sendTeam(l, m) ==
    LET records == LogRecords(l.format)
    IN  [l EXCEPT !.told.named = IF "teams" \in records THEN m.named ELSE @,
                  !.told.point = IF "teams" \in records THEN m.point ELSE @,
                  !.told.taken = IF "penalties" \in records THEN m.taken ELSE @]

\* The show of a format that has the play mode and the teams in it.  In format
\* 1 the score of a team without a name is whatever was in the buffer.
ShowRecord(l, m) ==
    IF {"pm", "teams"} \subseteq LogShow(l.format)
    THEN [l EXCEPT !.told.pm = m.pm, !.told.named = m.named,
                   !.told.point = [s \in Sides |->
                       IF m.named[s] \/ l.format = 2 THEN m.point[s] ELSE Unknown],
                   !.shown = m]
    ELSE [l EXCEPT !.shown = m]

TeamsDifferIgnoringPenalties(l, m) == l.memo.point # m.point \/ l.memo.named # m.named
TeamsDiffer(l, m) ==
    l.memo.point # m.point \/ l.memo.taken # m.taken \/ l.memo.named # m.named

writeGameLogImpl(l, m) ==
    LET a == IF l.memo.pm # m.pm
             THEN sendPlayMode([l EXCEPT !.memo.pm = m.pm], m) ELSE l
        b == IF TeamsDiffer(a, m)
             THEN sendTeam([a EXCEPT !.memo = m], m) ELSE a
    IN ShowRecord(b, m)

\* Nothing is recorded before the kick-off, and one show after the match.
writeGameLog ==
    IF ~ isGameLogOpen THEN log
    ELSE CASE match.pm \notin {"before_kick_off", "time_over"} -> writeGameLogImpl(log, match)
           [] match.pm = "time_over" /\ ~ log.final ->
                  [writeGameLogImpl(log, match) EXCEPT !.final = TRUE]
           [] OTHER -> log

\* Stadium::sendDisp, at the end of a step.
sendDisp ==
    /\ ShowScreens
    /\ log' = writeGameLog
    /\ UNCHANGED <<match, art>>

\* Messages of the referee, the players and the coaches: what a reader knows of
\* the match is left alone.  A full disk ends the recording.
WriteFails ==
    /\ isGameLogOpen
    /\ log' = [log EXCEPT !.file = "bad"]
    /\ UNCHANGED <<match, art, screens>>

\* The tail is the last team record (format 4 and later).
HasTail(f) == f \in {-1, 4, 5, 6}
closeGameLog(l) ==
    LET t == IF HasTail(l.format) /\ l.file = "open"
             THEN [sendTeam(l, match) EXCEPT !.shown = [match EXCEPT !.pm = l.told.pm]]
             ELSE l
    IN IF l.file = "closed" THEN l ELSE [t EXCEPT !.file = "closed", !.ends = @ + 1]

\* Logger::close: the result message, the new name unless the name is fixed
\* (which closes the file), and the end of what is still open.
renameLogs(l) == IF l.file # "open" \/ l.fixed THEN l ELSE closeGameLog(l)

closeLogs ==
    /\ log.file # "closed"
    /\ log' = closeGameLog(renameLogs(log))
    /\ UNCHANGED <<match, art, screens>>

LogNext ==
    \/ \E p \in Phases : changePlayMode(p)
    \/ \E s \in Sides : NameTeam(s) \/ Score(s) \/ TakePenalty(s)
    \/ sendDisp \/ WriteFails \/ closeLogs

ScreensNext ==
    \/ \E p \in Phases : changePlayMode(p)
    \/ \E s \in Sides, t \in Tiles : addTeamGraphic(s, t)
    \/ \E v \in ScreenVersions : ScreenInit(v)
    \/ \E i \in DOMAIN screens : MonitorBye(i)
    \/ sendDisp

DisplaySpec == DisplayInit /\ [][LogNext \/ ScreensNext]_dvars

------------------------------------------------------------------------------
(* Properties.                                                              *)

\* When a show is recorded, a reader of the log knows from the records so far
\* the play mode and the names, goals and, from format 4 on, penalties of the
\* match at that step (writeGameLogImpl).  A closed log of these formats ends
\* with the result of the match, and is closed once (sendTail, close).
LogTellsMatch ==
    /\ log.ends <= 1
    /\ log.shown.pm # Unknown =>
          /\ log.told.pm = log.shown.pm
          /\ \A s \in Sides : log.shown.named[s] =>
                log.told.named[s] /\ log.told.point[s] = log.shown.point[s]
          /\ log.format \notin 1 .. 3 => log.told.taken = log.shown.taken

\* Whatever class a factory picks and whichever monitor's show is sent from the
\* cache: a monitor gets at least what the first protocol of its class shows,
\* the play mode and the teams among it, and types only if it was told what
\* they are (sendShow, sendInit); the tiles it got are tiles of the teams.  The
\* same of the log, whose later formats tell all that the earlier ones tell.
EveryShowIsComplete ==
    /\ \A i \in DOMAIN screens :
          LET m == screens[i] IN
          /\ m.show # {} =>
                /\ MonitorShow(SenderClass(m.version)) \cup {"pm", "teams"} \subseteq m.show
                /\ "type" \in m.show => "player_type" \in m.params
          /\ \A t \in m.tiles : t[2] \in art[t[1]]
    /\ log.shown.pm # Unknown =>
          /\ "type" \in LogShow(log.format) => "player_type" \in LogParams(log.format)
          /\ \A f \in 1 .. log.format :
                LogShow(f) \cup LogRecords(f)
                    \subseteq LogShow(log.format) \cup LogRecords(log.format)

\* What monitors and game log are told of the match.
ShowsTellMatch == LogTellsMatch /\ EveryShowIsComplete
=============================================================================
