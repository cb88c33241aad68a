------------------------------ MODULE MCServer ------------------------------
(***************************************************************************)
(* The server side of the program for TLC: the connections of the clients, *)
(* the timers, the synchronous mode, the end of the process, what monitors *)
(* and game log are told, start-up, and the keepaway game.  These          *)
(* components share no state in the model, so a behaviour picks one of     *)
(* them, the part, at the start and explores it while the others rest.     *)
(***************************************************************************)
EXTENDS Clients, Timers, Think, Shutdown, Display, Conf, Keepaway

VARIABLE part

allVars == <<cvars, tvars, kvars, svars, dvars, fvars, wvars, part>>

\* Units of 2.5 ms: the default steps of the streams.
MCSteps == [recv |-> 4, sense |-> 40, visual |-> 15, coach |-> 40]
\* Of the log formats -1 (JSON) and 1 to 6, those whose code differs.
MCLogFormats == {-1, 1, 3, 6}

Init ==
    /\ ClientsInit /\ TimersInit /\ ThinkInit /\ ShutdownInit /\ DisplayInit /\ ConfInit
    /\ KeepawayInit
    /\ part \in {"players", "teams", "coaches", "timers", "think",
                 "shutdown", "log", "screens", "conf", "keepaway"}
    /\ part # "timers" => ~ sync
    /\ part # "log" => log.format = 1 /\ ~ log.fixed

\* One team with all that can happen to its players; both teams, without
\* failures of the network; and the coaches of one team and the monitors.
Players ==
    /\ part = "players"
    /\ PlayerNext \/ removeDisconnectedClients \/ PlayModeChange
    /\ team'[Left].name # "B" /\ team'[Right].name = ""
Teams ==
    /\ part = "teams"
    /\ \/ \E a \in Addrs, n \in Names : PlayerInit(a, n, FALSE, FALSE, TRUE)
       \/ \E a \in Addrs, p \in Slots : PlayerReconnect(a, p, TRUE, TRUE)
       \/ \E p \in Slots : bye(p)
       \/ removeDisconnectedClients
Coaches ==
    /\ part = "coaches"
    /\ CoachNext \/ removeDisconnectedClients
       \/ \E a \in Addrs : PlayerInit(a, "A", FALSE, FALSE, TRUE)

Next ==
    \/ (Players \/ Teams \/ Coaches)
       /\ UNCHANGED <<tvars, kvars, svars, dvars, fvars, wvars, part>>
    \/ part = "timers" /\ TimersNext
       /\ UNCHANGED <<cvars, kvars, svars, dvars, fvars, wvars, part>>
    \/ part = "think" /\ ThinkNext
       /\ UNCHANGED <<cvars, tvars, svars, dvars, fvars, wvars, part>>
    \/ part = "shutdown" /\ ShutdownNext
       /\ UNCHANGED <<cvars, tvars, kvars, dvars, fvars, wvars, part>>
    \/ ((part = "log" /\ LogNext) \/ (part = "screens" /\ ScreensNext))
       /\ UNCHANGED <<cvars, tvars, kvars, svars, fvars, wvars, part>>
    \/ part = "conf" /\ ConfNext
       /\ UNCHANGED <<cvars, tvars, kvars, svars, dvars, wvars, part>>
    \/ part = "keepaway" /\ KeepawayNext
       /\ UNCHANGED <<cvars, tvars, kvars, svars, dvars, fvars, part>>

Spec == Init /\ [][Next]_allVars
=============================================================================
