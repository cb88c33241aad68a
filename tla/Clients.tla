------------------------------ MODULE Clients ------------------------------
(***************************************************************************)
(* Who is connected: the initialisation, reconnection and disconnection of *)
(* players, coaches and monitors, and the operations of the match that     *)
(* take a player off the pitch or change what he is (discards, cards,      *)
(* substitutions, a new goalie).                                           *)
(*                                                                         *)
(* All players, two online coaches and a trainer exist from the start; a   *)
(* client takes one over.  Stadium keeps the connected ones in the lists   *)
(* M_remote_players, M_remote_online_coaches, M_remote_offline_coaches and *)
(* M_monitors, with an entry in M_listeners for each, and sweeps the lists *)
(* at the end of every doRecvFromClients.  A socket that is closed in      *)
(* between leaves an entry whose client is gone.                           *)
(*                                                                         *)
(* A socket is the address it is connected to, or                          *)
(*   "idle"    open, not connected yet,                                    *)
(*   "broken"  closed by a failed connect; the transport is still there,   *)
(*   "closed"  closed together with its transport (RemoteClient::close).   *)
(*                                                                         *)
(* A datagram that is answered by an error and changes nothing is no step. *)
(* Player types are the concern of the module Coach.                       *)
(***************************************************************************)
EXTENDS Integers, FiniteSets, PlayModes

CONSTANTS
    Addrs,          \* addresses of clients
    Names,          \* team names a client may ask for
    FixedNames,     \* server::fixed_teamname_l and _r, when given
    MaxPlayer,      \* MAX_PLAYER
    MaxMonitors,    \* server::max_monitors; none if not positive
    Faults,         \* may open() and connect() fail?
    MaxListed       \* bound: entries of one player in M_remote_players

ASSUME ClientsAssumption ==
    /\ Addrs \cap {"idle", "broken", "closed"} = {}
    /\ "" \notin Names
    /\ MaxPlayer \in Nat \ {0} /\ MaxListed \in Nat \ {0}
    /\ MaxMonitors \in Int /\ Faults \in BOOLEAN

VARIABLES
    pl,         \* the players
    team,       \* name and size of the teams
    coach,      \* the trainer and the online coaches
    mons,       \* addresses of connected monitors
    gone,       \* monitors in M_monitors that are no longer connected
    live,       \* is the play mode PM_PlayOn?
    up          \* is the server running?

cvars == <<pl, team, coach, mons, gone, live, up>>

Slots == Sides \X (1..MaxPlayer)
Seats == Sides \cup {"trainer"}
Sockets == Addrs \cup {"idle", "broken", "closed"}
Works == IF Faults THEN BOOLEAN ELSE {TRUE}     \* outcomes of a system call

Num(p) == p[2]
TeamOf(p) == p[1]

ClientsTypeOK ==
    /\ pl \in [Slots -> [sock : Sockets, enabled : BOOLEAN, goalie : BOOLEAN,
                         bad : BOOLEAN,         \* M_version is unknown
                         cards : 0..2,          \* M_card_count
                         listed : 0..MaxListed]]
    /\ team \in [Sides -> [name : Names \cup {""}, size : 0..MaxPlayer]]
    /\ coach \in [Seats -> [sock : Sockets, assigned : BOOLEAN,
                            listed : BOOLEAN]]
    /\ mons \subseteq Addrs /\ gone \in Nat
    /\ live \in BOOLEAN /\ up \in BOOLEAN

ClientsInit ==
    /\ pl = [p \in Slots |-> [sock |-> "idle", enabled |-> FALSE,
                              goalie |-> FALSE, bad |-> FALSE, cards |-> 0,
                              listed |-> 0]]
    /\ team = [s \in Sides |-> [name |-> "", size |-> 0]]
    /\ coach = [c \in Seats |-> [sock |-> "idle", assigned |-> FALSE,
                                 listed |-> FALSE]]
    /\ mons = {} /\ gone = 0 /\ live = FALSE /\ up = TRUE

------------------------------------------------------------------------------
(* RemoteClient.                                                            *)

connected(r) == r.sock \in Addrs

\* close() also frees the transport; a socket that is not connected is left.
close(r) == [r EXCEPT !.sock = IF @ \in Addrs THEN "closed" ELSE @]

\* A connect that fails closes the socket and leaves the transport.
Opened(sock, ok) ==
    IF ok THEN "idle" ELSE IF sock = "closed" THEN sock ELSE "broken"

Connected(sock, a, ok) ==
    IF sock = "closed" THEN sock
    ELSE IF ok /\ sock # "broken" THEN a ELSE "broken"

\* The datagrams of a client that is served are commands, never an init.
Served(a) ==
    \/ \E p \in Slots : pl[p].listed > 0 /\ pl[p].sock = a
    \/ a \in mons

------------------------------------------------------------------------------
(* Players.                                                                 *)

disable(r) == [close(r) EXCEPT !.enabled = FALSE]

\* initPlayer: the team of a name, which it gets if it has none yet.
TeamFor(n) ==
    IF team[Left].name \in {"", n} THEN {Left}
    ELSE IF team[Right].name \in {"", n} THEN {Right} ELSE {}

HasGoalie(s) == \E i \in 1 .. team[s].size : pl[<<s, i>>].goalie

\* Team::newPlayer and Player::init; the goalie flag survives a refusal.
Refused(s, g) == team[s].size >= MaxPlayer \/ (g /\ HasGoalie(s))

PlayerInit(a, n, g, bad, ok) ==
    /\ up /\ ~ Served(a) /\ n \notin FixedNames
    /\ \E s \in TeamFor(n) :
         LET p == <<s, team[s].size + 1>>
             r == [pl[p] EXCEPT !.goalie = g, !.bad = bad, !.enabled = TRUE]
             named == [team EXCEPT ![s].name = n]
         IN  \/ /\ Refused(s, g)
                /\ team' = named
                /\ UNCHANGED <<pl, up>>
             \/ /\ ~ Refused(s, g) /\ bad
                /\ team' = named
                /\ pl' = [pl EXCEPT ![p] = disable(r)]
                /\ UNCHANGED up
             \/ \* getTransport() throws, and nobody catches
                /\ ~ Refused(s, g) /\ ~ bad /\ pl[p].sock = "closed"
                /\ up' = FALSE
                /\ UNCHANGED <<team, pl>>
             \/ /\ ~ Refused(s, g) /\ ~ bad /\ pl[p].sock # "closed"
                /\ pl[p].listed < MaxListed
                /\ team' = [named EXCEPT ![s].size = @ + 1]
                /\ LET c == [r EXCEPT !.sock = Connected(@, a, ok)]
                   IN  pl' = [pl EXCEPT ![p] =
                                 IF connected(c)
                                 THEN [c EXCEPT !.listed = @ + 1]
                                 ELSE disable(c)]
                /\ UNCHANGED up
    /\ UNCHANGED <<coach, mons, gone, live>>

\* reconnectPlayer asks for the name of the team and the number, not for the
\* size of the team: numbers that no client ever had are found too.
MayReconnectAnybody(p) == team[TeamOf(p)].name # ""
MayReconnect(p) == team[TeamOf(p)].name # "" /\ pl[p].cards < 2

PlayerReconnect(a, p, opens, connects) ==
    /\ up /\ ~ Served(a) /\ ~ live
    /\ MayReconnect(p)
    /\ pl[p].listed < MaxListed
    /\ LET o == Opened(pl[p].sock, opens)
           c == IF opens THEN Connected(o, a, connects) ELSE o
       IN  pl' = [pl EXCEPT
             ![p].sock    = c,
             ![p].listed  = IF c = a /\ ~ pl[p].bad THEN @ + 1 ELSE @,
             ![p].enabled = @ \/ (c = a /\ ~ pl[p].bad)]
    /\ UNCHANGED <<team, coach, mons, gone, live, up>>

bye(p) ==
    /\ up /\ pl[p].listed > 0 /\ connected(pl[p])
    /\ pl' = [pl EXCEPT ![p] = disable(@)]
    /\ UNCHANGED <<team, coach, mons, gone, live, up>>

\* The client is gone: send() or recv() fails and closes the socket.
Drop(p) ==
    /\ up /\ pl[p].listed > 0 /\ connected(pl[p])
    /\ pl' = [pl EXCEPT ![p] = close(@)]
    /\ UNCHANGED <<team, coach, mons, gone, live, up>>

\* A monitor's dispdiscard.
discardPlayer(p) ==
    /\ up /\ pl[p].enabled
    /\ pl' = [pl EXCEPT ![p] = disable(@)]
    /\ UNCHANGED <<team, coach, mons, gone, live, up>>

\* FoulRef or a monitor's dispcard; a second yellow card is a red one.
redCard(r) == [disable(r) EXCEPT !.cards = 2]
yellowCard(r) == IF r.cards = 1 THEN redCard(r) ELSE [r EXCEPT !.cards = @ + 1]

\* An enabled player with two cards (initialised after he was sent off) keeps
\* on counting; hasRedCard() does not see the difference.
Card(p, red) ==
    /\ up /\ pl[p].enabled
    /\ pl' = [pl EXCEPT ![p] = IF red THEN redCard(@)
                               ELSE IF @.cards = 2 THEN @ ELSE yellowCard(@)]
    /\ UNCHANGED <<team, coach, mons, gone, live, up>>

\* Team::substitute, for the coaches and monitors; a player that is not on the
\* pitch may be substituted as well.
substitute(p) ==
    /\ up /\ Num(p) <= team[TeamOf(p)].size
    /\ pl' = [pl EXCEPT ![p].cards = 0]
    /\ UNCHANGED <<team, coach, mons, gone, live, up>>

EnabledGoalies(s) == {i \in 1..MaxPlayer : pl[<<s, i>>].enabled /\ pl[<<s, i>>].goalie}

NoGoalieInPlay(s) == EnabledGoalies(s) \cap (1 .. team[s].size) = {}

changePlayerToGoalie(p) ==
    /\ up /\ NoGoalieInPlay(TeamOf(p))
    /\ Num(p) <= team[TeamOf(p)].size /\ pl[p].enabled
    /\ pl' = [pl EXCEPT ![p].goalie = TRUE]
    /\ UNCHANGED <<team, coach, mons, gone, live, up>>

------------------------------------------------------------------------------
(* Coaches and monitors.                                                    *)

\* initCoach opens a new socket every time.
initCoach(r, a, bad, opens, connects) ==
    LET o == Opened(r.sock, opens)
        c == IF opens THEN Connected(o, a, connects) ELSE o
    IN  [sock |-> c, assigned |-> r.assigned \/ (c = a /\ ~ bad), listed |-> c = a /\ ~ bad]

TrainerInit(a, bad, opens, connects) ==
    /\ up /\ ~ coach["trainer"].listed
    /\ coach' = [coach EXCEPT !["trainer"] = initCoach(@, a, bad, opens, connects)]
    /\ UNCHANGED <<pl, team, mons, gone, live, up>>

\* initOnlineCoach does not: once its socket is closed, nobody can become the
\* coach of the team again.
initOnlineCoach(r, a, bad, connects) ==
    LET c == Connected(r.sock, a, connects)
    IN  [sock |-> c, assigned |-> c = a /\ ~ bad, listed |-> c = a /\ ~ bad]

OnlineCoachInit(s, a, bad, connects) ==
    /\ up /\ team[s].name # "" /\ ~ coach[s].assigned
    /\ coach' = [coach EXCEPT ![s] = initOnlineCoach(@, a, bad, connects)]
    /\ UNCHANGED <<pl, team, mons, gone, live, up>>

\* With its (bye) a coach gives up its seat at once; one that is lost only in
\* removeDisconnectedClients.
GivesUp(r, said) == [close(r) EXCEPT !.assigned = @ /\ ~ said]

CoachLeaves(c, said) ==
    /\ up /\ coach[c].listed /\ connected(coach[c])
    /\ coach' = [coach EXCEPT ![c] = GivesUp(@, said)]
    /\ UNCHANGED <<pl, team, mons, gone, live, up>>

MonitorInit(a) ==
    /\ up /\ ~ Served(a)
    /\ MaxMonitors > 0 => Cardinality(mons) + gone < MaxMonitors
    /\ mons' = mons \cup {a}
    /\ UNCHANGED <<pl, team, coach, gone, live, up>>

MonitorLeaves(a) ==
    /\ up /\ a \in mons
    /\ mons' = mons \ {a}
    /\ gone' = gone + 1
    /\ UNCHANGED <<pl, team, coach, live, up>>

\* The end of doRecvFromClients.
SweptClosing(r) == IF r.listed > 0 /\ ~ connected(r)
                   THEN [close(r) EXCEPT !.listed = 0] ELSE r
Swept(r) == IF r.listed > 0 /\ ~ connected(r)
            THEN [disable(r) EXCEPT !.listed = 0] ELSE r

removeDisconnectedClients ==
    /\ up
    /\ pl' = [p \in Slots |-> Swept(pl[p])]
    /\ coach' = [c \in Seats |->
           IF coach[c].listed /\ ~ connected(coach[c])
           THEN [sock |-> coach[c].sock, assigned |-> FALSE, listed |-> FALSE]
           ELSE coach[c]]
    /\ gone' = 0
    /\ UNCHANGED <<team, mons, live, up>>

\* The referees open and stop play (MatchClock).
PlayModeChange ==
    /\ up /\ live' = ~ live
    /\ UNCHANGED <<pl, team, coach, mons, gone, up>>

PlayerNext ==
    \/ \E a \in Addrs, n \in Names, g, bad \in BOOLEAN, ok \in Works :
           PlayerInit(a, n, g, bad, ok)
    \/ \E p \in Slots :
        \/ \E a \in Addrs, o, c \in Works : PlayerReconnect(a, p, o, c)
        \/ bye(p) \/ Drop(p) \/ discardPlayer(p)
        \/ \E red \in BOOLEAN : Card(p, red)
        \/ substitute(p) \/ changePlayerToGoalie(p)

CoachNext ==
    \/ \E a \in Addrs, bad \in BOOLEAN, o, c \in Works : TrainerInit(a, bad, o, c)
    \/ \E s \in Sides, a \in Addrs, bad \in BOOLEAN, c \in Works :
           OnlineCoachInit(s, a, bad, c)
    \/ \E c \in Seats, said \in BOOLEAN : CoachLeaves(c, said)
    \/ \E a \in Addrs : MonitorInit(a) \/ MonitorLeaves(a)

ClientsNext ==
    PlayerNext \/ CoachNext \/ removeDisconnectedClients \/ PlayModeChange

ClientsSpec == ClientsInit /\ [][ClientsNext]_cvars

------------------------------------------------------------------------------
(* Properties.                                                              *)

\* Whoever plays is served: an enabled player has an entry in M_remote_players,
\* through which his commands are read, and an entry with a living connection
\* belongs to an enabled player or to one whose version was refused.  No two
\* players are served at one address (the commands of the second would go to
\* the first), and a coach that holds a seat has an entry, so that the seat
\* becomes free when he is lost.
EnabledIsServed ==
    /\ \A p \in Slots :
        /\ pl[p].enabled => pl[p].listed > 0
        /\ pl[p].listed > 0 /\ connected(pl[p]) => pl[p].enabled \/ pl[p].bad
    /\ \A p, q \in Slots :
        (pl[p].listed > 0 /\ pl[q].listed > 0 /\ pl[p].sock = pl[q].sock
            /\ connected(pl[p])) => p = q
    /\ \A c \in Seats : coach[c].assigned => coach[c].listed

\* A player that was sent off comes back only by an init for a number that no
\* client had taken before; while nobody substitutes him, he cannot reconnect.
SentOffNotBack ==
    [][\A p \in Slots :
         pl[p].cards = 2 /\ ~ pl[p].enabled /\ pl'[p].enabled
             => Num(p) > team[TeamOf(p)].size]_cvars
=============================================================================
