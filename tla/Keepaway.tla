------------------------------ MODULE Keepaway ------------------------------
(***************************************************************************)
(* The keepaway game: the left team, the keepers, holds the ball in a      *)
(* small area against the right one, the takers.  KeepawayRef looks at the *)
(* ball once in a cycle of play, ends an episode when it has left the area *)
(* or the takers have it, writes a row of the .kwy log and puts everybody  *)
(* back.  It counts the players once, when play begins for the first time; *)
(* players join and leave at any time, and the other referees and an       *)
(* operator change the play mode in between.                               *)
(*                                                                         *)
(* half_time is -1, as advised for this game: TimeRef never ends it.       *)
(***************************************************************************)
EXTENDS Integers, Sequences, FiniteSets

CONSTANTS
    Keepers,        \* the left side's numbers, 1 .. n
    Takers,         \* the right side's players
    KawayStart,     \* is server::keepaway_start >= 0?
    TurnoverTime,   \* KeepawayRef::TURNOVER_TIME
    MaxClock        \* bound: cycles of play

ASSUME KeepawayAssumption ==
    /\ IsFiniteSet(Keepers) /\ Keepers = 1 .. Cardinality(Keepers)
    /\ IsFiniteSet(Takers) /\ KawayStart \in BOOLEAN
    /\ TurnoverTime \in Nat \ {0} /\ MaxClock \in Nat

VARIABLES
    kmode,      \* the play mode: before the kick-off, on, a set play (the
                \* clock runs) or a stop (it does not)
    kclock,     \* Stadium::M_time
    pitch,      \* players that are enabled
    kaway,      \* KeepawayRef: M_episode, M_keepers, M_takers, M_time, M_take_time
    corner,     \* where the keepers were put at the last reset
    rows,       \* the .kwy log
    reaches,    \* history: whose reach the ball was in, since the last reset
    died        \* the process was stopped by a division by zero

wvars == <<kmode, kclock, pitch, kaway, corner, rows, reaches, died>>

KeepawayInit ==
    /\ kmode = "before" /\ kclock = 0 /\ pitch = {}
    /\ kaway = [episode |-> 0, keepers |-> 0, takers |-> 0, time |-> 0, take |-> 0]
    /\ corner = <<>> /\ rows = <<>> /\ reaches = <<>> /\ died = FALSE

-----------------------------------------------------------------------------
\* The corners of the keepers, from a random one on, by the count that was
\* made when play began; everybody else stands where takers do.
Rank(k) == Cardinality({j \in pitch \cap Keepers : j < k})
resetField(w) ==
    /\ died' = (w.keepers = 0 /\ pitch \cap Keepers # {})
    /\ IF died' THEN UNCHANGED corner
       ELSE \E first \in 0 .. (IF w.keepers <= 1 THEN 0 ELSE w.keepers - 1) :
              corner' = [k \in pitch \cap Keepers |-> (first + Rank(k)) % w.keepers]
    /\ kaway' = [w EXCEPT !.take = 0]
    /\ reaches' = <<>>

\* Takes of the ball since a keeper last had it to himself.
Takes(s) ==
    LET last == {i \in DOMAIN s : s[i] = "keeper"}
    IN  Cardinality({i \in DOMAIN s : s[i] = "taker" /\ \A j \in last : j < i})

logEpisodeKeepingTime(w, t) == [w EXCEPT !.episode = @ + 1]
logEpisode(w, t) == [w EXCEPT !.episode = @ + 1, !.time = t]
writeKeepawayLog(t, cond) ==
    rows' = Append(rows, [episode |-> kaway.episode, start |-> kaway.time, end |-> t,
                          cond |-> cond, takes |-> Takes(reaches)])

EndEpisode(t, cond) ==
    /\ writeKeepawayLog(t, cond)
    /\ resetField(logEpisode(kaway, t))
    /\ UNCHANGED kmode

\* The ball is in the reach of a taker, of keepers only, or of nobody.
Possession(reach) ==
    /\ kaway' = [kaway EXCEPT !.take = CASE reach = "taker" -> @ + 1
                                         [] reach = "keeper" -> 0 [] OTHER -> @]
    /\ reaches' = Append(reaches, reach)
    /\ UNCHANGED <<kmode, corner, rows, died>>

\* The first change to play: the players are counted, once.
playModeChange(pm) ==
    /\ kmode' = pm
    /\ IF pm = "on" /\ kaway.episode = 0
       THEN resetField([kaway EXCEPT !.episode = 1,
                                     !.keepers = Cardinality(pitch \cap Keepers),
                                     !.takers = Cardinality(pitch \cap Takers)])
       ELSE UNCHANGED <<kaway, corner, reaches, died>>
    /\ UNCHANGED rows

\* KeepawayRef::analyse at the time t of the clock.
analyse(t, inArea, reach, started) ==
    IF kmode = "on"
    THEN IF ~ inArea THEN EndEpisode(t, "o")
         ELSE IF kaway.take >= TurnoverTime THEN EndEpisode(t, "t")
         ELSE Possession(reach)
    ELSE IF KawayStart /\ started THEN playModeChange("on")
    ELSE UNCHANGED <<kmode, kaway, corner, rows, reaches, died>>

\* Stadium::step; a stop that ends in this cycle moves the clock afterwards.
KeepawayCycle(inArea, reach, started) ==
    /\ ~ died /\ kclock < MaxClock
    /\ reach = "taker" => pitch \cap Takers # {}
    /\ reach = "keeper" => pitch \cap Keepers # {}
    /\ analyse(IF kmode \in {"on", "set_play"} THEN kclock + 1 ELSE kclock,
               inArea, reach, started)
    /\ kclock' = IF kmode \in {"on", "set_play"} \/ (kmode = "stop" /\ kmode' # "stop")
                 THEN kclock + 1 ELSE kclock
    /\ UNCHANGED pitch

\* A set play or a stop called by another referee or an operator, and play
\* again: Stadium::kickOff changes to play in this game.
OtherMode(pm) ==
    /\ ~ died /\ pm # kmode
    /\ playModeChange(pm)
    /\ UNCHANGED <<kclock, pitch>>

KeepawayPlayers(p) ==
    /\ ~ died
    /\ pitch' = IF p \in pitch THEN pitch \ {p} ELSE pitch \cup {p}
    /\ UNCHANGED <<kmode, kclock, kaway, corner, rows, reaches, died>>

KeepawayNext ==
    \/ \E inArea, started \in BOOLEAN, reach \in {"taker", "keeper", "nobody"} :
           KeepawayCycle(inArea, reach, started)
    \/ \E pm \in {"on", "set_play", "stop"} : OtherMode(pm)
    \/ \E p \in Keepers \cup Takers : KeepawayPlayers(p)

KeepawaySpec == KeepawayInit /\ [][KeepawayNext]_wvars

-----------------------------------------------------------------------------
\* Through stops, set plays and players that come and go, the rows of the .kwy
\* log are numbered one after the other, each begins where the last one ended
\* and is not negative; a row says "taken" only if the takers reached the ball
\* in TURNOVER_TIME cycles since a keeper last had it alone or the field was
\* reset; and as long as no more keepers are on the pitch than were counted
\* when play began, no two of them are put into the same corner.
KeepawayEpisodes ==
    /\ \A i \in DOMAIN rows :
          /\ rows[i].episode = i
          /\ rows[i].start = IF i = 1 THEN 0 ELSE rows[i - 1].end
          /\ rows[i].start <= rows[i].end
          /\ rows[i].takes <= TurnoverTime
          /\ rows[i].cond = "t" => rows[i].takes = TurnoverTime
    /\ Cardinality(DOMAIN corner) <= kaway.keepers =>
          \A j, k \in DOMAIN corner : corner[j] = corner[k] => j = k
=============================================================================
