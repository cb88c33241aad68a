---------------------------- MODULE ServerProofs ----------------------------
(***************************************************************************)
(* Proofs about the connections of the clients, the keepaway game, the     *)
(* start-up of the server, and what monitors and game log are told, for    *)
(* every number of players, addresses, names, files, values, monitors and  *)
(* goals, and without the bounds of the model checker's runs.              *)
(***************************************************************************)
EXTENDS Clients, Keepaway, Conf, Display, FiniteSetTheorems, WellFoundedInduction, TLAPS

------------------------------------------------------------------------------
(* Clients: a step changes one player, the coaches, or sweeps the lists.    *)

PlRec == [sock : Sockets, enabled : BOOLEAN, goalie : BOOLEAN, bad : BOOLEAN,
          cards : 0..2, listed : 0..MaxListed]
CoachRec == [sock : Sockets, assigned : BOOLEAN, listed : BOOLEAN]

\* What EnabledIsServed says of a single player.
PlayerServed(r) ==
    /\ r.enabled => r.listed > 0
    /\ r.listed > 0 /\ connected(r) => r.enabled \/ r.bad

ClientsInv == ClientsTypeOK /\ EnabledIsServed

\* A player is replaced by a record that keeps his address, or has none, or
\* has one that nobody is served at.
LEMMA OnePlayerChanges ==
    ASSUME ClientsInv, NEW p \in Slots, NEW r \in PlRec,
           pl' = [pl EXCEPT ![p] = r], PlayerServed(r),
           \/ ~ connected(r) \/ r.listed = 0 \/ ~ Served(r.sock)
           \/ r.sock = pl[p].sock /\ pl[p].listed > 0,
           UNCHANGED coach
    PROVE  /\ pl' \in [Slots -> PlRec]
           /\ EnabledIsServed'
<1> USE DEF ClientsInv
<1>1. pl \in [Slots -> PlRec] /\ pl' \in [Slots -> PlRec]
  BY DEF ClientsTypeOK, PlRec
<1>2. pl'[p] = r /\ \A q \in Slots : q # p => pl'[q] = pl[q]
  BY <1>1
<1>3. ASSUME NEW q \in Slots PROVE PlayerServed(pl'[q])
  <2>1. CASE q = p
    BY <1>2, <2>1
  <2>2. CASE q # p
    BY <1>2, <2>2 DEF EnabledIsServed, PlayerServed
  <2> QED  BY <2>1, <2>2
<1>4. ASSUME NEW q \in Slots, q # p, connected(r), r.listed > 0
      PROVE  ~ (pl[q].listed > 0 /\ pl[q].sock = r.sock)
  <2>1. r.listed # 0
    BY <1>4 DEF PlRec
  <2>2. CASE ~ Served(r.sock)
    BY <2>2 DEF Served
  <2>3. CASE r.sock = pl[p].sock /\ pl[p].listed > 0
    BY <1>4, <2>3 DEF EnabledIsServed, connected
  <2> QED  BY <1>4, <2>1, <2>2, <2>3
<1>5. ASSUME NEW x \in Slots, NEW y \in Slots, pl'[x].listed > 0, pl'[y].listed > 0,
             pl'[x].sock = pl'[y].sock, connected(pl'[x])
      PROVE  x = y
  <2>1. CASE x = p /\ y # p
    BY <1>2, <1>4, <1>5, <2>1
  <2>2. CASE x # p /\ y = p
    BY <1>2, <1>4, <1>5, <2>2 DEF connected
  <2>3. CASE x # p /\ y # p
    BY <1>2, <1>5, <2>3 DEF EnabledIsServed
  <2> QED  BY <2>1, <2>2, <2>3
<1>6. \A c \in Seats : coach'[c].assigned => coach'[c].listed
  BY DEF EnabledIsServed
<1> QED  BY <1>1, <1>3, <1>5, <1>6 DEF EnabledIsServed, PlayerServed, connected

\* The step of the socket: what Connected and Opened return.
LEMMA SocketResults ==
    ASSUME NEW sock \in Sockets, NEW a \in Addrs, NEW ok
    PROVE  /\ Connected(sock, a, ok) \in Sockets
           /\ Connected(sock, a, ok) \in Addrs => Connected(sock, a, ok) = a
           /\ Connected(sock, a, ok) = a => sock # "closed" 
           /\ Opened(sock, ok) \in {"idle", "broken", "closed"}
           /\ Opened(sock, ok) \in Sockets
BY ClientsAssumption DEF Connected, Opened, Sockets

\* The operations of RemoteClient on a player.
LEMMA RecordResults ==
    ASSUME NEW r \in PlRec
    PROVE  /\ close(r) \in PlRec /\ ~ connected(close(r)) /\ close(r).listed = r.listed
           /\ close(r).enabled = r.enabled /\ close(r).bad = r.bad
           /\ disable(r) \in PlRec /\ ~ connected(disable(r)) /\ disable(r).enabled = FALSE
           /\ disable(r).listed = r.listed /\ disable(r).cards = r.cards
BY ClientsAssumption DEF PlRec, Sockets, close, disable, connected

\* Player::init, reconnectPlayer and everything else that happens to a player.
LEMMA PlayerInitServed ==
    ASSUME ClientsInv, NEW a \in Addrs, NEW n \in Names, NEW g \in BOOLEAN, NEW bad \in BOOLEAN,
           NEW ok, PlayerInit(a, n, g, bad, ok)
    PROVE  /\ ClientsInv'
           /\ \A q \in Slots : ~ pl[q].enabled /\ pl'[q].enabled => Num(q) > team[TeamOf(q)].size
<1>0. MaxPlayer \in Nat /\ MaxListed \in Nat
  BY ClientsAssumption
<1>1. /\ pl \in [Slots -> PlRec] /\ team \in [Sides -> [name : Names \cup {""}, size : 0..MaxPlayer]]
      /\ EnabledIsServed /\ ClientsTypeOK
  BY DEF ClientsInv, ClientsTypeOK, PlRec
<1>2. up /\ ~ Served(a) /\ UNCHANGED <<coach, mons, gone, live>>
  BY DEF PlayerInit
<1>3. PICK s \in TeamFor(n) :
         LET p == <<s, team[s].size + 1>>
             r == [pl[p] EXCEPT !.goalie = g, !.bad = bad, !.enabled = TRUE]
             named == [team EXCEPT ![s].name = n]
         IN  \/ /\ Refused(s, g)
                /\ team' = named
                /\ UNCHANGED <<pl, up>>
             \/ /\ ~ Refused(s, g) /\ bad
                /\ team' = named
                /\ pl' = [pl EXCEPT ![p] = disable(r)]
                /\ UNCHANGED up
             \/ /\ ~ Refused(s, g) /\ ~ bad /\ pl[p].sock = "closed"
                /\ up' = FALSE
                /\ UNCHANGED <<team, pl>>
             \/ /\ ~ Refused(s, g) /\ ~ bad /\ pl[p].sock # "closed"
                /\ pl[p].listed < MaxListed
                /\ team' = [named EXCEPT ![s].size = @ + 1]
                /\ LET c == [r EXCEPT !.sock = Connected(@, a, ok)]
                   IN  pl' = [pl EXCEPT ![p] =
                                 IF connected(c)
                                 THEN [c EXCEPT !.listed = @ + 1]
                                 ELSE disable(c)]
                /\ UNCHANGED up
  BY DEF PlayerInit
<1> DEFINE p == <<s, team[s].size + 1>>
           r == [pl[p] EXCEPT !.goalie = g, !.bad = bad, !.enabled = TRUE]
           c == [r EXCEPT !.sock = Connected(@, a, ok)]
           named == [team EXCEPT ![s].name = n]
           t == IF connected(c) THEN [c EXCEPT !.listed = @ + 1] ELSE disable(c)
<1>4. s \in Sides /\ team[s].size \in 0..MaxPlayer
  <2>1. s \in Sides
    BY <1>3 DEF TeamFor, Sides
  <2> QED  BY <1>1, <2>1
<1>5. named \in [Sides -> [name : Names \cup {""}, size : 0..MaxPlayer]]
      /\ named[s].size = team[s].size
  BY <1>1, <1>4
<1>6. ~ Refused(s, g) => p \in Slots /\ Num(p) > team[TeamOf(p)].size
  <2>1. TeamOf(p) = s /\ Num(p) = team[s].size + 1
    BY DEF Num, TeamOf
  <2>2. ~ Refused(s, g) => team[s].size + 1 \in 1..MaxPlayer
    <3>1. ~ Refused(s, g) => ~ (team[s].size >= MaxPlayer)
      BY DEF Refused
    <3> QED  BY <1>0, <1>4, <3>1
  <2>3. ~ Refused(s, g) => p \in Sides \X (1..MaxPlayer)
    BY <1>4, <2>2
  <2>4. Num(p) > team[TeamOf(p)].size
    BY <1>4, <2>1
  <2> QED  BY <2>3, <2>4 DEF Slots
<1>7. CASE UNCHANGED pl /\ team' \in {named, team}
  <2>1. EnabledIsServed'
    BY <1>1, <1>2, <1>7 DEF EnabledIsServed, connected
  <2>2. up' \in BOOLEAN
    BY <1>1, <1>3, <1>7 DEF ClientsTypeOK
  <2> QED  BY <1>1, <1>2, <1>5, <1>7, <2>1, <2>2 DEF ClientsTypeOK, ClientsInv
<1>8. CASE /\ ~ Refused(s, g) /\ bad
           /\ team' = named /\ pl' = [pl EXCEPT ![p] = disable(r)] /\ UNCHANGED up
  <2>1. r \in PlRec
    BY <1>1, <1>6, <1>8 DEF PlRec
  <2> HIDE DEF r, p
  <2>2. disable(r) \in PlRec /\ ~ connected(disable(r)) /\ disable(r).enabled = FALSE
    BY <2>1, RecordResults
  <2>3. PlayerServed(disable(r))
    BY <2>2 DEF PlayerServed
  <2>4. pl' \in [Slots -> PlRec] /\ EnabledIsServed'
    BY <1>2, <1>6, <1>8, <2>2, <2>3, OnePlayerChanges
  <2>5. \A q \in Slots : ~ pl[q].enabled /\ pl'[q].enabled => Num(q) > team[TeamOf(q)].size
    BY <1>1, <1>6, <1>8, <2>2
  <2> QED  BY <1>1, <1>2, <1>5, <1>8, <2>4, <2>5 DEF ClientsTypeOK, PlRec, ClientsInv
<1>9. CASE /\ ~ Refused(s, g) /\ ~ bad /\ pl[p].listed < MaxListed
           /\ team' = [named EXCEPT ![s].size = @ + 1]
           /\ pl' = [pl EXCEPT ![p] = t] /\ UNCHANGED up
  <2>1. c \in PlRec /\ c.listed < MaxListed /\ (connected(c) => c.sock = a) /\ c.enabled = TRUE
    <3>1. pl[p] \in PlRec
      BY <1>1, <1>6, <1>9
    <3>2. r \in PlRec /\ r.sock = pl[p].sock /\ r.listed = pl[p].listed /\ r.enabled = TRUE
      BY <3>1 DEF PlRec
    <3> HIDE DEF r
    <3>3. /\ Connected(r.sock, a, ok) \in Sockets
          /\ Connected(r.sock, a, ok) \in Addrs => Connected(r.sock, a, ok) = a
      <4>1. r.sock \in Sockets
        BY <3>2 DEF PlRec
      <4> QED  BY <4>1, SocketResults
    <3>4. /\ c \in PlRec /\ c.sock = Connected(r.sock, a, ok) /\ c.listed = r.listed
          /\ c.enabled = TRUE
      BY <3>2, <3>3 DEF PlRec
    <3> HIDE DEF c
    <3> QED  BY <1>9, <3>2, <3>3, <3>4 DEF connected
  <2>2. team' \in [Sides -> [name : Names \cup {""}, size : 0..MaxPlayer]]
    <3> HIDE DEF named
    <3>1. team[s].size + 1 \in 0..MaxPlayer
      <4>1. p \in Slots
        BY <1>6, <1>9
      <4> QED  BY <1>0, <4>1 DEF Slots
    <3> QED  BY <1>4, <1>5, <1>9, <3>1
  <2> HIDE DEF c, p, named
  <2>3. /\ t \in PlRec /\ PlayerServed(t)
        /\ ~ connected(t) \/ t.sock = a
    <3>1. CASE connected(c)
      <4>1. t = [c EXCEPT !.listed = @ + 1]
        BY <3>1
      <4>2. c.listed \in Nat /\ c.listed + 1 \in 0..MaxListed /\ c.listed + 1 > 0
        <5>1. c.listed \in 0..MaxListed
          BY <2>1 DEF PlRec
        <5> QED  BY <1>0, <2>1, <5>1
      <4>3. t \in PlRec /\ t.listed = c.listed + 1 /\ t.sock = c.sock /\ t.enabled = TRUE
        BY <2>1, <4>1, <4>2 DEF PlRec
      <4> HIDE DEF t
      <4> QED  BY <2>1, <3>1, <4>2, <4>3 DEF PlayerServed
    <3>2. CASE ~ connected(c)
      <4>1. t = disable(c)
        BY <3>2
      <4>2. disable(c) \in PlRec /\ ~ connected(disable(c)) /\ disable(c).enabled = FALSE
        BY <2>1, RecordResults
      <4> QED  BY <4>1, <4>2 DEF PlayerServed
    <3> QED  BY <3>1, <3>2
  <2> HIDE DEF t
  <2>4. pl' \in [Slots -> PlRec] /\ EnabledIsServed'
    BY <1>2, <1>6, <1>9, <2>3, OnePlayerChanges
  <2>5. \A q \in Slots : ~ pl[q].enabled /\ pl'[q].enabled => Num(q) > team[TeamOf(q)].size
    BY <1>1, <1>6, <1>9
  <2> QED  BY <1>1, <1>2, <1>9, <2>2, <2>4, <2>5 DEF ClientsTypeOK, PlRec, ClientsInv
<1> HIDE DEF p, r, c, named, t
<1> QED  BY <1>3, <1>7, <1>8, <1>9 DEF p, r, c, named, t

LEMMA PlayerReconnectServed ==
    ASSUME ClientsInv, NEW a \in Addrs, NEW p \in Slots, NEW o, NEW k, PlayerReconnect(a, p, o, k)
    PROVE  /\ ClientsInv'
           /\ \A q \in Slots : ~ pl[q].enabled /\ pl'[q].enabled => pl[q].cards < 2
<1> DEFINE x == Opened(pl[p].sock, o)
           c == IF o THEN Connected(x, a, k) ELSE x
           r == [pl[p] EXCEPT !.sock = c,
                              !.listed = IF c = a /\ ~ pl[p].bad THEN @ + 1 ELSE @,
                              !.enabled = @ \/ (c = a /\ ~ pl[p].bad)]
<1>0. MaxListed \in Nat
  BY ClientsAssumption
<1>1. pl[p] \in PlRec /\ pl \in [Slots -> PlRec] /\ EnabledIsServed /\ ClientsTypeOK
  BY DEF ClientsInv, ClientsTypeOK, PlRec
<1>2. /\ ~ Served(a) /\ pl[p].cards < 2 /\ pl[p].listed < MaxListed
      /\ UNCHANGED <<team, coach, mons, gone, live, up>>
  BY DEF PlayerReconnect, MayReconnect
<1>3. pl' = [pl EXCEPT ![p] = r]
  BY DEF PlayerReconnect
<1>4. c \in Sockets /\ (c \in Addrs => c = a)
  <2>1. pl[p].sock \in Sockets
    BY <1>1 DEF PlRec
  <2>2. x \in Sockets /\ x \in {"idle", "broken", "closed"} /\ x \notin Addrs
    BY <2>1, SocketResults, ClientsAssumption
  <2> HIDE DEF x
  <2> QED  BY <2>2, SocketResults
<1> HIDE DEF c
<1>5. /\ pl[p].listed \in Nat /\ pl[p].listed + 1 \in 0..MaxListed
      /\ pl[p].listed \in 0..MaxListed /\ pl[p].listed + 1 > 0
      /\ pl[p].bad \in BOOLEAN /\ pl[p].enabled \in BOOLEAN
  BY <1>0, <1>1, <1>2 DEF PlRec
<1>6. /\ r \in PlRec /\ r.sock = c /\ r.bad = pl[p].bad
      /\ r.listed = (IF c = a /\ ~ pl[p].bad THEN pl[p].listed + 1 ELSE pl[p].listed)
      /\ r.enabled <=> pl[p].enabled \/ (c = a /\ ~ pl[p].bad)
  BY <1>1, <1>4, <1>5 DEF PlRec
<1> HIDE DEF r
<1>7. PlayerServed(r)
  <2>1. pl[p].enabled => pl[p].listed > 0
    BY <1>1 DEF EnabledIsServed
  <2>2. CASE c = a /\ ~ pl[p].bad
    BY <1>5, <1>6, <2>2 DEF PlayerServed
  <2>3. CASE ~ (c = a /\ ~ pl[p].bad)
    BY <1>4, <1>5, <1>6, <2>1, <2>3 DEF PlayerServed, connected
  <2> QED  BY <2>2, <2>3
<1>8. pl' \in [Slots -> PlRec] /\ EnabledIsServed'
  <2>1. ~ connected(r) \/ ~ Served(r.sock)
    BY <1>2, <1>4, <1>6 DEF connected
  <2> QED  BY <1>2, <1>3, <1>6, <1>7, <2>1, OnePlayerChanges
<1>9. \A q \in Slots : q # p => pl'[q] = pl[q]
  BY <1>1, <1>3
<1> QED  BY <1>1, <1>2, <1>8, <1>9 DEF ClientsTypeOK, PlRec, ClientsInv

\* The other operations on a player.
LEMMA PlayerOthersServed ==
    ASSUME ClientsInv, NEW p \in Slots,
           \/ bye(p) \/ Drop(p) \/ discardPlayer(p) \/ \E red \in BOOLEAN : Card(p, red)
           \/ substitute(p) \/ changePlayerToGoalie(p)
    PROVE  /\ ClientsInv'
           /\ \A q \in Slots : pl'[q].enabled => pl[q].enabled
<1>1. pl[p] \in PlRec /\ pl \in [Slots -> PlRec] /\ EnabledIsServed /\ ClientsTypeOK
  BY DEF ClientsInv, ClientsTypeOK, PlRec
<1>2. PlayerServed(pl[p])
  BY <1>1 DEF EnabledIsServed, PlayerServed
<1>3. UNCHANGED <<team, coach, mons, gone, live, up>>
  BY DEF bye, Drop, discardPlayer, Card, substitute, changePlayerToGoalie
<1>4. ASSUME NEW r \in PlRec, pl' = [pl EXCEPT ![p] = r], PlayerServed(r),
             ~ connected(r) \/ (r.sock = pl[p].sock /\ r.listed = pl[p].listed),
             r.enabled => pl[p].enabled
      PROVE  ClientsInv' /\ \A q \in Slots : pl'[q].enabled => pl[q].enabled
  <2>1. \/ ~ connected(r) \/ r.listed = 0
        \/ (r.sock = pl[p].sock /\ pl[p].listed > 0)
    <3>1. pl[p].listed = 0 \/ pl[p].listed > 0
      <4>1. MaxListed \in Nat /\ pl[p].listed \in 0..MaxListed
        BY <1>1, ClientsAssumption DEF PlRec
      <4> QED  BY <4>1
    <3> QED  BY <1>4, <3>1
  <2>2. pl' \in [Slots -> PlRec] /\ EnabledIsServed'
    BY <1>3, <1>4, <2>1, OnePlayerChanges
  <2>3. \A q \in Slots : pl'[q].enabled => pl[q].enabled
    BY <1>1, <1>4
  <2> QED  BY <1>1, <1>3, <2>2, <2>3 DEF ClientsTypeOK, PlRec, ClientsInv
<1>5. ASSUME NEW r \in PlRec, r.enabled => r.listed > 0
      PROVE  PlayerServed(disable(r)) /\ PlayerServed(close(r))
  BY <1>5, RecordResults DEF PlayerServed
<1>6. /\ disable(pl[p]) \in PlRec /\ PlayerServed(disable(pl[p])) /\ ~ connected(disable(pl[p]))
      /\ disable(pl[p]).enabled = FALSE
      /\ close(pl[p]) \in PlRec /\ PlayerServed(close(pl[p])) /\ ~ connected(close(pl[p]))
      /\ close(pl[p]).enabled = pl[p].enabled
  BY <1>1, <1>2, <1>5, RecordResults DEF PlayerServed
<1>7. CASE bye(p) \/ discardPlayer(p)
  <2>1. pl' = [pl EXCEPT ![p] = disable(pl[p])]
    BY <1>7 DEF bye, discardPlayer
  <2> QED  BY <1>4, <1>6, <2>1
<1>8. CASE Drop(p)
  <2>1. pl' = [pl EXCEPT ![p] = close(pl[p])]
    BY <1>8 DEF Drop
  <2> QED  BY <1>4, <1>6, <2>1
<1>9. ASSUME NEW red \in BOOLEAN, Card(p, red)
      PROVE  ClientsInv' /\ \A q \in Slots : pl'[q].enabled => pl[q].enabled
  <2>1. /\ redCard(pl[p]) \in PlRec /\ PlayerServed(redCard(pl[p]))
        /\ ~ connected(redCard(pl[p])) /\ redCard(pl[p]).enabled = FALSE
    <3> DEFINE d == disable(pl[p])
    <3>1. d \in PlRec /\ ~ connected(d) /\ d.enabled = FALSE
      BY <1>6
    <3> HIDE DEF d
    <3>2. redCard(pl[p]) = [d EXCEPT !.cards = 2]
      BY DEF redCard, d
    <3>3. redCard(pl[p]) \in PlRec /\ redCard(pl[p]).sock = d.sock
          /\ redCard(pl[p]).enabled = FALSE
      BY <3>1, <3>2 DEF PlRec
    <3> QED  BY <3>1, <3>3 DEF PlayerServed, connected
  <2> DEFINE y == [pl[p] EXCEPT !.cards = @ + 1]
  <2>2. pl[p].cards = 0 => /\ y \in PlRec /\ y.sock = pl[p].sock /\ y.listed = pl[p].listed
                           /\ y.enabled = pl[p].enabled /\ y.bad = pl[p].bad
    BY <1>1 DEF PlRec
  <2>3. pl' = [pl EXCEPT ![p] = IF red THEN redCard(pl[p])
                                ELSE IF pl[p].cards = 2 THEN pl[p]
                                ELSE IF pl[p].cards = 1 THEN redCard(pl[p]) ELSE y]
    BY <1>9 DEF Card, yellowCard
  <2> HIDE DEF y
  <2>4. CASE red \/ pl[p].cards = 1
    <3>1. pl' = [pl EXCEPT ![p] = redCard(pl[p])]
      <4>1. CASE red
        BY <2>3, <4>1
      <4>2. CASE ~ red
        <5>1. pl[p].cards = 1 /\ pl[p].cards # 2
          BY <2>4, <4>2
        <5> QED  BY <2>3, <4>2, <5>1
      <4> QED  BY <4>1, <4>2
    <3> QED  BY <1>4, <2>1, <3>1
  <2>5. CASE ~ red /\ pl[p].cards = 2
    <3>1. pl' = [pl EXCEPT ![p] = pl[p]]
      BY <2>3, <2>5
    <3> QED  BY <1>1, <1>2, <1>4, <3>1
  <2>6. CASE ~ red /\ pl[p].cards = 0
    <3>1. pl' = [pl EXCEPT ![p] = y]
      BY <2>3, <2>6
    <3>2. PlayerServed(y)
      BY <1>2, <2>2, <2>6 DEF PlayerServed, connected
    <3> QED  BY <1>4, <2>2, <2>6, <3>1, <3>2
  <2> QED  BY <1>1, <2>4, <2>5, <2>6 DEF PlRec
<1>10. CASE substitute(p)
  <2> DEFINE r == [pl[p] EXCEPT !.cards = 0]
  <2>1. pl' = [pl EXCEPT ![p] = r]
    BY <1>10 DEF substitute
  <2>2. /\ r \in PlRec /\ r.sock = pl[p].sock /\ r.listed = pl[p].listed
        /\ r.enabled = pl[p].enabled /\ r.bad = pl[p].bad
    BY <1>1 DEF PlRec
  <2> HIDE DEF r
  <2>3. PlayerServed(r)
    BY <1>2, <2>2 DEF PlayerServed, connected
  <2> QED  BY <1>4, <2>1, <2>2, <2>3
<1>11. CASE changePlayerToGoalie(p)
  <2> DEFINE r == [pl[p] EXCEPT !.goalie = TRUE]
  <2>1. pl' = [pl EXCEPT ![p] = r]
    BY <1>11 DEF changePlayerToGoalie
  <2>2. /\ r \in PlRec /\ r.sock = pl[p].sock /\ r.listed = pl[p].listed
        /\ r.enabled = pl[p].enabled /\ r.bad = pl[p].bad
    BY <1>1 DEF PlRec
  <2> HIDE DEF r
  <2>3. PlayerServed(r)
    BY <1>2, <2>2 DEF PlayerServed, connected
  <2> QED  BY <1>4, <2>1, <2>2, <2>3
<1> QED  BY <1>7, <1>8, <1>9, <1>10, <1>11

\* Coaches, monitors, the sweep and the play mode.
LEMMA OthersServed ==
    ASSUME ClientsInv, CoachNext \/ removeDisconnectedClients \/ PlayModeChange
    PROVE  ClientsInv' /\ \A q \in Slots : pl'[q].enabled => pl[q].enabled
<1>1. /\ pl \in [Slots -> PlRec] /\ coach \in [Seats -> CoachRec] /\ gone \in Nat
      /\ mons \subseteq Addrs /\ live \in BOOLEAN /\ up \in BOOLEAN
      /\ EnabledIsServed /\ ClientsTypeOK
  BY DEF ClientsInv, ClientsTypeOK, PlRec, CoachRec
<1>2. ASSUME NEW c \in Seats, NEW r \in CoachRec, coach' = [coach EXCEPT ![c] = r],
             r.assigned => r.listed, UNCHANGED <<pl, team, mons, gone, live, up>>
      PROVE  ClientsInv' /\ \A q \in Slots : pl'[q].enabled => pl[q].enabled
  <2>1. coach' \in [Seats -> CoachRec] /\ \A d \in Seats : coach'[d].assigned => coach'[d].listed
    BY <1>1, <1>2 DEF EnabledIsServed
  <2>2. EnabledIsServed'
    BY <1>1, <1>2, <2>1 DEF EnabledIsServed, connected
  <2> QED  BY <1>1, <1>2, <2>1, <2>2 DEF ClientsTypeOK, CoachRec, ClientsInv
<1>3. ASSUME NEW a \in Addrs, NEW bad \in BOOLEAN, NEW o, NEW k, TrainerInit(a, bad, o, k)
      PROVE  ClientsInv' /\ \A q \in Slots : pl'[q].enabled => pl[q].enabled
  <2> DEFINE t == coach["trainer"]
             x == Opened(t.sock, o)
             c == IF o THEN Connected(x, a, k) ELSE x
             r == [sock |-> c, assigned |-> t.assigned \/ (c = a /\ ~ bad),
                   listed |-> c = a /\ ~ bad]
  <2>1. t \in CoachRec /\ "trainer" \in Seats
    BY <1>1 DEF Seats
  <2>2. coach' = [coach EXCEPT !["trainer"] = r] /\ ~ t.listed
        /\ UNCHANGED <<pl, team, mons, gone, live, up>>
    BY <1>3 DEF TrainerInit, initCoach
  <2>3. ~ t.assigned
    BY <1>1, <2>1, <2>2 DEF EnabledIsServed
  <2>4. c \in Sockets
    <3>1. t.sock \in Sockets
      BY <2>1 DEF CoachRec
    <3>2. x \in Sockets
      BY <3>1, <1>3, SocketResults
    <3> HIDE DEF x
    <3> QED  BY <1>3, <3>2, SocketResults
  <2> HIDE DEF c, t
  <2>5. r \in CoachRec /\ (r.assigned => r.listed)
    BY <2>3, <2>4 DEF CoachRec
  <2> QED  BY <1>2, <2>1, <2>2, <2>5
<1>4. ASSUME NEW s \in Sides, NEW a \in Addrs, NEW bad \in BOOLEAN, NEW k,
             OnlineCoachInit(s, a, bad, k)
      PROVE  ClientsInv' /\ \A q \in Slots : pl'[q].enabled => pl[q].enabled
  <2> DEFINE c == Connected(coach[s].sock, a, k)
             r == [sock |-> c, assigned |-> c = a /\ ~ bad, listed |-> c = a /\ ~ bad]
  <2>1. coach' = [coach EXCEPT ![s] = r] /\ UNCHANGED <<pl, team, mons, gone, live, up>>
    BY <1>4 DEF OnlineCoachInit, initOnlineCoach
  <2>2. s \in Seats /\ coach[s].sock \in Sockets
    BY <1>1 DEF Seats, CoachRec
  <2>3. c \in Sockets
    BY <1>4, <2>2, SocketResults
  <2> HIDE DEF c
  <2>4. r \in CoachRec /\ (r.assigned => r.listed)
    BY <2>3 DEF CoachRec
  <2> QED  BY <1>2, <2>1, <2>2, <2>4
<1>5. ASSUME NEW c \in Seats, NEW said \in BOOLEAN, CoachLeaves(c, said)
      PROVE  ClientsInv' /\ \A q \in Slots : pl'[q].enabled => pl[q].enabled
  <2> DEFINE r == GivesUp(coach[c], said)
  <2>1. coach' = [coach EXCEPT ![c] = r] /\ UNCHANGED <<pl, team, mons, gone, live, up>>
        /\ coach[c].listed
    BY <1>5 DEF CoachLeaves
  <2>2. coach[c] \in CoachRec
    BY <1>1
  <2>3. r \in CoachRec /\ r.listed = coach[c].listed
    <3> DEFINE d == close(coach[c])
    <3>1. d \in CoachRec /\ d.listed = coach[c].listed
      BY <2>2 DEF CoachRec, close, Sockets
    <3>2. r = [d EXCEPT !.assigned = d.assigned /\ ~ said]
      BY DEF GivesUp
    <3> HIDE DEF d, r
    <3> QED  BY <3>1, <3>2 DEF CoachRec
  <2> HIDE DEF r
  <2> QED  BY <1>2, <2>1, <2>3
<1>6. ASSUME NEW a \in Addrs, MonitorInit(a) \/ MonitorLeaves(a)
      PROVE  ClientsInv' /\ \A q \in Slots : pl'[q].enabled => pl[q].enabled
  <2>1. mons' \subseteq Addrs /\ gone' \in Nat /\ UNCHANGED <<pl, team, coach, live, up>>
    BY <1>1, <1>6 DEF MonitorInit, MonitorLeaves
  <2>2. EnabledIsServed'
    BY <1>1, <2>1 DEF EnabledIsServed, connected
  <2> QED  BY <1>1, <2>1, <2>2 DEF ClientsTypeOK, ClientsInv
<1>7. CASE removeDisconnectedClients
  <2>1. pl' = [p \in Slots |-> Swept(pl[p])] /\ gone' = 0 /\ UNCHANGED <<team, mons, live, up>>
    BY <1>7 DEF removeDisconnectedClients
  <2>2. ASSUME NEW p \in Slots
        PROVE  /\ Swept(pl[p]) \in PlRec /\ PlayerServed(Swept(pl[p]))
               /\ Swept(pl[p]) = pl[p] \/ Swept(pl[p]).listed = 0
               /\ Swept(pl[p]).enabled => pl[p].enabled
    <3>1. CASE pl[p].listed > 0 /\ ~ connected(pl[p])
      <4> DEFINE d == disable(pl[p])
      <4>1. Swept(pl[p]) = [d EXCEPT !.listed = 0]
        BY <3>1 DEF Swept
      <4>2. d \in PlRec /\ d.enabled = FALSE /\ ~ connected(d)
        BY <1>1, RecordResults
      <4> HIDE DEF d
      <4>3. 0 \in 0..MaxListed
        <5>1. MaxListed \in Nat
          BY ClientsAssumption
        <5> QED  BY <5>1
      <4>4. /\ Swept(pl[p]) \in PlRec /\ Swept(pl[p]).enabled = FALSE /\ Swept(pl[p]).listed = 0
            /\ Swept(pl[p]).sock = d.sock
        BY <4>1, <4>2, <4>3 DEF PlRec
      <4> QED  BY <4>2, <4>4 DEF PlayerServed, connected
    <3>2. CASE ~ (pl[p].listed > 0 /\ ~ connected(pl[p]))
      BY <1>1, <3>2 DEF Swept, EnabledIsServed, PlayerServed
    <3> QED  BY <3>1, <3>2
  <2>3. \A p \in Slots : pl'[p] = Swept(pl[p])
    BY <2>1
  <2>4. pl' \in [Slots -> PlRec]
    BY <2>1, <2>2
  <2>5. \A p \in Slots : PlayerServed(pl'[p])
    BY <2>2, <2>3
  <2>6. ASSUME NEW x \in Slots, NEW y \in Slots, pl'[x].listed > 0, pl'[y].listed > 0,
               pl'[x].sock = pl'[y].sock, connected(pl'[x])
        PROVE  x = y
    <3>1. pl'[x] = pl[x] /\ pl'[y] = pl[y]
      <4>1. pl'[x].listed # 0 /\ pl'[y].listed # 0
        BY <2>6
      <4> QED  BY <2>2, <2>3, <4>1
    <3> QED  BY <1>1, <2>6, <3>1 DEF EnabledIsServed
  <2>7. coach' \in [Seats -> CoachRec] /\ \A c \in Seats : coach'[c].assigned => coach'[c].listed
    <3>1. coach' = [c \in Seats |->
             IF coach[c].listed /\ ~ connected(coach[c])
             THEN [sock |-> coach[c].sock, assigned |-> FALSE, listed |-> FALSE]
             ELSE coach[c]]
      BY <1>7 DEF removeDisconnectedClients
    <3>2. ASSUME NEW c \in Seats
          PROVE  coach'[c] \in CoachRec /\ (coach'[c].assigned => coach'[c].listed)
      <4>1. coach[c] \in CoachRec
        BY <1>1
      <4>2. CASE coach[c].listed /\ ~ connected(coach[c])
        <5>1. coach'[c] = [sock |-> coach[c].sock, assigned |-> FALSE, listed |-> FALSE]
          BY <3>1, <4>2
        <5> QED  BY <4>1, <5>1 DEF CoachRec
      <4>3. CASE ~ (coach[c].listed /\ ~ connected(coach[c]))
        <5>1. coach'[c] = coach[c]
          BY <3>1, <4>3
        <5> QED  BY <1>1, <4>1, <5>1 DEF EnabledIsServed
      <4> QED  BY <4>2, <4>3
    <3> QED  BY <3>1, <3>2
  <2>8. EnabledIsServed'
    BY <2>5, <2>6, <2>7 DEF EnabledIsServed, PlayerServed, connected
  <2> QED  BY <1>1, <2>1, <2>2, <2>3, <2>4, <2>7, <2>8 DEF ClientsTypeOK, ClientsInv, PlRec, CoachRec
<1>8. CASE PlayModeChange
  <2>1. live' \in BOOLEAN /\ UNCHANGED <<pl, team, coach, mons, gone, up>>
    BY <1>1, <1>8 DEF PlayModeChange
  <2>2. EnabledIsServed'
    BY <1>1, <2>1 DEF EnabledIsServed, connected
  <2> QED  BY <1>1, <2>1, <2>2 DEF ClientsTypeOK, ClientsInv
<1> QED  BY <1>3, <1>4, <1>5, <1>6, <1>7, <1>8 DEF CoachNext

\* The start, and every step.
LEMMA ClientsStart == ClientsInit => ClientsInv
<1> SUFFICES ASSUME ClientsInit PROVE ClientsInv
  OBVIOUS
<1>0. MaxListed \in Nat /\ MaxPlayer \in Nat
  BY ClientsAssumption
<1>1. 0 \in 0..MaxListed /\ 0 \in 0..MaxPlayer /\ 0 \in 0..2 /\ "idle" \in Sockets
  BY <1>0 DEF Sockets
<1>2. ClientsTypeOK
  BY <1>1 DEF ClientsInit, ClientsTypeOK
<1>3. EnabledIsServed
  <2>1. /\ \A p \in Slots : pl[p].enabled = FALSE /\ pl[p].listed = 0
        /\ \A c \in Seats : coach[c].assigned = FALSE
    BY DEF ClientsInit
  <2> QED  BY <2>1 DEF EnabledIsServed
<1> QED  BY <1>2, <1>3 DEF ClientsInv

\* SentOffNotBack of a single step.
SentOffStays ==
    \A p \in Slots : pl[p].cards = 2 /\ ~ pl[p].enabled /\ pl'[p].enabled
                         => Num(p) > team[TeamOf(p)].size

LEMMA ClientsStep ==
    ASSUME ClientsInv, [ClientsNext]_cvars PROVE ClientsInv' /\ SentOffStays
<1>1. ASSUME NEW a \in Addrs, NEW n \in Names, NEW g \in BOOLEAN, NEW bad \in BOOLEAN,
             NEW ok \in Works, PlayerInit(a, n, g, bad, ok)
      PROVE  ClientsInv' /\ SentOffStays
  BY <1>1, PlayerInitServed DEF SentOffStays
<1>2. ASSUME NEW p \in Slots, NEW a \in Addrs, NEW o \in Works, NEW k \in Works,
             PlayerReconnect(a, p, o, k)
      PROVE  ClientsInv' /\ SentOffStays
  <2>1. ClientsInv' /\ \A q \in Slots : ~ pl[q].enabled /\ pl'[q].enabled => pl[q].cards < 2
    BY <1>2, PlayerReconnectServed
  <2> QED  BY <2>1 DEF SentOffStays
<1>3. ASSUME NEW p \in Slots,
             \/ bye(p) \/ Drop(p) \/ discardPlayer(p) \/ \E red \in BOOLEAN : Card(p, red)
             \/ substitute(p) \/ changePlayerToGoalie(p)
      PROVE  ClientsInv' /\ SentOffStays
  BY <1>3, PlayerOthersServed DEF SentOffStays
<1>4. CASE CoachNext \/ removeDisconnectedClients \/ PlayModeChange
  BY <1>4, OthersServed DEF SentOffStays
<1>5. CASE UNCHANGED cvars
  BY <1>5 DEF cvars, ClientsInv, ClientsTypeOK, EnabledIsServed, connected, SentOffStays
<1> QED  BY <1>1, <1>2, <1>3, <1>4, <1>5 DEF ClientsNext, PlayerNext

\* Whatever clients connect, fail, reconnect and are swept in whatever order:
\* whoever plays is served, at an address of his own.
THEOREM EnabledIsServedHolds == ClientsSpec => []EnabledIsServed
<1>1. ClientsInv => EnabledIsServed
  BY DEF ClientsInv
<1>2. ClientsInv /\ [ClientsNext]_cvars => ClientsInv'
  BY ClientsStep
<1> QED  BY <1>1, <1>2, ClientsStart, PTL DEF ClientsSpec

\* A player that was sent off comes back only by an init for a number that no
\* client had taken.
THEOREM SentOffNotBackHolds == ClientsSpec => SentOffNotBack
<1>1. ClientsInv /\ [ClientsNext]_cvars => [SentOffStays]_cvars
  BY ClientsStep
<1>2. ClientsInv /\ [ClientsNext]_cvars => ClientsInv'
  BY ClientsStep
<1>3. SentOffNotBack <=> [][SentOffStays]_cvars
  BY DEF SentOffNotBack, SentOffStays
<1> QED  BY <1>1, <1>2, <1>3, ClientsStart, PTL DEF ClientsSpec

------------------------------------------------------------------------------
(* Keepaway: takes of the ball.                                             *)

Reach == {"taker", "keeper", "nobody"}

\* The places in s of the takes that are counted.
TakePlaces(s) ==
    {i \in DOMAIN s : s[i] = "taker" /\ \A j \in {k \in DOMAIN s : s[k] = "keeper"} : j < i}

LEMMA TakesFinite ==
    ASSUME NEW s \in Seq(Reach)
    PROVE  IsFiniteSet(TakePlaces(s)) /\ Takes(s) = Cardinality(TakePlaces(s)) /\ Takes(s) \in Nat
<1>1. DOMAIN s = 1 .. Len(s) /\ Len(s) \in Nat
  OBVIOUS
<1>2. IsFiniteSet(1 .. Len(s))
  BY <1>1, FS_Interval
<1>3. TakePlaces(s) \subseteq 1 .. Len(s)
  BY <1>1 DEF TakePlaces
<1>4. IsFiniteSet(TakePlaces(s))
  BY <1>2, <1>3, FS_Subset
<1>5. Takes(s) = Cardinality(TakePlaces(s))
  BY DEF Takes, TakePlaces
<1> QED  BY <1>4, <1>5, FS_CardinalityType

\* One more cycle: M_take_time counts what Takes counts.
LEMMA TakesAppend ==
    ASSUME NEW s \in Seq(Reach), NEW x \in Reach
    PROVE  Takes(Append(s, x)) =
               CASE x = "taker" -> Takes(s) + 1 [] x = "keeper" -> 0 [] OTHER -> Takes(s)
<1> DEFINE t == Append(s, x)
           n == Len(s) + 1
<1>1. /\ t \in Seq(Reach) /\ n \in Nat \ {0} /\ DOMAIN t = 1 .. n /\ DOMAIN s = 1 .. n - 1
      /\ t[n] = x /\ \A i \in 1 .. n - 1 : t[i] = s[i]
  OBVIOUS
<1>2. /\ Takes(t) = Cardinality(TakePlaces(t)) /\ Takes(s) = Cardinality(TakePlaces(s))
      /\ IsFiniteSet(TakePlaces(s))
  BY <1>1, TakesFinite
<1> HIDE DEF t, n
<1>3. CASE x = "taker"
  <2>1. TakePlaces(t) = TakePlaces(s) \cup {n} /\ n \notin TakePlaces(s)
    <3>1. \A i \in 1 .. n : i \in TakePlaces(t) <=> i \in TakePlaces(s) \/ i = n
      BY <1>1, <1>3 DEF TakePlaces
    <3>2. TakePlaces(t) \subseteq 1 .. n /\ TakePlaces(s) \subseteq 1 .. n - 1
      BY <1>1 DEF TakePlaces
    <3>3. 1 .. n - 1 \subseteq 1 .. n /\ n \in 1 .. n /\ n \notin 1 .. n - 1
      BY <1>1
    <3> QED  BY <3>1, <3>2, <3>3
  <2>2. Cardinality(TakePlaces(t)) = Cardinality(TakePlaces(s)) + 1
    BY <1>2, <2>1, FS_AddElement
  <2> QED  BY <1>2, <1>3, <2>2 DEF t
<1>4. CASE x = "keeper"
  <2>1. TakePlaces(t) = {}
    BY <1>1, <1>4 DEF TakePlaces
  <2> QED  BY <1>2, <1>4, <2>1, FS_EmptySet DEF t
<1>5. CASE x = "nobody"
  <2>1. TakePlaces(t) = TakePlaces(s)
    <3>1. \A i \in 1 .. n : i \in TakePlaces(t) <=> i \in TakePlaces(s)
      BY <1>1, <1>5 DEF TakePlaces
    <3>2. TakePlaces(t) \subseteq 1 .. n /\ TakePlaces(s) \subseteq 1 .. n - 1
      BY <1>1 DEF TakePlaces
    <3>3. 1 .. n - 1 \subseteq 1 .. n /\ n \in 1 .. n /\ n \notin 1 .. n - 1
      BY <1>1
    <3> QED  BY <3>1, <3>2, <3>3
  <2> QED  BY <1>2, <1>5, <2>1 DEF t
<1> QED  BY <1>3, <1>4, <1>5 DEF Reach, t

------------------------------------------------------------------------------
(* Keepaway: the corners of the keepers.                                    *)

\* Keepers on the pitch have different ranks.
LEMMA RankIsInjective ==
    ASSUME NEW j \in pitch \cap Keepers, NEW k \in pitch \cap Keepers, j < k
    PROVE  /\ Rank(j) \in Nat /\ Rank(k) \in Nat /\ Rank(j) < Rank(k)
           /\ Rank(k) < Cardinality(pitch \cap Keepers)
<1> DEFINE P == pitch \cap Keepers
           J == {i \in P : i < j}
           K == {i \in P : i < k}
<1>1. IsFiniteSet(P) /\ \A i \in P : i \in Int
  <2>1. IsFiniteSet(Keepers) /\ Keepers = 1 .. Cardinality(Keepers)
    BY KeepawayAssumption
  <2>2. Cardinality(Keepers) \in Nat
    BY <2>1, FS_CardinalityType
  <2>3. IsFiniteSet(P)
    BY <2>1, FS_Subset
  <2> QED  BY <2>1, <2>2, <2>3
<1>2. j \in P /\ k \in P
  OBVIOUS
<1>3. Rank(j) = Cardinality(J) /\ Rank(k) = Cardinality(K)
  BY DEF Rank
<1> HIDE DEF P
<1>4. J \subseteq K /\ j \in K /\ j \notin J /\ K \subseteq P /\ k \notin K
  BY <1>1, <1>2
<1> HIDE DEF J, K
<1>5. IsFiniteSet(K) /\ Cardinality(K) <= Cardinality(P) /\ (Cardinality(K) = Cardinality(P) => K = P)
  BY <1>1, <1>4, FS_Subset
<1>6. IsFiniteSet(J) /\ Cardinality(J) <= Cardinality(K) /\ (Cardinality(J) = Cardinality(K) => J = K)
  BY <1>4, <1>5, FS_Subset
<1>7. Cardinality(J) \in Nat /\ Cardinality(K) \in Nat /\ Cardinality(P) \in Nat
  BY <1>1, <1>5, <1>6, FS_CardinalityType
<1>8. Cardinality(J) # Cardinality(K) /\ Cardinality(K) # Cardinality(P)
  BY <1>2, <1>4, <1>5, <1>6
<1> QED  BY <1>3, <1>5, <1>6, <1>7, <1>8 DEF P

\* Numbers that are less than a divisor apart have different rests.
LEMMA RestsDiffer ==
    ASSUME NEW m \in Nat \ {0}, NEW f \in Nat, NEW a \in Nat, NEW b \in Nat, a < b, b < m
    PROVE  (f + a) % m # (f + b) % m
<1> SUFFICES ASSUME (f + a) % m = (f + b) % m PROVE FALSE
  OBVIOUS
<1> DEFINE x == (f + a) \div m
           y == (f + b) \div m
           r == (f + a) % m
<1>1. x \in Int /\ y \in Int /\ r \in Int /\ f + a = m * x + r /\ f + b = m * y + r
  OBVIOUS
<1> HIDE DEF x, y, r
<1>2. b - a = m * (y - x)
  BY <1>1
<1>3. y - x >= 1
  BY <1>1, <1>2
<1>4. m * (y - x) >= m
  BY <1>1, <1>3
<1> QED  BY <1>1, <1>2, <1>4

------------------------------------------------------------------------------
(* Keepaway: the invariant.                                                 *)

KawayRec == [episode : Nat, keepers : Nat, takers : Nat, time : Nat, take : Nat]
RowRec == [episode : Nat, start : Nat, end : Nat, cond : {"o", "t"}, takes : Nat]

KeepawayTypeOK ==
    /\ kmode \in {"before", "on", "set_play", "stop"} /\ kclock \in Nat
    /\ kaway \in KawayRec /\ rows \in Seq(RowRec) /\ reaches \in Seq(Reach)

\* The episode that is being played: its number, its start and its takes.
ThisEpisode ==
    /\ kaway.episode = (IF kaway.episode = 0 THEN 0 ELSE Len(rows) + 1)
    /\ kaway.episode = 0 => kmode # "on" /\ Len(rows) = 0
    /\ kaway.time = (IF Len(rows) = 0 THEN 0 ELSE rows[Len(rows)].end)
    /\ kaway.time <= kclock
    /\ kaway.take = Takes(reaches) /\ kaway.take <= TurnoverTime

\* The two parts of KeepawayEpisodes.
RowsInOrder ==
    \A i \in DOMAIN rows :
        /\ rows[i].episode = i
        /\ rows[i].start = IF i = 1 THEN 0 ELSE rows[i - 1].end
        /\ rows[i].start <= rows[i].end
        /\ rows[i].takes <= TurnoverTime
        /\ rows[i].cond = "t" => rows[i].takes = TurnoverTime

CornersDiffer ==
    Cardinality(DOMAIN corner) <= kaway.keepers =>
        \A j, k \in DOMAIN corner : corner[j] = corner[k] => j = k

KeepawayInv == KeepawayTypeOK /\ ThisEpisode /\ RowsInOrder /\ CornersDiffer

\* Whoever is on the pitch when the field is reset gets a corner of his own, or
\* nobody does.
LEMMA ResetCorners ==
    ASSUME KeepawayInv, NEW w \in KawayRec, resetField(w),
           w.keepers = kaway.keepers \/ w.keepers = Cardinality(pitch \cap Keepers)
    PROVE  CornersDiffer'
<1> DEFINE P == pitch \cap Keepers
           m == w.keepers
<1>1. kaway'.keepers = m /\ m \in Nat
  BY DEF resetField, KawayRec
<1>2. CASE died'
  <2>1. m = 0 /\ P # {} /\ corner' = corner
    BY <1>2 DEF resetField
  <2>2. IsFiniteSet(P)
    BY KeepawayAssumption, FS_Subset
  <2>3. Cardinality(P) # 0
    BY <2>1, <2>2, FS_EmptySet
  <2>4. kaway'.keepers = kaway.keepers
    BY <1>1, <2>1, <2>3
  <2> QED  BY <2>1, <2>4 DEF CornersDiffer, KeepawayInv
<1>3. CASE ~ died'
  <2>1. PICK first \in 0 .. (IF m <= 1 THEN 0 ELSE m - 1) :
           corner' = [k \in P |-> (first + Rank(k)) % m]
    BY <1>3 DEF resetField
  <2>2. DOMAIN corner' = P /\ \A k \in P : corner'[k] = (first + Rank(k)) % m
    BY <2>1
  <2>3. first \in Nat
    BY <1>1, <2>1
  <2>4. ASSUME NEW j \in P, NEW k \in P, j < k, Cardinality(P) <= m
        PROVE  corner'[j] # corner'[k]
    <3>1. Rank(j) \in Nat /\ Rank(k) \in Nat /\ Rank(j) < Rank(k) /\ Rank(k) < Cardinality(P)
      BY <2>4, RankIsInjective
    <3>2. Cardinality(P) \in Nat
      <4>1. IsFiniteSet(P)
        BY KeepawayAssumption, FS_Subset
      <4> QED  BY <4>1, FS_CardinalityType
    <3> HIDE DEF P
    <3>3. Rank(k) < m /\ m \in Nat \ {0}
      BY <1>1, <2>4, <3>1, <3>2
    <3>4. (first + Rank(j)) % m # (first + Rank(k)) % m
      BY <2>3, <3>1, <3>3, RestsDiffer
    <3> QED  BY <2>2, <3>4
  <2>5. ASSUME NEW j \in P, NEW k \in P, j # k PROVE j < k \/ k < j
    <3>1. Cardinality(Keepers) \in Nat /\ Keepers = 1 .. Cardinality(Keepers)
      BY KeepawayAssumption, FS_CardinalityType
    <3> QED  BY <2>5, <3>1
  <2> HIDE DEF P
  <2> QED  BY <1>1, <2>2, <2>4, <2>5 DEF CornersDiffer
<1> QED  BY <1>2, <1>3

\* The end of an episode.
LEMMA EpisodeEnds ==
    ASSUME KeepawayInv, NEW cond \in {"o", "t"}, EndEpisode(kclock + 1, cond), kmode = "on",
           cond = "t" => kaway.take >= TurnoverTime, kclock' = kclock + 1
    PROVE  KeepawayInv'
<1> DEFINE t == kclock + 1
           n == Len(rows) + 1
           row == [episode |-> kaway.episode, start |-> kaway.time, end |-> t,
                   cond |-> cond, takes |-> Takes(reaches)]
           w == [kaway EXCEPT !.episode = @ + 1, !.time = t]
<1>0. KeepawayTypeOK /\ ThisEpisode /\ RowsInOrder /\ TurnoverTime \in Nat
  BY KeepawayAssumption DEF KeepawayInv
<1>1. t \in Nat /\ kaway \in KawayRec /\ n \in Nat \ {0} /\ Takes(reaches) \in Nat
      /\ rows \in Seq(RowRec) /\ kclock \in Nat
  BY <1>0, TakesFinite DEF KeepawayTypeOK
<1>2. row \in RowRec /\ rows' = Append(rows, row)
  BY <1>1 DEF RowRec, KawayRec, EndEpisode, writeKeepawayLog
<1>3. w \in KawayRec /\ w.keepers = kaway.keepers /\ w.episode = kaway.episode + 1 /\ w.time = t
  <2>1. kaway.episode + 1 \in Nat
    BY <1>1 DEF KawayRec
  <2> HIDE DEF t
  <2> QED  BY <1>1, <2>1 DEF KawayRec
<1>4. resetField(w)
  BY DEF EndEpisode, logEpisode
<1> HIDE DEF w
<1>5. CornersDiffer'
  BY <1>3, <1>4, ResetCorners
<1>6. /\ kaway' = [w EXCEPT !.take = 0] /\ reaches' = <<>> /\ kmode' = kmode
  BY <1>4 DEF resetField, EndEpisode
<1>7. /\ kaway' \in KawayRec /\ kaway'.episode = kaway.episode + 1 /\ kaway'.time = t
      /\ kaway'.take = 0
  BY <1>1, <1>3, <1>6 DEF KawayRec
<1>8. /\ row.episode = kaway.episode /\ row.start = kaway.time /\ row.end = t
      /\ row.cond = cond /\ row.takes = Takes(reaches)
  OBVIOUS
<1> HIDE DEF row, w
<1>9. /\ rows' \in Seq(RowRec) /\ Len(rows') = n /\ rows'[n] = row /\ DOMAIN rows' = 1 .. n
      /\ DOMAIN rows = 1 .. n - 1 /\ \A i \in 1 .. n - 1 : rows'[i] = rows[i]
  BY <1>1, <1>2
<1>10. reaches' \in Seq(Reach) /\ Takes(reaches') = 0
  <2>1. <<>> \in Seq(Reach) /\ TakePlaces(<<>>) = {}
    BY DEF TakePlaces
  <2>2. Takes(<<>>) = 0
    BY <2>1, TakesFinite, FS_EmptySet
  <2> QED  BY <1>6, <2>1, <2>2
<1>11. KeepawayTypeOK'
  BY <1>0, <1>1, <1>6, <1>7, <1>9, <1>10 DEF KeepawayTypeOK
<1>12. kaway.episode \in Nat /\ kaway.take \in Nat /\ kaway.time \in Nat
  BY <1>1 DEF KawayRec
<1>13. kaway.episode = n
  BY <1>0, <1>1, <1>12 DEF ThisEpisode
<1>14. ThisEpisode'
  <2>1. kaway'.episode = Len(rows') + 1 /\ kaway'.episode # 0
    BY <1>1, <1>7, <1>9, <1>13
  <2>2. Len(rows') # 0 /\ rows'[Len(rows')].end = t
    BY <1>1, <1>8, <1>9
  <2>3. kaway'.time <= kclock' /\ kaway'.take = Takes(reaches') /\ kaway'.take <= TurnoverTime
    BY <1>0, <1>1, <1>7, <1>10
  <2> QED  BY <1>7, <2>1, <2>2, <2>3 DEF ThisEpisode
<1>15. RowsInOrder'
  <2>1. ASSUME NEW i \in 1 .. n - 1
        PROVE  /\ rows'[i].episode = i
               /\ rows'[i].start = IF i = 1 THEN 0 ELSE rows'[i - 1].end
               /\ rows'[i].start <= rows'[i].end
               /\ rows'[i].takes <= TurnoverTime
               /\ rows'[i].cond = "t" => rows'[i].takes = TurnoverTime
    <3>1. i # 1 => i - 1 \in 1 .. n - 1
      BY <1>1
    <3> QED  BY <1>0, <1>9, <3>1 DEF RowsInOrder
  <2>2. /\ row.start = (IF n = 1 THEN 0 ELSE rows'[n - 1].end)
        /\ row.start <= row.end
    <3>1. n # 1 => n - 1 \in 1 .. n - 1 /\ n - 1 = Len(rows) /\ Len(rows) # 0
      BY <1>1
    <3>2. n = 1 => Len(rows) = 0
      BY <1>1
    <3>3. kaway.time <= kclock
      BY <1>0 DEF ThisEpisode
    <3> QED  BY <1>0, <1>1, <1>8, <1>9, <1>12, <3>1, <3>2, <3>3 DEF ThisEpisode
  <2>3. row.episode = n /\ row.takes <= TurnoverTime /\ (row.cond = "t" => row.takes = TurnoverTime)
    BY <1>0, <1>8, <1>12, <1>13 DEF ThisEpisode
  <2>4. \A i \in DOMAIN rows' : i \in 1 .. n - 1 \/ i = n
    BY <1>1, <1>9
  <2> HIDE DEF n
  <2> QED  BY <1>9, <2>1, <2>2, <2>3, <2>4 DEF RowsInOrder
<1> QED  BY <1>5, <1>11, <1>14, <1>15 DEF KeepawayInv

\* Play goes on: a cycle without an end of the episode.
LEMMA PlayGoesOn ==
    ASSUME KeepawayInv, NEW reach \in Reach, Possession(reach), kaway.take < TurnoverTime,
           kclock' \in Nat, kclock' >= kclock
    PROVE  KeepawayInv'
<1>0. KeepawayTypeOK /\ ThisEpisode /\ RowsInOrder /\ CornersDiffer /\ TurnoverTime \in Nat
  BY KeepawayAssumption DEF KeepawayInv
<1> DEFINE k == CASE reach = "taker" -> kaway.take + 1 [] reach = "keeper" -> 0 [] OTHER -> kaway.take
<1>1. /\ kaway' = [kaway EXCEPT !.take = k] /\ reaches' = Append(reaches, reach)
      /\ UNCHANGED <<kmode, corner, rows, died>>
  BY DEF Possession
<1>2. kaway \in KawayRec /\ reaches \in Seq(Reach) /\ kaway.take \in Nat
      /\ kaway.take = Takes(reaches)
  BY <1>0 DEF KeepawayTypeOK, KawayRec, ThisEpisode
<1>3. k \in Nat /\ k <= TurnoverTime
  BY <1>0, <1>2
<1>4. Takes(reaches') = k
  BY <1>1, <1>2, TakesAppend
<1> HIDE DEF k
<1>5. /\ kaway' \in KawayRec /\ kaway'.take = k /\ kaway'.episode = kaway.episode
      /\ kaway'.time = kaway.time /\ kaway'.keepers = kaway.keepers
  BY <1>1, <1>2, <1>3 DEF KawayRec
<1>6. reaches' \in Seq(Reach)
  BY <1>1, <1>2
<1>7. KeepawayTypeOK'
  BY <1>0, <1>1, <1>5, <1>6 DEF KeepawayTypeOK
<1>8. ThisEpisode'
  <2>1. kaway.time <= kclock'
    BY <1>0 DEF ThisEpisode, KeepawayTypeOK, KawayRec
  <2> QED  BY <1>0, <1>1, <1>3, <1>4, <1>5, <2>1 DEF ThisEpisode
<1>9. RowsInOrder' /\ CornersDiffer'
  BY <1>0, <1>1, <1>5 DEF RowsInOrder, CornersDiffer
<1> QED  BY <1>7, <1>8, <1>9 DEF KeepawayInv

\* The play mode changes, by the referee itself or others.
LEMMA ModeChanges ==
    ASSUME KeepawayInv, NEW pm \in {"on", "set_play", "stop"}, playModeChange(pm),
           kclock' \in Nat, kclock' >= kclock
    PROVE  KeepawayInv'
<1>0. /\ KeepawayTypeOK /\ ThisEpisode /\ RowsInOrder /\ CornersDiffer /\ TurnoverTime \in Nat
      /\ kaway \in KawayRec /\ kmode' = pm /\ rows' = rows
  BY KeepawayAssumption DEF KeepawayInv, KeepawayTypeOK, playModeChange
<1>1. kaway.time <= kclock' /\ kaway.time \in Nat /\ kaway.episode \in Nat
  BY <1>0 DEF ThisEpisode, KeepawayTypeOK, KawayRec
<1>2. CASE pm = "on" /\ kaway.episode = 0
  <2> DEFINE w == [kaway EXCEPT !.episode = 1,
                                !.keepers = Cardinality(pitch \cap Keepers),
                                !.takers = Cardinality(pitch \cap Takers)]
  <2>1. Cardinality(pitch \cap Keepers) \in Nat /\ Cardinality(pitch \cap Takers) \in Nat
    <3>1. IsFiniteSet(pitch \cap Keepers) /\ IsFiniteSet(pitch \cap Takers)
      BY KeepawayAssumption, FS_Subset
    <3> QED  BY <3>1, FS_CardinalityType
  <2>2. /\ w \in KawayRec /\ w.keepers = Cardinality(pitch \cap Keepers) /\ w.episode = 1
        /\ w.time = kaway.time
    BY <1>0, <2>1 DEF KawayRec
  <2>3. resetField(w)
    BY <1>2 DEF playModeChange
  <2> HIDE DEF w
  <2>4. CornersDiffer'
    BY <2>2, <2>3, ResetCorners
  <2>5. kaway' = [w EXCEPT !.take = 0] /\ reaches' = <<>>
    BY <2>3 DEF resetField
  <2>6. kaway' \in KawayRec /\ kaway'.episode = 1 /\ kaway'.time = kaway.time /\ kaway'.take = 0
    BY <2>2, <2>5 DEF KawayRec
  <2>7. reaches' \in Seq(Reach) /\ Takes(reaches') = 0
    <3>1. <<>> \in Seq(Reach) /\ TakePlaces(<<>>) = {}
      BY DEF TakePlaces
    <3>2. Takes(<<>>) = 0
      BY <3>1, TakesFinite, FS_EmptySet
    <3> QED  BY <2>5, <3>1, <3>2
  <2>8. Len(rows) = 0
    BY <1>0, <1>2 DEF ThisEpisode
  <2>9. KeepawayTypeOK'
    BY <1>0, <2>6, <2>7 DEF KeepawayTypeOK
  <2>10. ThisEpisode'
    BY <1>0, <1>1, <2>6, <2>7, <2>8 DEF ThisEpisode
  <2>11. RowsInOrder'
    BY <1>0 DEF RowsInOrder
  <2> QED  BY <2>4, <2>9, <2>10, <2>11 DEF KeepawayInv
<1>3. CASE ~ (pm = "on" /\ kaway.episode = 0)
  <2>1. UNCHANGED <<kaway, corner, reaches>>
    BY <1>3 DEF playModeChange
  <2>2. KeepawayTypeOK'
    BY <1>0, <2>1 DEF KeepawayTypeOK
  <2>3. ThisEpisode'
    BY <1>0, <1>1, <1>3, <2>1 DEF ThisEpisode
  <2>4. RowsInOrder' /\ CornersDiffer'
    BY <1>0, <2>1 DEF RowsInOrder, CornersDiffer
  <2> QED  BY <2>2, <2>3, <2>4 DEF KeepawayInv
<1> QED  BY <1>2, <1>3

\* Nothing but the clock and the pitch changes.
LEMMA KeepawayRests ==
    ASSUME KeepawayInv, UNCHANGED <<kmode, kaway, corner, rows, reaches>>,
           kclock' \in Nat, kclock' >= kclock
    PROVE  KeepawayInv'
<1>0. KeepawayTypeOK /\ ThisEpisode /\ RowsInOrder /\ CornersDiffer
  BY DEF KeepawayInv
<1>1. kaway.time <= kclock'
  BY <1>0 DEF ThisEpisode, KeepawayTypeOK, KawayRec
<1>2. KeepawayTypeOK'
  BY <1>0 DEF KeepawayTypeOK
<1>3. ThisEpisode'
  BY <1>0, <1>1 DEF ThisEpisode
<1>4. RowsInOrder' /\ CornersDiffer'
  BY <1>0 DEF RowsInOrder, CornersDiffer
<1> QED  BY <1>2, <1>3, <1>4 DEF KeepawayInv

\* However play is stopped and opened and whoever joins and leaves: the rows of
\* the log are in order, and keepers are put into corners of their own.
THEOREM KeepawayEpisodesHolds == KeepawaySpec => []KeepawayEpisodes
<1>1. KeepawayInit => KeepawayInv
  <2> SUFFICES ASSUME KeepawayInit PROVE KeepawayInv
    OBVIOUS
  <2>1. Takes(<<>>) = 0 /\ <<>> \in Seq(Reach)
    <3>1. <<>> \in Seq(Reach) /\ TakePlaces(<<>>) = {}
      BY DEF TakePlaces
    <3> QED  BY <3>1, TakesFinite, FS_EmptySet
  <2>2. KeepawayTypeOK
    BY <2>1 DEF KeepawayInit, KeepawayTypeOK, KawayRec
  <2>3. TurnoverTime \in Nat
    BY KeepawayAssumption
  <2>4. ThisEpisode
    BY <2>1, <2>3 DEF KeepawayInit, ThisEpisode
  <2>5. DOMAIN rows = {} /\ DOMAIN corner = {}
    BY DEF KeepawayInit
  <2> QED  BY <2>2, <2>4, <2>5 DEF KeepawayInv, RowsInOrder, CornersDiffer
<1>2. KeepawayInv /\ [KeepawayNext]_wvars => KeepawayInv'
  <2> SUFFICES ASSUME KeepawayInv, [KeepawayNext]_wvars PROVE KeepawayInv'
    OBVIOUS
  <2>0. kclock \in Nat /\ TurnoverTime \in Nat /\ kaway.take \in Nat
    BY KeepawayAssumption DEF KeepawayInv, KeepawayTypeOK, KawayRec
  <2>1. ASSUME NEW inArea \in BOOLEAN, NEW started \in BOOLEAN,
               NEW reach \in {"taker", "keeper", "nobody"}, KeepawayCycle(inArea, reach, started)
        PROVE  KeepawayInv'
    <3>1. kclock' \in {kclock, kclock + 1} /\ kclock' \in Nat /\ kclock' >= kclock
      BY <2>0, <2>1 DEF KeepawayCycle
    <3>2. CASE kmode = "on"
      <4>1. kclock' = kclock + 1 /\ analyse(kclock + 1, inArea, reach, started)
        BY <2>1, <3>2 DEF KeepawayCycle
      <4>2. CASE ~ inArea
        <5>1. EndEpisode(kclock + 1, "o")
          BY <3>2, <4>1, <4>2 DEF analyse
        <5> QED  BY <3>2, <4>1, <5>1, EpisodeEnds
      <4>3. CASE inArea /\ kaway.take >= TurnoverTime
        <5>1. EndEpisode(kclock + 1, "t")
          BY <3>2, <4>1, <4>3 DEF analyse
        <5> QED  BY <3>2, <4>1, <4>3, <5>1, EpisodeEnds
      <4>4. CASE inArea /\ ~ (kaway.take >= TurnoverTime)
        <5>1. Possession(reach) /\ kaway.take < TurnoverTime
          BY <2>0, <3>2, <4>1, <4>4 DEF analyse
        <5> QED  BY <3>1, <5>1, PlayGoesOn DEF Reach
      <4> QED  BY <4>2, <4>3, <4>4
    <3>3. CASE kmode # "on"
      <4>1. PICK t : analyse(t, inArea, reach, started)
        BY <2>1 DEF KeepawayCycle
      <4>2. CASE KawayStart /\ started
        BY <3>1, <3>3, <4>1, <4>2, ModeChanges DEF analyse
      <4>3. CASE ~ (KawayStart /\ started)
        BY <3>1, <3>3, <4>1, <4>3, KeepawayRests DEF analyse
      <4> QED  BY <4>2, <4>3
    <3> QED  BY <3>2, <3>3
  <2>2. ASSUME NEW pm \in {"on", "set_play", "stop"}, OtherMode(pm) PROVE KeepawayInv'
    <3>1. playModeChange(pm) /\ kclock' \in Nat /\ kclock' >= kclock
      BY <2>0, <2>2 DEF OtherMode
    <3> QED  BY <3>1, ModeChanges
  <2>3. ASSUME NEW p \in Keepers \cup Takers, KeepawayPlayers(p) PROVE KeepawayInv'
    <3>1. UNCHANGED <<kmode, kaway, corner, rows, reaches>> /\ kclock' \in Nat /\ kclock' >= kclock
      BY <2>0, <2>3 DEF KeepawayPlayers
    <3> QED  BY <3>1, KeepawayRests
  <2>4. CASE UNCHANGED wvars
    <3>1. UNCHANGED <<kmode, kaway, corner, rows, reaches>> /\ kclock' \in Nat /\ kclock' >= kclock
      BY <2>0, <2>4 DEF wvars
    <3> QED  BY <3>1, KeepawayRests
  <2> QED  BY <2>1, <2>2, <2>3, <2>4 DEF KeepawayNext
<1>3. KeepawayInv => KeepawayEpisodes
  BY DEF KeepawayInv, RowsInOrder, CornersDiffer, KeepawayEpisodes
<1> QED  BY <1>1, <1>2, <1>3, PTL DEF KeepawaySpec

------------------------------------------------------------------------------
(* Conf: the parameters.                                                    *)

ParRec == [margin : Int, ball : Int, player : Int, control : Int, area : Int, width : Int,
           raw : Nat, half : Nat, step : Nat \ {0}, slow : Nat \ {0},
           l : TeamNames \cup {""}, r : TeamNames \cup {""}]

\* DerivedParameters, but for the half, which is derived when the server starts.
Agrees(p) ==
    /\ p.area = p.margin + p.player + p.ball
    /\ p.width = p.control - p.player
    /\ p.l # "" => p.l # p.r

LEMMA ScalerType ==
    ASSUME NEW p \in ParRec PROVE getHalfTimeScaler(p) \in Nat
<1> DEFINE q == p.step \div p.slow
           d == IF q = 0 THEN 1 ELSE q
<1>1. p.step \in Nat \ {0} /\ p.slow \in Nat \ {0}
  BY DEF ParRec
<1>2. q \in Nat
  BY <1>1
<1> HIDE DEF q
<1>3. d \in Nat \ {0}
  BY <1>2
<1> HIDE DEF d
<1>4. 2 \div d \in Nat
  BY <1>3
<1> QED  BY <1>4 DEF getHalfTimeScaler, d, q

\* The defaults agree.
LEMMA DefaultsAgree == setDefaults \in ParRec /\ Agrees(setDefaults)
<1> DEFINE d == CHOOSE s \in Sizes : \A t \in Sizes : s <= t
<1>1. \E s \in Sizes : \A t \in Sizes : s <= t
  <2>1. IsWellFoundedOn(OpToRel(<, Nat), Nat)
    BY NatLessThanWellFounded
  <2>2. Sizes \subseteq Nat /\ Sizes # {}
    BY ConfAssumption
  <2>3. PICK s \in Sizes : \A t \in Sizes : ~ (<<t, s>> \in OpToRel(<, Nat))
    BY <2>1, <2>2, WFMin
  <2>4. \A t \in Sizes : ~ (t < s)
    BY <2>2, <2>3 DEF OpToRel
  <2> QED  BY <2>2, <2>4
<1>2. d \in Sizes
  BY <1>1
<1>3. d \in Nat
  BY <1>2, ConfAssumption
<1> HIDE DEF d
<1>4. setDefaults = [margin |-> d, ball |-> d, player |-> d, control |-> d,
                     area |-> 3 * d, width |-> 0,
                     raw |-> d, half |-> d * 2, step |-> 1, slow |-> 1, l |-> "", r |-> ""]
  BY DEF setDefaults, d
<1>5. 3 * d \in Int /\ d * 2 \in Nat /\ 3 * d = d + d + d /\ d - d = 0
  BY <1>3
<1>6. setDefaults \in ParRec
  <2>1. d \in Int /\ 1 \in Nat \ {0} /\ 0 \in Int
    BY <1>3
  <2> QED  BY <1>3, <1>4, <1>5, <2>1 DEF ParRec
<1>7. Agrees(setDefaults)
  BY <1>3, <1>4, <1>5 DEF Agrees
<1> QED  BY <1>6, <1>7

\* Every setter keeps the parameters in agreement.
LEMMA SettersAgree ==
    ASSUME NEW p \in ParRec, Agrees(p), NEW type, NEW q \in Assigned(p, type)
    PROVE  q \in ParRec /\ Agrees(q)
<1>0. Sizes \subseteq Nat \ {0}
  BY ConfAssumption
<1>1. /\ p.margin \in Int /\ p.ball \in Int /\ p.player \in Int /\ p.control \in Int
      /\ p.area \in Int /\ p.width \in Int /\ p.raw \in Nat
  BY DEF ParRec
<1>2. CASE type = "double"
  <2>1. PICK v \in Sizes : q \in {setCTLRadius(p, v), setKickMargin(p, v), setBallSize(p, v),
                                   setPlayerSize(p, v)}
    BY <1>2 DEF Assigned
  <2>2. v \in Int
    BY <1>0
  <2>3. CASE q = setCTLRadius(p, v)
    <3> DEFINE nwidth == p.width - p.control + v
    <3>1. nwidth \in Int
      BY <1>1, <2>2
    <3>2. q = [p EXCEPT !.width = nwidth, !.control = v]
      BY <2>3 DEF setCTLRadius
    <3> HIDE DEF nwidth
    <3>3. /\ q \in ParRec /\ q.margin = p.margin /\ q.ball = p.ball /\ q.player = p.player /\ q.control = v /\ q.area = p.area
          /\ q.width = nwidth /\ q.l = p.l /\ q.r = p.r
      BY <2>2, <3>1, <3>2 DEF ParRec
    <3>4. p.area = p.margin + p.player + p.ball /\ p.width = p.control - p.player
      BY DEF Agrees
    <3>5. q.area = q.margin + q.player + q.ball /\ q.width = q.control - q.player
      BY <1>1, <2>2, <3>3, <3>4 DEF nwidth
    <3> QED  BY <3>3, <3>5 DEF Agrees
  <2>4. CASE q = setKickMargin(p, v)
    <3> DEFINE narea == p.area - p.margin + v
    <3>1. narea \in Int
      BY <1>1, <2>2
    <3>2. q = [p EXCEPT !.area = narea, !.margin = v]
      BY <2>4 DEF setKickMargin
    <3> HIDE DEF narea
    <3>3. /\ q \in ParRec /\ q.margin = v /\ q.ball = p.ball /\ q.player = p.player /\ q.control = p.control /\ q.area = narea
          /\ q.width = p.width /\ q.l = p.l /\ q.r = p.r
      BY <2>2, <3>1, <3>2 DEF ParRec
    <3>4. p.area = p.margin + p.player + p.ball /\ p.width = p.control - p.player
      BY DEF Agrees
    <3>5. q.area = q.margin + q.player + q.ball /\ q.width = q.control - q.player
      BY <1>1, <2>2, <3>3, <3>4 DEF narea
    <3> QED  BY <3>3, <3>5 DEF Agrees
  <2>5. CASE q = setBallSize(p, v)
    <3> DEFINE narea == p.area - p.ball + v
    <3>1. narea \in Int
      BY <1>1, <2>2
    <3>2. q = [p EXCEPT !.area = narea, !.ball = v]
      BY <2>5 DEF setBallSize
    <3> HIDE DEF narea
    <3>3. /\ q \in ParRec /\ q.margin = p.margin /\ q.ball = v /\ q.player = p.player /\ q.control = p.control /\ q.area = narea
          /\ q.width = p.width /\ q.l = p.l /\ q.r = p.r
      BY <2>2, <3>1, <3>2 DEF ParRec
    <3>4. p.area = p.margin + p.player + p.ball /\ p.width = p.control - p.player
      BY DEF Agrees
    <3>5. q.area = q.margin + q.player + q.ball /\ q.width = q.control - q.player
      BY <1>1, <2>2, <3>3, <3>4 DEF narea
    <3> QED  BY <3>3, <3>5 DEF Agrees
  <2>6. CASE q = setPlayerSize(p, v)
    <3> DEFINE narea == p.area - p.player + v
               nwidth == p.width + p.player - v
    <3>1. narea \in Int /\ nwidth \in Int
      BY <1>1, <2>2
    <3>2. q = [p EXCEPT !.area = narea, !.width = nwidth, !.player = v]
      BY <2>6 DEF setPlayerSize
    <3> HIDE DEF narea, nwidth
    <3>3. /\ q \in ParRec /\ q.margin = p.margin /\ q.ball = p.ball /\ q.player = v /\ q.control = p.control /\ q.area = narea
          /\ q.width = nwidth /\ q.l = p.l /\ q.r = p.r
      BY <2>2, <3>1, <3>2 DEF ParRec
    <3>4. p.area = p.margin + p.player + p.ball /\ p.width = p.control - p.player
      BY DEF Agrees
    <3>5. q.area = q.margin + q.player + q.ball /\ q.width = q.control - q.player
      BY <1>1, <2>2, <3>3, <3>4 DEF narea, nwidth
    <3> QED  BY <3>3, <3>5 DEF Agrees
  <2> QED  BY <2>1, <2>3, <2>4, <2>5, <2>6
<1>3. CASE type = "int"
  <2>1. PICK v \in Sizes : q \in {setHalfTime(p, v), [p EXCEPT !.step = v], [p EXCEPT !.slow = v]}
    BY <1>3 DEF Assigned
  <2>2. v \in Nat \ {0}
    BY <1>0
  <2>3. CASE q = setHalfTime(p, v)
    <3>1. v * getHalfTimeScaler(p) \in Nat
      BY <2>2, ScalerType
    <3> QED  BY <2>2, <2>3, <3>1 DEF setHalfTime, ParRec, Agrees
  <2>4. CASE q = [p EXCEPT !.step = v] \/ q = [p EXCEPT !.slow = v]
    BY <2>2, <2>4 DEF ParRec, Agrees
  <2> QED  BY <2>1, <2>3, <2>4
<1>4. CASE type = "string"
  <2>1. PICK n \in TeamNames : q \in {setFixedTeamNameLeft(p, n), setFixedTeamNameRight(p, n)}
    BY <1>4 DEF Assigned
  <2>2. CASE q = setFixedTeamNameLeft(p, n)
    BY <2>2 DEF setFixedTeamNameLeft, ParRec, Agrees
  <2>3. CASE q = setFixedTeamNameRight(p, n)
    BY <2>3 DEF setFixedTeamNameRight, ParRec, Agrees
  <2> QED  BY <2>1, <2>2, <2>3
<1>5. CASE type \notin {"double", "int", "string"}
  BY <1>5 DEF Assigned
<1> QED  BY <1>2, <1>3, <1>4, <1>5

------------------------------------------------------------------------------
(* Conf: the start of the server.                                           *)

\* An error other than a failed include asks for help, which is never taken
\* back; a server that starts has not been asked; and nothing is read when
\* there is no more to read.
ErrorsAskForHelp ==
    /\ help \in BOOLEAN
    /\ ~ help => faults \subseteq {"include"}
    /\ stage \in 0 .. 5 /\ (stage = 5 => ~ help)
    /\ stage \notin 1 .. 4 => streams = <<>>

HalfAgrees == stage = 5 => par.half = par.raw * getHalfTimeScaler(par)

ConfInv == ErrorsAskForHelp /\ par \in ParRec /\ Agrees(par) /\ HalfAgrees

\* The end of a file: the next stage, or none.
LEMMA StageEnds ==
    ASSUME ConfInv, stage \in 1 .. 4, NEW v, NextStage(v) \/ (GiveUp /\ UNCHANGED <<builders, par>>),
           help' \in BOOLEAN, help => help', faults' \subseteq faults \cup {"include"} \/ help',
           help' = help \/ stage' = 0 \/ stage < 4
    PROVE  ConfInv'
<1>1. par \in ParRec /\ Agrees(par) /\ ErrorsAskForHelp
  BY DEF ConfInv
<1>2. streams' = <<>> /\ (stage' = 0 \/ (stage' = stage + 1 /\ (stage = 4 => ~ help)))
  <2>1. stage = 4 => ThisStage = "cmd line args"
    BY DEF ThisStage, Stages
  <2> QED  BY <2>1 DEF NextStage, GiveUp
<1>3. ErrorsAskForHelp'
  <2>1. stage' \in 0 .. 5 /\ (stage' = 5 => stage = 4)
    BY <1>2
  <2>2. ~ help' => faults' \subseteq {"include"}
    BY <1>1 DEF ErrorsAskForHelp
  <2>3. stage' = 5 => ~ help'
    <3>1. stage' = 5 => stage' # 0 /\ ~ (stage < 4) /\ stage = 4
      BY <1>2
    <3> QED  BY <1>2, <3>1
  <2> QED  BY <1>2, <2>1, <2>2, <2>3 DEF ErrorsAskForHelp
<1>4. CASE par' = par /\ stage' # 5
  BY <1>1, <1>3, <1>4 DEF ConfInv, HalfAgrees
<1>5. CASE par' = setSlowDownFactor(par)
  <2> DEFINE q == [par EXCEPT !.step = par.step * par.slow]
  <2>1. par.step * par.slow \in Nat \ {0}
    <3>1. par.step \in Nat \ {0} /\ par.slow \in Nat \ {0}
      BY <1>1 DEF ParRec
    <3>2. \A x, y \in Nat \ {0} : x * y \in Nat \ {0}
      OBVIOUS
    <3> QED  BY <3>1, <3>2
  <2>2. /\ q \in ParRec /\ q.raw = par.raw /\ q.area = par.area /\ q.margin = par.margin
        /\ q.ball = par.ball /\ q.player = par.player /\ q.width = par.width
        /\ q.control = par.control /\ q.l = par.l /\ q.r = par.r
    BY <1>1, <2>1 DEF ParRec
  <2>3. setSlowDownFactor(par) = [q EXCEPT !.half = q.raw * getHalfTimeScaler(q)]
    BY DEF setSlowDownFactor
  <2> HIDE DEF q
  <2> DEFINE h == q.raw * getHalfTimeScaler(q)
  <2>4. h \in Nat
    <3>1. q.raw \in Nat /\ getHalfTimeScaler(q) \in Nat
      BY <2>2, ScalerType DEF ParRec
    <3> QED  BY <3>1
  <2> HIDE DEF h
  <2>5. par' = [q EXCEPT !.half = h]
    BY <1>5, <2>3 DEF h
  <2>6. /\ par' \in ParRec /\ par'.half = h /\ par'.raw = q.raw /\ par'.step = q.step
        /\ par'.slow = q.slow /\ par'.area = q.area /\ par'.margin = q.margin
        /\ par'.ball = q.ball /\ par'.player = q.player /\ par'.width = q.width
        /\ par'.control = q.control /\ par'.l = q.l /\ par'.r = q.r
    BY <2>2, <2>4, <2>5 DEF ParRec
  <2>7. Agrees(par)'
    <3> DEFINE p == par'
    <3>1. /\ p.area = par.area /\ p.margin = par.margin /\ p.ball = par.ball
          /\ p.player = par.player /\ p.width = par.width /\ p.control = par.control
          /\ p.l = par.l /\ p.r = par.r
      BY <2>2, <2>6
    <3> HIDE DEF p
    <3>2. Agrees(p)
      BY <1>1, <3>1 DEF Agrees
    <3> QED  BY <3>2 DEF p, Agrees
  <2>8. getHalfTimeScaler(par') = getHalfTimeScaler(q)
    BY <2>6 DEF getHalfTimeScaler
  <2>9. HalfAgrees'
    BY <2>6, <2>8 DEF HalfAgrees, h
  <2> QED  BY <1>3, <2>6, <2>7, <2>9 DEF ConfInv
<1>6. par' = setSlowDownFactor(par) \/ (par' = par /\ stage' # 5)
  <2>1. CASE stage = 4
    <3>1. ThisStage = "cmd line args" /\ ThisStage \notin Modules
      BY <2>1 DEF ThisStage, Stages, Modules
    <3>2. CASE GiveUp /\ UNCHANGED <<builders, par>>
      <4>1. par' = par /\ stage' = 0
        BY <3>2 DEF GiveUp
      <4> QED  BY <4>1
    <3>3. CASE NextStage(v) /\ ~ help
      <4>1. par' = setSlowDownFactor(par)
        BY <3>1, <3>3 DEF NextStage
      <4> QED  BY <4>1
    <3>4. CASE NextStage(v) /\ help
      BY <3>1, <3>2, <3>4 DEF NextStage
    <3> QED  BY <3>2, <3>3, <3>4
  <2>2. CASE stage # 4
    <3>1. ThisStage # "cmd line args"
      <4>1. stage = 1 \/ stage = 2 \/ stage = 3
        BY <2>2
      <4>2. Stages[1] = "server" /\ Stages[2] = "player" /\ Stages[3] = "CSVSaver"
        BY DEF Stages
      <4> QED  BY <4>1, <4>2 DEF ThisStage
    <3>2. stage' # 5
      BY <1>2, <2>2
    <3> QED  BY <3>1, <3>2 DEF NextStage, GiveUp
  <2> QED  BY <2>1, <2>2
<1> QED  BY <1>4, <1>5, <1>6

\* A step within a stage.
LEMMA StageGoesOn ==
    ASSUME ConfInv, stage' = stage, stage \in 1 .. 4,
           help' \in BOOLEAN, help => help', faults' \subseteq faults \cup {"include"} \/ help',
           par' = par \/ \E type : par' \in Assigned(par, type)
    PROVE  ConfInv'
<1>1. ErrorsAskForHelp'
  BY DEF ConfInv, ErrorsAskForHelp
<1>2. (par \in ParRec)' /\ Agrees(par)'
  BY SettersAgree DEF ConfInv
<1>3. HalfAgrees'
  <2>1. stage' # 5
    OBVIOUS
  <2> QED  BY <2>1 DEF HalfAgrees
<1> QED  BY <1>1, <1>2, <1>3 DEF ConfInv

\* In whatever order files are read, included, created and found wrong: a
\* server that starts has met no error, and its parameters agree.
THEOREM StartsRightHolds == ConfSpec => []StartsRight
<1>1. ConfInit => ConfInv
  <2> SUFFICES ASSUME ConfInit PROVE ConfInv
    OBVIOUS
  <2>1. stage = 1 /\ help = FALSE /\ faults = {}
    BY DEF ConfInit
  <2>2. ErrorsAskForHelp /\ stage # 5
    <3>1. stage \in 0 .. 5 /\ stage \in 1 .. 4 /\ stage # 5
      BY <2>1
    <3> QED  BY <2>1, <3>1 DEF ErrorsAskForHelp
  <2> QED  BY <2>2, DefaultsAgree DEF ConfInit, ConfInv, HalfAgrees
<1>2. ConfInv /\ [ConfNext]_fvars => ConfInv'
  <2> SUFFICES ASSUME ConfInv, [ConfNext]_fvars PROVE ConfInv'
    OBVIOUS
  <2>0. help \in BOOLEAN /\ (streams # <<>> => stage \in 1 .. 4)
    BY DEF ConfInv, ErrorsAskForHelp
  <2>1. CASE convertOldConf \/ parseConf
    <3>1. stage \in 1 .. 4 /\ UNCHANGED <<stage, help, par, faults>>
      BY <2>1 DEF convertOldConf, parseConf, Idle
    <3> QED  BY <2>0, <3>1, StageGoesOn
  <2>2. CASE createConf
    <3>1. stage \in 1 .. 4 /\ UNCHANGED <<help, faults>>
      BY <2>2 DEF createConf, Idle
    <3>2. \E v : NextStage(v) \/ (GiveUp /\ UNCHANGED <<builders, par>>)
      BY <2>2 DEF createConf
    <3> QED  BY <2>0, <3>1, <3>2, StageEnds
  <2>3. ASSUME NEW m \in Modules, buildVersion(m) PROVE ConfInv'
    <3>1. stage \in 1 .. 4 /\ UNCHANGED <<stage, help, par, faults>>
      BY <2>0, <2>3 DEF buildVersion, Item, Same
    <3> QED  BY <2>0, <3>1, StageGoesOn
  <2>4. ASSUME NEW m \in Modules, NEW type \in DOMAIN setParam, NEW value \in ValueTypes,
               buildParam(m, type, value)
        PROVE  ConfInv'
    <3>1. stage \in 1 .. 4 /\ stage' = stage
      BY <2>0, <2>4 DEF buildParam, Item, Same
    <3>2. /\ help' \in BOOLEAN /\ (help => help')
          /\ faults' \subseteq faults \cup {"include"} \/ help'
          /\ par' = par \/ par' \in Assigned(par, type)
      BY <2>0, <2>4 DEF buildParam, buildError, requestGenericHelp
    <3> QED  BY <3>1, <3>2, StageGoesOn
  <2>5. ASSUME NEW f \in Files, include(f) PROVE ConfInv'
    <3>1. /\ stage \in 1 .. 4 /\ UNCHANGED <<stage, help, par>>
          /\ faults' \subseteq faults \cup {"include"}
      BY <2>0, <2>5 DEF include, Item, Same, includeFailed
    <3> QED  BY <2>0, <3>1, StageGoesOn
  <2>6. CASE requestHelp
    <3>1. stage \in 1 .. 4 /\ UNCHANGED <<stage, par>> /\ help' = TRUE
      BY <2>0, <2>6 DEF requestHelp, requestGenericHelp, Item, Same
    <3> QED  BY <3>1, StageGoesOn
  <2>7. CASE endOfFile
    <3>1. stage \in 1 .. 4 /\ UNCHANGED <<help, faults>> /\ Leave(success)
      BY <2>0, <2>7 DEF endOfFile
    <3>2. CASE Len(streams) > 1 \/ ~ opened
      <4>1. UNCHANGED <<stage, par>>
        BY <3>1, <3>2 DEF Leave
      <4> QED  BY <2>0, <3>1, <4>1, StageGoesOn
    <3>3. CASE ~ (Len(streams) > 1 \/ ~ opened)
      <4>1. NextStage(parsed) \/ (GiveUp /\ UNCHANGED <<builders, par>>)
        BY <3>1, <3>3 DEF Leave
      <4> QED  BY <2>0, <3>1, <4>1, StageEnds
    <3> QED  BY <3>2, <3>3
  <2>8. CASE syntaxError
    <3>1. stage \in 1 .. 4 /\ help' = TRUE /\ Leave(FALSE)
      BY <2>0, <2>8 DEF syntaxError, parseError, requestGenericHelp, Item
    <3>2. CASE Len(streams) > 1 \/ ~ opened
      <4>1. UNCHANGED <<stage, par>>
        BY <3>1, <3>2 DEF Leave
      <4> QED  BY <3>1, <4>1, StageGoesOn
    <3>3. CASE ~ (Len(streams) > 1 \/ ~ opened)
      <4>1. GiveUp /\ UNCHANGED <<builders, par>> /\ stage' = 0
        BY <3>1, <3>3 DEF Leave, GiveUp
      <4> QED  BY <3>1, <4>1, StageEnds
    <3> QED  BY <3>2, <3>3
  <2>9. CASE UNCHANGED fvars
    BY <2>9 DEF fvars, ConfInv, ErrorsAskForHelp, HalfAgrees, Agrees, getHalfTimeScaler
  <2> QED  BY <2>1, <2>2, <2>3, <2>4, <2>5, <2>6, <2>7, <2>8, <2>9 DEF ConfNext
<1>3. ConfInv => StartsRight
  BY DEF ConfInv, ErrorsAskForHelp, HalfAgrees, Agrees, StartsRight, StartsClean,
         DerivedParameters, Running
<1> QED  BY <1>1, <1>2, <1>3, PTL DEF ConfSpec

------------------------------------------------------------------------------
(* Monitors and game log: what the serializers write.                       *)

\* The parts that every serializer can be asked for.
Parts == {"pm", "score", "ball", "begin", "pos", "arm", "view", "focusPoint", "stamina",
          "focus", "counts"}

\* What all serializers have in common, those of version 3 with the least.
Serializes(z) ==
    /\ DOMAIN z = Parts
    /\ z["pm"] = {"pm"} /\ z["score"] = {"teams", "penalties"}
    /\ z["ball"] = {"ball", "ball_vel"} /\ z["begin"] = {"state", "type"}
    /\ z["pos"] = {"pos", "vel", "body", "neck"} /\ z["arm"] = {"arm"}
    /\ z["view"] = {"view"} /\ z["focus"] = {"focus"}
    /\ z["focusPoint"] \subseteq {"focus_point"}
    /\ "stamina" \in z["stamina"] /\ z["stamina"] \subseteq {"stamina", "capacity"}
    /\ {"counts", "tackle_count"} \subseteq z["counts"]
    /\ z["counts"] \subseteq {"counts", "tackle_count", "change_focus"}

LEMMA SerializerV3Parts ==
    /\ Serializes(SerializerV3)
    /\ SerializerV3["focusPoint"] = {} /\ SerializerV3["stamina"] = {"stamina"}
    /\ SerializerV3["counts"] = {"counts", "tackle_count"}
<1>1. DOMAIN SerializerV3 = Parts
  BY DEF Parts, SerializerV3, SerializerV3Match, SerializerV3Player, Both
<1>2. /\ SerializerV3["pm"] = {"pm"} /\ SerializerV3["score"] = {"teams", "penalties"}
      /\ SerializerV3["ball"] = {"ball", "ball_vel"} /\ SerializerV3["begin"] = {"state", "type"}
      /\ SerializerV3["pos"] = {"pos", "vel", "body", "neck"} /\ SerializerV3["arm"] = {"arm"}
  BY DEF SerializerV3, SerializerV3Match, SerializerV3Player, Both
<1>3. /\ SerializerV3["view"] = {"view"} /\ SerializerV3["focus"] = {"focus"}
      /\ SerializerV3["focusPoint"] = {} /\ SerializerV3["stamina"] = {"stamina"}
      /\ SerializerV3["counts"] = {"counts", "tackle_count"}
  BY DEF SerializerV3, SerializerV3Match, SerializerV3Player, Both
<1> QED  BY <1>1, <1>2, <1>3 DEF Serializes

LEMMA LaterSerializers ==
    /\ Serializes(SerializerV4) /\ Serializes(SerializerV5)
    /\ \A p \in Parts : /\ SerializerV3[p] \subseteq SerializerV4[p]
                        /\ SerializerV4[p] \subseteq SerializerV5[p]
<1>1. DOMAIN SerializerV4 = Parts /\ DOMAIN SerializerV5 = Parts
  BY SerializerV3Parts DEF Serializes, SerializerV4, SerializerV5
<1>2. \A p \in Parts : SerializerV4[p] = IF p = "stamina" THEN {"stamina", "capacity"}
                                        ELSE SerializerV3[p]
  BY SerializerV3Parts DEF Serializes, SerializerV4
<1>3. \A p \in Parts : SerializerV5[p] = IF p = "counts" THEN SerializerV4[p] \cup {"change_focus"}
                                        ELSE IF p = "focusPoint" THEN {"focus_point"}
                                        ELSE SerializerV4[p]
  BY <1>1 DEF SerializerV5
<1>4. \A p \in Parts : /\ SerializerV3[p] \subseteq SerializerV4[p]
                       /\ SerializerV4[p] \subseteq SerializerV5[p]
  BY <1>2, <1>3, SerializerV3Parts
<1>5. Serializes(SerializerV4)
  BY <1>1, <1>2, SerializerV3Parts DEF Serializes, Parts
<1>6. Serializes(SerializerV5)
  BY <1>1, <1>3, <1>5 DEF Serializes, Parts
<1> QED  BY <1>4, <1>5, <1>6

LEMMA JSONParts ==
    Serializes(SerializerJSON)
<1> DEFINE P == SerializerV3Player
           M == SerializerV3Match
           J == SerializerJSONPlayer
<1>1. /\ DOMAIN P = Parts \ {"pm", "score", "ball"} /\ DOMAIN M = {"pm", "score", "ball"}
      /\ P["counts"] = {"counts", "tackle_count"}
  BY DEF SerializerV3Player, SerializerV3Match, Parts
<1>2. /\ DOMAIN J = Parts \ {"pm", "score", "ball"}
      /\ J["counts"] = {"counts", "tackle_count", "change_focus"}
      /\ J["focusPoint"] = {"focus_point"} /\ J["stamina"] = {"stamina", "capacity"}
      /\ \A p \in Parts \ {"pm", "score", "ball", "counts", "focusPoint", "stamina"} : J[p] = P[p]
  BY <1>1 DEF SerializerJSONPlayer, Parts
<1>3. SerializerJSON = [p \in Parts |-> IF p \in {"pm", "score", "ball"} THEN M[p] ELSE J[p]]
  BY <1>1, <1>2 DEF SerializerJSON, SerializerJSONMatch, Both, Parts
<1>4. \A p \in {"begin", "pos", "arm", "view", "focus"} : SerializerJSON[p] = P[p]
  BY <1>2, <1>3 DEF Parts
<1>5. /\ P["begin"] = {"state", "type"} /\ P["pos"] = {"pos", "vel", "body", "neck"}
      /\ P["arm"] = {"arm"} /\ P["view"] = {"view"} /\ P["focus"] = {"focus"}
  BY DEF SerializerV3Player
<1>6. M["pm"] = {"pm"} /\ M["score"] = {"teams", "penalties"} /\ M["ball"] = {"ball", "ball_vel"}
  BY DEF SerializerV3Match
<1>7. \A p \in {"pm", "score", "ball"} : SerializerJSON[p] = M[p]
  BY <1>3 DEF Parts
<1>8. \A p \in {"counts", "focusPoint", "stamina"} : SerializerJSON[p] = J[p]
  BY <1>3 DEF Parts
<1> HIDE DEF P, M, J
<1> QED  BY <1>2, <1>3, <1>4, <1>5, <1>6, <1>7, <1>8 DEF Serializes

\* The class of monitors to which a message may be sent from the cache gets what
\* the first protocol of the class shows, and knows the types that it is told of.
LEMMA ClassShows ==
    ASSUME NEW v \in {-1} \cup 1 .. 5, NEW w \in {-1} \cup 1 .. 5,
           SenderClass(v) = SenderClass(w)
    PROVE  /\ MonitorShow(SenderClass(v)) \cup {"pm", "teams"} \subseteq MonitorShow(w)
           /\ "type" \in MonitorShow(w) => "player_type" \in InitMonitor(v)
<1>1. CASE v \in {1, 2, -1}
  <2>1. w = v /\ SenderClass(v) = v
    BY <1>1 DEF SenderClass
  <2>2. {"pm", "teams"} \subseteq MonitorShow(v)
    <3>1. CASE v = 1
      BY <3>1 DEF MonitorShow, MonitorShowV1
    <3>2. CASE v = 2
      BY <3>2 DEF MonitorShow, MonitorShowV1, MonitorShowV2
    <3>3. CASE v = -1
      <4>1. MonitorShow(v) = Asked(SerializerJSON, Parts \ {"counts"})
        BY <3>3, JSONParts DEF MonitorShow, MonitorShowJSON, Serializer, Serializes
      <4>2. "pm" \in Parts \ {"counts"} /\ "score" \in Parts \ {"counts"}
        BY DEF Parts
      <4>3. "pm" \in SerializerJSON["pm"] /\ "teams" \in SerializerJSON["score"]
        BY JSONParts DEF Serializes
      <4> QED  BY <4>1, <4>2, <4>3 DEF Asked
    <3> QED  BY <1>1, <3>1, <3>2, <3>3
  <2>3. "type" \in MonitorShow(v) => "player_type" \in InitMonitor(v)
    <3>1. CASE v = 1
      BY <3>1 DEF MonitorShow, MonitorShowV1
    <3>2. CASE v # 1
      BY <3>2 DEF InitMonitor, AllParams
    <3> QED  BY <3>1, <3>2
  <2> QED  BY <2>1, <2>2, <2>3
<1>2. CASE v \in 3 .. 5
  <2>1. w \in 3 .. 5 /\ SenderClass(v) = 3
    BY <1>2 DEF SenderClass
  <2>2. \A x \in 3 .. 5 : MonitorShow(x) = Asked(Serializer(x), Parts)
    <3>1. \A x \in 3 .. 5 : DOMAIN Serializer(x) = Parts
      BY SerializerV3Parts, LaterSerializers DEF Serializer, Serializes
    <3> QED  BY <3>1 DEF MonitorShow, MonitorShowV3
  <2>3. Serializer(3) = SerializerV3 /\ \A p \in Parts : SerializerV3[p] \subseteq Serializer(w)[p]
    BY <2>1, LaterSerializers DEF Serializer
  <2>4. MonitorShow(3) \subseteq MonitorShow(w)
    BY <2>1, <2>2, <2>3 DEF Asked
  <2>5. "pm" \in Parts /\ "score" \in Parts
    BY DEF Parts
  <2>6. "pm" \in SerializerV3["pm"] /\ "teams" \in SerializerV3["score"]
    BY SerializerV3Parts DEF Serializes
  <2>7. {"pm", "teams"} \subseteq MonitorShow(3)
    <3>1. MonitorShow(3) = Asked(SerializerV3, Parts)
      BY <2>2, <2>3
    <3> QED  BY <2>5, <2>6, <3>1 DEF Asked
  <2>8. "player_type" \in InitMonitor(v)
    BY <1>2 DEF InitMonitor, AllParams
  <2> QED  BY <2>1, <2>4, <2>7, <2>8
<1> QED  BY <1>1, <1>2

\* Which formats of the log tell the play mode and the teams in the show, and
\* which in records of their own.
LEMMA FormatTells ==
    ASSUME NEW f \in {-1} \cup 1 .. 6
    PROVE  /\ f \in {1, 2} => LogRecords(f) = {} /\ {"pm", "teams"} \subseteq LogShow(f)
           /\ f \notin {1, 2} => {"pm", "teams"} \subseteq LogRecords(f) /\ "pm" \notin LogShow(f)
           /\ f \notin 1 .. 3 => "penalties" \in LogRecords(f)
<1>1. CASE f \in {1, 2}
  BY <1>1 DEF LogRecords, LogRecordsV1, LogShow, LogShowV1, LogShowV2
<1>2. CASE f = 3
  BY <1>2 DEF LogRecords, LogRecordsV3, LogShow, LogShowV3
<1>3. ASSUME NEW z, Serializes(z) PROVE \A p \in Parts \ {"pm", "score"} : "pm" \notin z[p]
  BY <1>3 DEF Serializes, Parts
<1>4. CASE f \in 4 .. 6
  <2>1. f - 1 \in 3 .. 5
    BY <1>4
  <2>2. Serializes(Serializer(f - 1))
    BY <2>1, SerializerV3Parts, LaterSerializers DEF Serializer
  <2>3. LogShow(f) = Asked(Serializer(f - 1), Parts \ {"pm", "score"})
    BY <1>4, <2>2 DEF LogShow, LogShowV4, Serializes
  <2>4. "pm" \notin LogShow(f)
    BY <1>3, <2>2, <2>3 DEF Asked
  <2> QED  BY <1>4, <2>4 DEF LogRecords, LogRecordsV4
<1>5. CASE f = -1
  <2>1. LogShow(f) = Asked(SerializerJSON, Parts \ {"pm", "score", "focusPoint"})
    BY <1>5, JSONParts DEF LogShow, LogShowJSON, Serializer, Serializes
  <2>2. "pm" \notin LogShow(f)
    BY <1>3, <2>1, JSONParts DEF Asked
  <2> QED  BY <1>5, <2>2 DEF LogRecords, LogRecordsJSON, LogRecordsV4
<1> QED  BY <1>1, <1>2, <1>3, <1>4, <1>5

\* Later formats of the log tell more.
LEMMA FormatsGrow ==
    ASSUME NEW f \in {-1} \cup 1 .. 6
    PROVE  /\ "type" \in LogShow(f) => "player_type" \in LogParams(f)
           /\ \A e \in 1 .. f : LogShow(e) \cup LogRecords(e) \subseteq LogShow(f) \cup LogRecords(f)
<1> DEFINE All(g) == LogShow(g) \cup LogRecords(g)
           rest == Parts \ {"pm", "score"}
<1>1. "type" \in LogShow(f) => "player_type" \in LogParams(f)
  <2>1. CASE f \in {1, 2}
    BY <2>1 DEF LogShow, LogShowV1, LogShowV2
  <2>2. CASE f \notin {1, 2}
    BY <2>2 DEF LogParams, LogParamsV3, AllParams
  <2> QED  BY <2>1, <2>2
<1>2. /\ LogShow(1) = LogShowV1 /\ LogShow(2) = LogShowV1 /\ LogShow(3) = LogShowV3
      /\ LogRecords(1) = {} /\ LogRecords(2) = {} /\ LogRecords(3) = LogRecordsV3
  BY DEF LogShow, LogShowV2, LogRecords, LogRecordsV1
<1>3. /\ LogShow(4) = Asked(SerializerV3, rest) /\ LogShow(5) = Asked(SerializerV4, rest)
      /\ LogShow(6) = Asked(SerializerV5, rest)
      /\ \A g \in 4 .. 6 : LogRecords(g) = LogRecordsV4
  <2>1. Serializer(3) = SerializerV3 /\ Serializer(4) = SerializerV4 /\ Serializer(5) = SerializerV5
    BY DEF Serializer
  <2>2. \A g \in 4 .. 6 : LogShow(g) = LogShowV4(Serializer(g - 1)) /\ LogRecords(g) = LogRecordsV4
    BY DEF LogShow, LogRecords
  <2>3. DOMAIN SerializerV3 = Parts /\ DOMAIN SerializerV4 = Parts /\ DOMAIN SerializerV5 = Parts
    BY SerializerV3Parts, LaterSerializers DEF Serializes
  <2>4. 4 - 1 = 3 /\ 5 - 1 = 4 /\ 6 - 1 = 5 /\ {4, 5, 6} \subseteq 4 .. 6
    OBVIOUS
  <2> QED  BY <2>1, <2>2, <2>3, <2>4 DEF LogShowV4
<1>4. All(1) = All(2) /\ All(2) \subseteq All(3)
  BY <1>2 DEF LogShowV1, LogShowV3, LogRecordsV3
<1>5. All(3) \subseteq All(4)
  <2>1. {"ball", "begin", "pos", "view", "stamina", "counts"} \subseteq rest
    BY DEF Parts
  <2>2. /\ {"ball", "ball_vel"} \subseteq SerializerV3["ball"]
        /\ {"state", "type"} \subseteq SerializerV3["begin"]
        /\ {"pos", "vel", "body", "neck"} \subseteq SerializerV3["pos"]
        /\ "view" \in SerializerV3["view"] /\ "stamina" \in SerializerV3["stamina"]
        /\ "counts" \in SerializerV3["counts"]
    BY SerializerV3Parts DEF Serializes
  <2>3. LogShowV3 \subseteq Asked(SerializerV3, rest)
    BY <2>1, <2>2 DEF LogShowV3, Asked
  <2> QED  BY <1>2, <1>3, <2>3 DEF LogRecordsV3, LogRecordsV4
<1>6. All(4) \subseteq All(5) /\ All(5) \subseteq All(6)
  BY <1>3, LaterSerializers DEF Asked
<1> HIDE DEF All
<1>7. \A e \in 1 .. f : All(e) \subseteq All(f)
  <2>1. TAKE e \in 1 .. f
  <2>2. f \in 1 .. 6 /\ e \in 1 .. 6 /\ e <= f
    OBVIOUS
  <2> QED  BY <1>4, <1>5, <1>6, <2>2
<1> QED  BY <1>1, <1>7 DEF All

------------------------------------------------------------------------------
(* The game log: Logger's copies of the match are what its records told.    *)

MatchRec == [pm : Phases \cup {Unknown}, named : [Sides -> BOOLEAN],
             point : [Sides -> Nat], taken : [Sides -> Nat]]
ToldRec == [pm : Phases \cup {Unknown}, named : [Sides -> BOOLEAN],
            point : [Sides -> Nat \cup {Unknown}], taken : [Sides -> Nat]]
LogRec == [format : LogFormats, fixed : BOOLEAN, file : {"open", "bad", "closed"},
           memo : MatchRec, told : ToldRec, shown : MatchRec, final : BOOLEAN, ends : Nat]

\* What a reader was told, t, is what the copies, m, hold (but for the penalties
\* in format 3, which has no record of them).
Told(f, t, m) ==
    /\ t.pm = m.pm /\ t.named = m.named /\ t.point = m.point
    /\ f \notin 1 .. 3 => t.taken = m.taken

\* The part of LogTellsMatch that is about the last show, m.
Tells(f, t, m) ==
    m.pm # Unknown =>
        /\ t.pm = m.pm
        /\ \A s \in Sides : m.named[s] => t.named[s] /\ t.point[s] = m.point[s]
        /\ f \notin 1 .. 3 => t.taken = m.taken

\* The formats 1 and 2 write no records; the others have told what the copies
\* hold until the tail of the file is written, which leaves the copies behind.
LogGood(l) ==
    /\ l \in LogRec
    /\ l.file = "closed" => l.ends = 1
    /\ l.file # "closed" => l.ends = 0
    /\ l.format \notin {1, 2} /\ l.file # "closed" => Told(l.format, l.told, l.memo)
    /\ Tells(l.format, l.told, l.shown)

LEMMA LogRecFields ==
    ASSUME NEW l \in LogRec
    PROVE  /\ l.format \in {-1} \cup 1 .. 6
           /\ l.memo \in MatchRec /\ l.told \in ToldRec /\ l.shown \in MatchRec
BY DisplayAssumption DEF LogRec

\* The fields of what was told, one set after the other.
LEMMA ToldSet ==
    ASSUME NEW t \in ToldRec, NEW q \in Phases \cup {Unknown}, NEW n \in [Sides -> BOOLEAN],
           NEW p \in [Sides -> Nat \cup {Unknown}], NEW k \in [Sides -> Nat]
    PROVE  /\ [t EXCEPT !.pm = q]
                  = [pm |-> q, named |-> t.named, point |-> t.point, taken |-> t.taken]
           /\ [t EXCEPT !.named = n]
                  = [pm |-> t.pm, named |-> n, point |-> t.point, taken |-> t.taken]
           /\ [t EXCEPT !.point = p]
                  = [pm |-> t.pm, named |-> t.named, point |-> p, taken |-> t.taken]
           /\ [t EXCEPT !.taken = k]
                  = [pm |-> t.pm, named |-> t.named, point |-> t.point, taken |-> k]
           /\ [pm |-> q, named |-> n, point |-> p, taken |-> k] \in ToldRec
<1>1. [t EXCEPT !.pm = q]
          = [pm |-> q, named |-> t.named, point |-> t.point, taken |-> t.taken]
  BY DEF ToldRec
<1>2. [t EXCEPT !.named = n]
          = [pm |-> t.pm, named |-> n, point |-> t.point, taken |-> t.taken]
  BY DEF ToldRec
<1>3. [t EXCEPT !.point = p]
          = [pm |-> t.pm, named |-> t.named, point |-> p, taken |-> t.taken]
  BY DEF ToldRec
<1>4. [t EXCEPT !.taken = k]
          = [pm |-> t.pm, named |-> t.named, point |-> t.point, taken |-> k]
  BY DEF ToldRec
<1>5. [pm |-> q, named |-> n, point |-> p, taken |-> k] \in ToldRec
  BY DEF ToldRec
<1> QED  BY <1>1, <1>2, <1>3, <1>4, <1>5

\* The play mode record.
LEMMA PlayModeTold ==
    ASSUME NEW l \in LogRec, NEW m \in MatchRec
    PROVE  \E t \in ToldRec :
              /\ sendPlayMode(l, m) = [l EXCEPT !.told = t]
              /\ t.named = l.told.named /\ t.point = l.told.point /\ t.taken = l.told.taken
              /\ l.format \notin {1, 2} => t.pm = m.pm
<1> USE LogRecFields, FormatTells
<1> DEFINE old == l.told
           new == [old EXCEPT !.pm = m.pm]
<1>1. old \in ToldRec
  OBVIOUS
<1>2. new \in ToldRec /\ new.named = old.named /\ new.point = old.point
      /\ new.taken = old.taken /\ new.pm = m.pm
  <2> HIDE DEF old
  <2> QED  BY <1>1 DEF ToldRec, MatchRec
<1>3. CASE "pm" \in LogRecords(l.format)
  <2>1. sendPlayMode(l, m) = [l EXCEPT !.told = new]
    BY <1>3 DEF sendPlayMode
  <2> HIDE DEF new
  <2> QED  BY <1>2, <2>1
<1>4. CASE "pm" \notin LogRecords(l.format)
  <2>1. sendPlayMode(l, m) = l /\ l = [l EXCEPT !.told = old]
    BY <1>4 DEF sendPlayMode, LogRec
  <2>2. l.format \in {1, 2}
    BY <1>4
  <2> QED  BY <1>1, <2>1, <2>2
<1> QED  BY <1>3, <1>4

\* The team record.
LEMMA TeamsTold ==
    ASSUME NEW l \in LogRec, NEW m \in MatchRec
    PROVE  \E t \in ToldRec :
              /\ sendTeam(l, m) = [l EXCEPT !.told = t]
              /\ t.pm = l.told.pm
              /\ l.format \notin {1, 2} => t.named = m.named /\ t.point = m.point
              /\ l.format \notin 1 .. 3 => t.taken = m.taken
<1> USE LogRecFields
<1> DEFINE old == l.told
           R == LogRecords(l.format)
           n == IF "teams" \in R THEN m.named ELSE l.told.named
           p == IF "teams" \in R THEN m.point ELSE l.told.point
           k == IF "penalties" \in R THEN m.taken ELSE l.told.taken
           new == [pm |-> old.pm, named |-> n, point |-> p, taken |-> k]
<1>1. old \in ToldRec /\ n \in [Sides -> BOOLEAN] /\ p \in [Sides -> Nat \cup {Unknown}]
      /\ k \in [Sides -> Nat]
  <2>1. old \in ToldRec
    OBVIOUS
  <2>2. /\ l.told.named \in [Sides -> BOOLEAN] /\ m.named \in [Sides -> BOOLEAN]
        /\ l.told.point \in [Sides -> Nat \cup {Unknown}] /\ m.point \in [Sides -> Nat]
        /\ l.told.taken \in [Sides -> Nat] /\ m.taken \in [Sides -> Nat]
    BY <2>1 DEF ToldRec, MatchRec
  <2>3. m.point \in [Sides -> Nat \cup {Unknown}]
    BY <2>2
  <2> QED  BY <2>1, <2>2, <2>3
<1>2. sendTeam(l, m) = [[[l EXCEPT !.told.named = n] EXCEPT !.told.point = p] EXCEPT !.told.taken = k]
  BY <1>1 DEF sendTeam, LogRec, ToldRec
<1>3. l.format \notin {1, 2} => "teams" \in R
  BY FormatTells
<1>4. l.format \notin 1 .. 3 => "penalties" \in R
  BY FormatTells
<1>5. /\ l.format \notin {1, 2} => n = m.named /\ p = m.point
      /\ l.format \notin 1 .. 3 => k = m.taken
  BY <1>3, <1>4
<1> HIDE DEF n, p, k
<1>6. new \in ToldRec /\ new.pm = old.pm /\ new.named = n /\ new.point = p /\ new.taken = k
  BY <1>1 DEF ToldRec
<1>7. [[[old EXCEPT !.named = n] EXCEPT !.point = p] EXCEPT !.taken = k] = new
  <2> DEFINE a == [pm |-> old.pm, named |-> n, point |-> old.point, taken |-> old.taken]
             b == [pm |-> old.pm, named |-> n, point |-> p, taken |-> old.taken]
  <2>1. /\ old.pm \in Phases \cup {Unknown} /\ old.point \in [Sides -> Nat \cup {Unknown}]
        /\ old.taken \in [Sides -> Nat]
    BY <1>1 DEF ToldRec
  <2> HIDE DEF old
  <2>2. [old EXCEPT !.named = n] = a /\ a \in ToldRec
    BY <1>1, <2>1, ToldSet
  <2>3. [a EXCEPT !.point = p] = b /\ b \in ToldRec
    BY <1>1, <2>1, <2>2, ToldSet
  <2>4. [b EXCEPT !.taken = k] = new
    BY <1>1, <2>3, ToldSet
  <2> HIDE DEF a, b
  <2> QED  BY <2>2, <2>3, <2>4
<1>8. sendTeam(l, m) = [l EXCEPT !.told = new]
  <2>1. [l EXCEPT !.told.named = n] = [l EXCEPT !.told = [old EXCEPT !.named = n]]
    BY DEF LogRec
  <2> QED  BY <1>1, <1>2, <1>7, <2>1 DEF LogRec
<1> HIDE DEF new
<1> QED  BY <1>5, <1>6, <1>8

\* The show of a format that has the play mode and the teams in it tells them;
\* the other shows change nothing that a reader knows of the match.
LEMMA ShowTold ==
    ASSUME NEW l \in LogRec, NEW m \in MatchRec
    PROVE  \E t \in ToldRec :
              /\ ShowRecord(l, m) = [[l EXCEPT !.told = t] EXCEPT !.shown = m]
              /\ l.format \in {1, 2} => Tells(l.format, t, m)
              /\ l.format \notin {1, 2} => t = l.told
<1> DEFINE old == l.told
           p == [s \in Sides |-> IF m.named[s] \/ l.format = 2 THEN m.point[s] ELSE Unknown]
           new == [pm |-> m.pm, named |-> m.named, point |-> p, taken |-> old.taken]
<1>1. old \in ToldRec
  BY LogRecFields
<1>2. CASE l.format \in {1, 2}
  <2>1. {"pm", "teams"} \subseteq LogShow(l.format)
    BY <1>2, FormatTells, LogRecFields
  <2>2. ShowRecord(l, m) = [[[[l EXCEPT !.told.pm = m.pm] EXCEPT !.told.named = m.named]
                                EXCEPT !.told.point = p] EXCEPT !.shown = m]
    BY <2>1 DEF ShowRecord, LogRec
  <2>3. /\ m.pm \in Phases \cup {Unknown} /\ m.named \in [Sides -> BOOLEAN]
        /\ m.point \in [Sides -> Nat]
    BY DEF MatchRec
  <2>4. p \in [Sides -> Nat \cup {Unknown}] /\ \A s \in Sides : m.named[s] => p[s] = m.point[s]
    BY <2>3
  <2> HIDE DEF p
  <2>5. old.taken \in [Sides -> Nat]
    BY <1>1 DEF ToldRec
  <2>6. /\ new \in ToldRec /\ new.pm = m.pm /\ new.named = m.named /\ new.point = p
    BY <2>3, <2>4, <2>5 DEF ToldRec
  <2>7. [[[old EXCEPT !.pm = m.pm] EXCEPT !.named = m.named] EXCEPT !.point = p] = new
    <3> DEFINE a == [pm |-> m.pm, named |-> old.named, point |-> old.point, taken |-> old.taken]
               b == [pm |-> m.pm, named |-> m.named, point |-> old.point, taken |-> old.taken]
    <3>1. old.named \in [Sides -> BOOLEAN] /\ old.point \in [Sides -> Nat \cup {Unknown}]
      BY <1>1 DEF ToldRec
    <3> HIDE DEF old
    <3>2. [old EXCEPT !.pm = m.pm] = a /\ a \in ToldRec
      BY <1>1, <2>3, <2>5, <3>1, ToldSet
    <3>3. [a EXCEPT !.named = m.named] = b /\ b \in ToldRec
      BY <2>3, <2>5, <3>1, <3>2, ToldSet
    <3>4. [b EXCEPT !.point = p] = new
      BY <2>4, <3>3, ToldSet
    <3> HIDE DEF a, b
    <3> QED  BY <3>2, <3>3, <3>4
  <2>8. ShowRecord(l, m) = [[l EXCEPT !.told = new] EXCEPT !.shown = m]
    <3>1. [l EXCEPT !.told.pm = m.pm] = [l EXCEPT !.told = [old EXCEPT !.pm = m.pm]]
      BY DEF LogRec
    <3>2. [[l EXCEPT !.told.pm = m.pm] EXCEPT !.told.named = m.named]
            = [l EXCEPT !.told = [[old EXCEPT !.pm = m.pm] EXCEPT !.named = m.named]]
      BY <3>1 DEF LogRec
    <3>3. [[[l EXCEPT !.told.pm = m.pm] EXCEPT !.told.named = m.named] EXCEPT !.told.point = p]
            = [l EXCEPT !.told = new]
      BY <2>7, <3>2 DEF LogRec
    <3> QED  BY <2>2, <3>3
  <2> HIDE DEF new
  <2>9. Tells(l.format, new, m)
    BY <1>2, <2>4, <2>6 DEF Tells
  <2> QED  BY <1>2, <2>6, <2>8, <2>9
<1>3. CASE l.format \notin {1, 2}
  <2>1. "pm" \notin LogShow(l.format)
    BY <1>3, FormatTells, LogRecFields
  <2>2. ShowRecord(l, m) = [l EXCEPT !.shown = m]
    BY <2>1 DEF ShowRecord
  <2>3. l = [l EXCEPT !.told = l.told]
    BY DEF LogRec
  <2> QED  BY <1>1, <1>3, <2>2, <2>3
<1> QED  BY <1>2, <1>3

\* Fields of the log that are set.
LEMMA ToldIsSet ==
    ASSUME NEW l \in LogRec, NEW t \in ToldRec, NEW x, x = [l EXCEPT !.told = t]
    PROVE  /\ x \in LogRec /\ x.told = t /\ x.memo = l.memo /\ x.shown = l.shown
           /\ x.format = l.format /\ x.file = l.file /\ x.ends = l.ends
BY DEF LogRec

LEMMA MemoIsSet ==
    ASSUME NEW l \in LogRec, NEW c \in MatchRec, NEW x, x = [l EXCEPT !.memo = c]
    PROVE  /\ x \in LogRec /\ x.told = l.told /\ x.memo = c /\ x.shown = l.shown
           /\ x.format = l.format /\ x.file = l.file /\ x.ends = l.ends
BY DEF LogRec

LEMMA ShownIsSet ==
    ASSUME NEW l \in LogRec, NEW m \in MatchRec, NEW x, x = [l EXCEPT !.shown = m]
    PROVE  /\ x \in LogRec /\ x.told = l.told /\ x.memo = l.memo /\ x.shown = m
           /\ x.format = l.format /\ x.file = l.file /\ x.ends = l.ends
BY DEF LogRec

LEMMA EndIsSet ==
    ASSUME NEW l \in LogRec, l.ends = 0, NEW x,
           x = [l EXCEPT !.file = "closed", !.ends = @ + 1]
    PROVE  /\ x \in LogRec /\ x.told = l.told /\ x.shown = l.shown
           /\ x.format = l.format /\ x.file = "closed" /\ x.ends = 1
<1>1. x.ends = 1
  BY DEF LogRec
<1>2. /\ x.told = l.told /\ x.shown = l.shown /\ x.format = l.format /\ x.file = "closed"
  BY DEF LogRec
<1>3. x \in LogRec
  <2>1. x = [l EXCEPT !.file = "closed", !.ends = 1]
    OBVIOUS
  <2>2. ASSUME NEW e \in Nat PROVE [l EXCEPT !.file = "closed", !.ends = e] \in LogRec
    BY DEF LogRec
  <2>3. 1 \in Nat
    OBVIOUS
  <2>4. [l EXCEPT !.file = "closed", !.ends = 1] \in LogRec
    BY <2>2, <2>3, Zenon
  <2> QED  BY <2>1, <2>4, Zenon
<1> QED  BY <1>1, <1>2, <1>3

\* Two matches that agree in all that the logger compares are one.
LEMMA SameMatch ==
    ASSUME NEW a \in MatchRec, NEW b \in MatchRec, a.pm = b.pm, a.named = b.named,
           a.point = b.point, a.taken = b.taken
    PROVE  a = b
<1>1. /\ a = [pm |-> a.pm, named |-> a.named, point |-> a.point, taken |-> a.taken]
      /\ b = [pm |-> b.pm, named |-> b.named, point |-> b.point, taken |-> b.taken]
  BY DEF MatchRec
<1> QED  BY <1>1

\* The first part of writeGameLogImpl.
LEMMA PlayModeWritten ==
    ASSUME NEW l \in LogRec, NEW m \in MatchRec,
           l.format \notin {1, 2} => Told(l.format, l.told, l.memo)
    PROVE  LET a == IF l.memo.pm # m.pm
                    THEN sendPlayMode([l EXCEPT !.memo.pm = m.pm], m) ELSE l
           IN  /\ a \in LogRec /\ a.format = l.format /\ a.file = l.file /\ a.ends = l.ends
               /\ a.memo.pm = m.pm
               /\ a.format \notin {1, 2} => Told(a.format, a.told, a.memo)
<1> DEFINE a == IF l.memo.pm # m.pm
                THEN sendPlayMode([l EXCEPT !.memo.pm = m.pm], m) ELSE l
           c == [l.memo EXCEPT !.pm = m.pm]
           k == [l EXCEPT !.memo = c]
<1>1. CASE l.memo.pm = m.pm
  BY <1>1
<1>2. CASE l.memo.pm # m.pm
  <2>1. a = sendPlayMode(k, m)
    BY <1>2 DEF LogRec
  <2>2. /\ c \in MatchRec /\ c.pm = m.pm /\ c.named = l.memo.named /\ c.point = l.memo.point
        /\ c.taken = l.memo.taken
    <3>1. l.memo \in MatchRec
      BY LogRecFields
    <3> QED  BY <3>1 DEF MatchRec
  <2> HIDE DEF c
  <2>3. l.told \in ToldRec
    BY LogRecFields
  <2>4. /\ k \in LogRec /\ k.told = l.told /\ k.memo = c /\ k.format = l.format
        /\ k.file = l.file /\ k.ends = l.ends
    BY <2>2, MemoIsSet
  <2> HIDE DEF k
  <2>5. PICK t \in ToldRec :
              /\ sendPlayMode(k, m) = [k EXCEPT !.told = t]
              /\ t.named = k.told.named /\ t.point = k.told.point /\ t.taken = k.told.taken
              /\ k.format \notin {1, 2} => t.pm = m.pm
    BY <2>4, PlayModeTold
  <2>6. /\ a \in LogRec /\ a.told = t /\ a.memo = c /\ a.format = l.format
        /\ a.file = l.file /\ a.ends = l.ends
    <3> HIDE DEF a
    <3> QED  BY <2>1, <2>4, <2>5, ToldIsSet
  <2> HIDE DEF a
  <2>7. a.format \notin {1, 2} => Told(a.format, a.told, a.memo)
    BY <2>2, <2>4, <2>5, <2>6 DEF Told
  <2>8. QED  BY <2>2, <2>6, <2>7 DEF a
<1> QED  BY <1>1, <1>2

\* The second part.
LEMMA TeamsWritten ==
    ASSUME NEW a \in LogRec, NEW m \in MatchRec, a.memo.pm = m.pm,
           a.format \notin {1, 2} => Told(a.format, a.told, a.memo)
    PROVE  LET b == IF TeamsDiffer(a, m) THEN sendTeam([a EXCEPT !.memo = m], m) ELSE a
           IN  /\ b \in LogRec /\ b.format = a.format /\ b.file = a.file /\ b.ends = a.ends
               /\ b.memo = m
               /\ b.format \notin {1, 2} => Told(b.format, b.told, m)
<1> DEFINE k == [a EXCEPT !.memo = m]
           b == IF TeamsDiffer(a, m) THEN sendTeam(k, m) ELSE a
<1>1. CASE ~ TeamsDiffer(a, m)
  <2>1. a.memo \in MatchRec
    BY LogRecFields
  <2>2. a.memo = m
    BY <1>1, <2>1, SameMatch DEF TeamsDiffer
  <2> QED  BY <1>1, <2>2
<1>2. CASE TeamsDiffer(a, m)
  <2>1. b = sendTeam(k, m)
    BY <1>2
  <2>2. a.told \in ToldRec
    BY LogRecFields
  <2>3. /\ k \in LogRec /\ k.told = a.told /\ k.memo = m /\ k.format = a.format
        /\ k.file = a.file /\ k.ends = a.ends
    BY <2>2, MemoIsSet
  <2> HIDE DEF k
  <2>4. PICK t \in ToldRec :
              /\ sendTeam(k, m) = [k EXCEPT !.told = t]
              /\ t.pm = k.told.pm
              /\ k.format \notin {1, 2} => t.named = m.named /\ t.point = m.point
              /\ k.format \notin 1 .. 3 => t.taken = m.taken
    BY <2>3, TeamsTold
  <2>5. /\ b \in LogRec /\ b.told = t /\ b.memo = m /\ b.format = a.format
        /\ b.file = a.file /\ b.ends = a.ends
    <3> HIDE DEF b
    <3> QED  BY <2>1, <2>3, <2>4, ToldIsSet
  <2> HIDE DEF b
  <2>6. b.format \notin {1, 2} => Told(b.format, b.told, m)
    BY <2>3, <2>4, <2>5 DEF Told
  <2>7. QED  BY <2>5, <2>6 DEF b, k
<1> QED  BY <1>1, <1>2 DEF k

\* A show that is recorded tells the match.
LEMMA ShowRecorded ==
    ASSUME NEW l, LogGood(l), l.file = "open", NEW m \in MatchRec, m.pm # Unknown
    PROVE  LogGood(writeGameLogImpl(l, m))
<1> DEFINE a == IF l.memo.pm # m.pm
                THEN sendPlayMode([l EXCEPT !.memo.pm = m.pm], m) ELSE l
           b == IF TeamsDiffer(a, m) THEN sendTeam([a EXCEPT !.memo = m], m) ELSE a
           r == ShowRecord(b, m)
<1>1. writeGameLogImpl(l, m) = r
  BY DEF writeGameLogImpl
<1>2. /\ a \in LogRec /\ a.format = l.format /\ a.file = l.file /\ a.ends = l.ends
      /\ a.memo.pm = m.pm
      /\ a.format \notin {1, 2} => Told(a.format, a.told, a.memo)
  <2>1. l \in LogRec /\ (l.format \notin {1, 2} => Told(l.format, l.told, l.memo))
    BY DEF LogGood
  <2> QED  BY <2>1, PlayModeWritten
<1> HIDE DEF a
<1>3. /\ b \in LogRec /\ b.format = l.format /\ b.file = l.file /\ b.ends = l.ends
      /\ b.memo = m
      /\ b.format \notin {1, 2} => Told(b.format, b.told, m)
  BY <1>2, TeamsWritten
<1> HIDE DEF b
<1>4. PICK t \in ToldRec :
              /\ r = [[b EXCEPT !.told = t] EXCEPT !.shown = m]
              /\ b.format \in {1, 2} => Tells(b.format, t, m)
              /\ b.format \notin {1, 2} => t = b.told
  BY <1>3, ShowTold
<1> HIDE DEF r
<1>5. /\ r \in LogRec /\ r.told = t /\ r.memo = m /\ r.shown = m
      /\ r.format = l.format /\ r.file = l.file /\ r.ends = l.ends
  <2> DEFINE c == [b EXCEPT !.told = t]
  <2>1. /\ c \in LogRec /\ c.told = t /\ c.memo = m
        /\ c.format = l.format /\ c.file = l.file /\ c.ends = l.ends
    BY <1>3, ToldIsSet
  <2>2. r = [c EXCEPT !.shown = m]
    BY <1>4
  <2> HIDE DEF c
  <2> QED  BY <2>1, <2>2, ShownIsSet
<1>6. r.format \notin {1, 2} => Told(r.format, r.told, r.memo)
  BY <1>3, <1>4, <1>5
<1>7. Tells(r.format, r.told, r.shown)
  BY <1>3, <1>4, <1>5 DEF Tells, Told
<1> QED  BY <1>1, <1>5, <1>6, <1>7 DEF LogGood

\* The end of the file: the tail tells the result, and no show is recorded later.
LEMMA LogClosed ==
    ASSUME NEW l, LogGood(l), match \in MatchRec, match.pm # Unknown
    PROVE  LogGood(closeGameLog(l))
<1>1. CASE l.file = "closed"
  BY <1>1 DEF closeGameLog
<1>2. CASE l.file # "closed"
  <2> DEFINE t == IF HasTail(l.format) /\ l.file = "open"
                  THEN [sendTeam(l, match) EXCEPT !.shown = [match EXCEPT !.pm = l.told.pm]]
                  ELSE l
             r == [t EXCEPT !.file = "closed", !.ends = @ + 1]
  <2>1. closeGameLog(l) = r
    BY <1>2 DEF closeGameLog
  <2>2. l \in LogRec /\ l.ends = 0 /\ l.told \in ToldRec /\ Tells(l.format, l.told, l.shown)
    BY <1>2, LogRecFields DEF LogGood
  <2>3. t \in LogRec /\ t.ends = 0 /\ Tells(t.format, t.told, t.shown)
    <3>1. CASE ~ (HasTail(l.format) /\ l.file = "open")
      BY <2>2, <3>1
    <3>2. CASE HasTail(l.format) /\ l.file = "open"
      <4> DEFINE m == [match EXCEPT !.pm = l.told.pm]
      <4>1. PICK k \in ToldRec :
              /\ sendTeam(l, match) = [l EXCEPT !.told = k]
              /\ k.pm = l.told.pm
              /\ l.format \notin {1, 2} => k.named = match.named /\ k.point = match.point
              /\ l.format \notin 1 .. 3 => k.taken = match.taken
        BY <2>2, TeamsTold
      <4> DEFINE c == [l EXCEPT !.told = k]
      <4>2. t = [c EXCEPT !.shown = m]
        BY <3>2, <4>1
      <4>3. /\ m \in MatchRec /\ m.pm = l.told.pm /\ m.named = match.named
            /\ m.point = match.point /\ m.taken = match.taken
        <5>1. l.told.pm \in Phases \cup {Unknown}
          BY <2>2 DEF ToldRec
        <5> QED  BY <5>1 DEF MatchRec
      <4> HIDE DEF m, t
      <4>4. t \in LogRec /\ t.told = k /\ t.shown = m /\ t.format = l.format /\ t.ends = 0
        <5>1. c \in LogRec /\ c.told = k /\ c.format = l.format /\ c.ends = 0
          BY <2>2, ToldIsSet
        <5> HIDE DEF c
        <5> QED  BY <4>2, <4>3, <5>1, ShownIsSet
      <4>5. l.format \notin 1 .. 3
        BY <3>2 DEF HasTail
      <4>6. Tells(l.format, k, m)
        BY <4>1, <4>3, <4>5 DEF Tells
      <4> QED  BY <4>4, <4>6
    <3> QED  BY <3>1, <3>2
  <2> HIDE DEF t
  <2>4. /\ r \in LogRec /\ r.file = "closed" /\ r.ends = 1 /\ r.format = t.format
        /\ r.told = t.told /\ r.shown = t.shown
    BY <2>3, EndIsSet, Zenon
  <2> HIDE DEF r
  <2> QED  BY <2>1, <2>3, <2>4 DEF LogGood
<1> QED  BY <1>1, <1>2

------------------------------------------------------------------------------
(* The monitors.                                                            *)

Protocols == {-1} \cup 1 .. 5

\* A monitor that was told its parameters, has tiles of the teams only, and was
\* shown, if anything, what a monitor of its class has made.
ScreenRec == [version : ScreenVersions, params : SUBSET AllParams,
              tiles : SUBSET (Sides \X Tiles),
              show : {{}} \cup {MonitorShow(w) : w \in Protocols}]
ScreenGood(m, a) ==
    /\ m \in ScreenRec
    /\ m.params = InitMonitor(m.version)
    /\ m.show # {} => \E w \in Protocols :
                         SenderClass(m.version) = SenderClass(w) /\ m.show = MonitorShow(w)
    /\ \A t \in m.tiles : t[2] \in a[t[1]]
ScreensGood(a) == {m \in ScreenRec : ScreenGood(m, a)}

\* A set of numbers has a least one.
LEMMA Least ==
    ASSUME NEW S \in SUBSET Nat, S # {}
    PROVE  Min(S) \in S
<1>1. PICK x \in S : \A y \in S : ~ (<<y, x>> \in OpToRel(<, Nat))
  BY WFMin, NatLessThanWellFounded, Zenon
<1>2. \A y \in S : x <= y
  <2>1. ASSUME NEW a \in Nat, NEW b \in Nat, a < b
        PROVE  <<a, b>> \in OpToRel(<, Nat)
    BY <2>1, Zenon DEF OpToRel
  <2>2. \A y \in S : y \in Nat /\ x \in Nat /\ ~ (y < x)
    BY <1>1, <2>1, Zenon
  <2> QED  BY <2>2
<1>3. \E m \in S : \A y \in S : m <= y
  BY <1>2
<1> QED  BY <1>3, Zenon DEF Min

\* The message that is sent to a monitor is one of a monitor of its class.
LEMMA ShownToClass ==
    ASSUME screens \in Seq(ScreensGood(art)), NEW i \in DOMAIN screens
    PROVE  \E w \in Protocols :
              SenderClass(screens[i].version) = SenderClass(w) /\ sendShow(i) = MonitorShow(w)
<1> DEFINE same == {j \in 1 .. i : SenderClass(screens[j].version)
                                    = SenderClass(screens[i].version)}
           k == Min(same)
<1>1. i \in 1 .. Len(screens) /\ Len(screens) \in Nat
  OBVIOUS
<1>2. same \in SUBSET Nat /\ i \in same
  BY <1>1
<1>3. k \in same
  <2> HIDE DEF same
  <2> QED  BY <1>2, Least
<1>4. sendShow(i) = MonitorShow(screens[k].version)
  BY DEF sendShow
<1>5. k \in 1 .. Len(screens)
      /\ SenderClass(screens[k].version) = SenderClass(screens[i].version)
  BY <1>1, <1>3
<1> HIDE DEF k, same
<1>6. screens[k] \in ScreensGood(art)
  BY <1>5
<1>7. screens[k].version \in Protocols
  BY <1>6, DisplayAssumption DEF ScreensGood, ScreenRec, Protocols
<1> QED  BY <1>4, <1>5, <1>7

\* The tiles that a step sends are tiles of the teams.
LEMMA TilesSent ==
    ASSUME art \in [Sides -> SUBSET Tiles], NEW m, NEW S \in sendTeamGraphics(m)
    PROVE  S \in SUBSET (Sides \X Tiles) /\ \A t \in S : t[2] \in art[t[1]]
<1>1. S \subseteq Pending(m)
  BY DEF sendTeamGraphics
<1>2. ASSUME NEW t \in Pending(m) PROVE t \in Sides \X Tiles /\ t[2] \in art[t[1]]
  BY DEF Pending, Sides
<1> QED  BY <1>1, <1>2

LEMMA ScreensShown ==
    ASSUME screens \in Seq(ScreensGood(art)), art \in [Sides -> SUBSET Tiles], ShowScreens
    PROVE  screens' \in Seq(ScreensGood(art))
<1>1. PICK sent \in [DOMAIN screens -> SUBSET (Sides \X Tiles)] :
        /\ \A i \in DOMAIN screens : sent[i] \in sendTeamGraphics(screens[i])
        /\ screens' = [i \in DOMAIN screens |->
                          [screens[i] EXCEPT !.tiles = @ \cup sent[i],
                                             !.show = sendShow(i)]]
  BY DEF ShowScreens
<1>2. ASSUME NEW i \in DOMAIN screens PROVE screens'[i] \in ScreensGood(art)
  <2> DEFINE m == screens[i]
             T == m.tiles \cup sent[i]
             w == sendShow(i)
             r == screens'[i]
  <2>1. r = [m EXCEPT !.tiles = T, !.show = w]
    BY <1>1
  <2>2. m \in ScreenRec /\ ScreenGood(m, art)
    BY DEF ScreensGood
  <2>3. PICK x \in Protocols : SenderClass(m.version) = SenderClass(x) /\ w = MonitorShow(x)
    BY ShownToClass
  <2>4. sent[i] \in SUBSET (Sides \X Tiles) /\ \A t \in sent[i] : t[2] \in art[t[1]]
    <3>1. sent[i] \in sendTeamGraphics(screens[i])
      BY <1>1
    <3> QED  BY <3>1, TilesSent, Zenon
  <2>5. T \in SUBSET (Sides \X Tiles) /\ \A t \in T : t[2] \in art[t[1]]
    BY <2>2, <2>4 DEF ScreenRec, ScreenGood
  <2>6. w \in {{}} \cup {MonitorShow(v) : v \in Protocols}
    BY <2>3
  <2> HIDE DEF m, T, w, r
  <2>7. /\ r \in ScreenRec /\ r.version = m.version /\ r.params = m.params
        /\ r.tiles = T /\ r.show = w
    BY <2>1, <2>2, <2>5, <2>6 DEF ScreenRec
  <2>8. ScreenGood(r, art)
    BY <2>2, <2>3, <2>5, <2>7 DEF ScreenGood
  <2>9. r \in ScreensGood(art)
    BY <2>7, <2>8 DEF ScreensGood
  <2> QED  BY <2>9 DEF r
<1>3. DOMAIN screens = 1 .. Len(screens) /\ Len(screens) \in Nat
  OBVIOUS
<1>4. screens' = [i \in 1 .. Len(screens) |-> screens'[i]]
  BY <1>1, <1>3
<1> QED  BY <1>2, <1>3, <1>4

\* The inductive invariant.
DisplayInv ==
    /\ match \in MatchRec /\ match.pm # Unknown
    /\ art \in [Sides -> SUBSET Tiles]
    /\ LogGood(log)
    /\ screens \in Seq(ScreensGood(art))

LEMMA DisplayStart ==
    DisplayInit => DisplayInv
<1> SUFFICES ASSUME DisplayInit PROVE DisplayInv
  OBVIOUS
<1> DEFINE none == [Fresh EXCEPT !.pm = Unknown]
<1>1. PICK f \in LogFormats, fixed \in BOOLEAN :
          log = [format |-> f, fixed |-> fixed, file |-> "open", memo |-> none,
                 told |-> none, shown |-> none, final |-> FALSE, ends |-> 0]
  BY DEF DisplayInit
<1>2. none \in MatchRec /\ none \in ToldRec /\ none.pm = Unknown
  BY DEF Fresh, MatchRec, ToldRec
<1> HIDE DEF none
<1>3. log \in LogRec /\ log.ends = 0 /\ log.file = "open" /\ log.told = none
      /\ log.memo = none /\ log.shown = none
  BY <1>1, <1>2 DEF LogRec
<1>4. LogGood(log)
  BY <1>2, <1>3 DEF LogGood, Told, Tells
<1>5. match \in MatchRec /\ match.pm # Unknown
  BY DEF DisplayInit, Fresh, MatchRec, Phases, Unknown
<1>6. art \in [Sides -> SUBSET Tiles] /\ screens \in Seq(ScreensGood(art))
  BY DEF DisplayInit
<1> QED  BY <1>4, <1>5, <1>6 DEF DisplayInv

\* The match goes on.
LEMMA MatchGoesOn ==
    ASSUME DisplayInv,
           \/ \E p \in Phases : changePlayMode(p)
           \/ \E s \in Sides : NameTeam(s) \/ Score(s) \/ TakePenalty(s)
    PROVE  DisplayInv'
<1> DEFINE m == match
<1>1. /\ m \in MatchRec /\ m.pm # Unknown /\ m.named \in [Sides -> BOOLEAN]
      /\ m.point \in [Sides -> Nat] /\ m.taken \in [Sides -> Nat]
  BY DEF DisplayInv, MatchRec
<1>2. match' \in MatchRec /\ match'.pm # Unknown
  <2>1. CASE \E p \in Phases : changePlayMode(p)
    <3>1. PICK p \in Phases : match' = [match EXCEPT !.pm = p]
      BY <2>1 DEF changePlayMode, Change
    <3>2. p # Unknown
      BY DEF Phases, Unknown
    <3> QED  BY <1>1, <3>1, <3>2 DEF MatchRec
  <2>2. ASSUME NEW s \in Sides, NameTeam(s) PROVE match' \in MatchRec /\ match'.pm # Unknown
    <3> DEFINE n == [m.named EXCEPT ![s] = TRUE]
    <3>1. match' = [match EXCEPT !.named = n]
      BY <2>2 DEF NameTeam, Change
    <3>2. n \in [Sides -> BOOLEAN]
      BY <1>1
    <3> HIDE DEF n
    <3> QED  BY <1>1, <3>1, <3>2 DEF MatchRec
  <2>3. ASSUME NEW s \in Sides, Score(s) PROVE match' \in MatchRec /\ match'.pm # Unknown
    <3> DEFINE n == [m.point EXCEPT ![s] = @ + 1]
    <3>1. match' = [match EXCEPT !.point = n]
      BY <2>3 DEF Score, Change
    <3>2. n \in [Sides -> Nat]
      BY <1>1
    <3> HIDE DEF n
    <3> QED  BY <1>1, <3>1, <3>2 DEF MatchRec
  <2>4. ASSUME NEW s \in Sides, TakePenalty(s) PROVE match' \in MatchRec /\ match'.pm # Unknown
    <3> DEFINE n == [m.taken EXCEPT ![s] = @ + 1]
    <3>1. match' = [match EXCEPT !.taken = n]
      BY <2>4 DEF TakePenalty, Change
    <3>2. n \in [Sides -> Nat]
      BY <1>1
    <3> HIDE DEF n
    <3> QED  BY <1>1, <3>1, <3>2 DEF MatchRec
  <2> QED  BY <2>1, <2>2, <2>3, <2>4
<1>3. UNCHANGED <<art, log, screens>>
  BY DEF changePlayMode, NameTeam, Score, TakePenalty, Change
<1> QED  BY <1>2, <1>3 DEF DisplayInv, LogGood, ScreensGood, ScreenGood

\* The lists of the monitors and the tiles.
LEMMA ScreensChange ==
    ASSUME DisplayInv,
           \/ \E s \in Sides, t \in Tiles : addTeamGraphic(s, t)
           \/ \E v \in ScreenVersions : ScreenInit(v)
           \/ \E i \in DOMAIN screens : MonitorBye(i)
    PROVE  DisplayInv'
<1>1. ASSUME NEW s \in Sides, NEW t \in Tiles, addTeamGraphic(s, t) PROVE DisplayInv'
  <2>1. /\ art' = [art EXCEPT ![s] = @ \cup {t}] /\ art \in [Sides -> SUBSET Tiles]
        /\ UNCHANGED <<match, log, screens>>
    BY <1>1 DEF addTeamGraphic, DisplayInv
  <2>2. art' \in [Sides -> SUBSET Tiles] /\ \A x \in Sides : art[x] \subseteq art'[x]
    BY <2>1
  <2>3. ASSUME NEW m \in ScreensGood(art) PROVE m \in ScreensGood(art')
    <3>1. m \in ScreenRec /\ ScreenGood(m, art)
      BY <2>3 DEF ScreensGood
    <3>2. \A u \in m.tiles : u[2] \in art'[u[1]]
      BY <2>2, <3>1 DEF ScreenGood, ScreenRec
    <3> QED  BY <3>1, <3>2 DEF ScreensGood, ScreenGood
  <2>4. screens \in Seq(ScreensGood(art))
    BY DEF DisplayInv
  <2>5. screens \in Seq(ScreensGood(art'))
    BY <2>3, <2>4
  <2> QED  BY <2>1, <2>2, <2>5 DEF DisplayInv
<1>2. ASSUME NEW v \in ScreenVersions, ScreenInit(v) PROVE DisplayInv'
  <2> DEFINE r == [version |-> v, params |-> InitMonitor(v), tiles |-> {}, show |-> {}]
  <2>1. screens' = Append(screens, r) /\ UNCHANGED <<match, art, log>>
    BY <1>2 DEF ScreenInit
  <2>2. InitMonitor(v) \in SUBSET AllParams
    BY DEF InitMonitor
  <2>3. r \in ScreenRec /\ ScreenGood(r, art)
    BY <2>2 DEF ScreenRec, ScreenGood
  <2>4. r \in ScreensGood(art)
    BY <2>3 DEF ScreensGood
  <2> HIDE DEF r
  <2>5. screens' \in Seq(ScreensGood(art))
    BY <2>1, <2>4 DEF DisplayInv
  <2> QED  BY <2>1, <2>5 DEF DisplayInv
<1>3. ASSUME NEW i \in DOMAIN screens, MonitorBye(i) PROVE DisplayInv'
  <2>1. screens' = RemoveAt(screens, i) /\ UNCHANGED <<match, art, log>>
    BY <1>3 DEF MonitorBye
  <2>2. screens \in Seq(ScreensGood(art))
    BY DEF DisplayInv
  <2>3. screens' \in Seq(ScreensGood(art))
    BY <2>1, <2>2 DEF RemoveAt
  <2> QED  BY <2>1, <2>3 DEF DisplayInv
<1> QED  BY <1>1, <1>2, <1>3

\* The show at the end of a step, and the end of the log.
LEMMA ShowsAndEnd ==
    ASSUME DisplayInv, sendDisp \/ WriteFails \/ closeLogs
    PROVE  DisplayInv'
<1>1. LogGood(log) /\ log \in LogRec /\ match \in MatchRec /\ match.pm # Unknown
  BY DEF DisplayInv, LogGood
<1>2. CASE sendDisp
  <2>1. ShowScreens /\ log' = writeGameLog /\ UNCHANGED <<match, art>>
    BY <1>2 DEF sendDisp
  <2>2. screens' \in Seq(ScreensGood(art))
    BY <2>1, ScreensShown DEF DisplayInv
  <2>3. LogGood(writeGameLog)
    <3> DEFINE w == writeGameLogImpl(log, match)
    <3>1. CASE ~ isGameLogOpen
      BY <1>1, <3>1 DEF writeGameLog
    <3>2. CASE isGameLogOpen
      <4>1. LogGood(w)
        BY <1>1, <3>2, ShowRecorded DEF isGameLogOpen
      <4> HIDE DEF w
      <4>2. LogGood([w EXCEPT !.final = TRUE])
        <5> DEFINE x == [w EXCEPT !.final = TRUE]
        <5>1. w \in LogRec
          BY <4>1 DEF LogGood
        <5>2. x \in LogRec /\ x.told = w.told /\ x.memo = w.memo /\ x.shown = w.shown
              /\ x.format = w.format /\ x.file = w.file /\ x.ends = w.ends
          BY <5>1 DEF LogRec
        <5> HIDE DEF x
        <5>3. LogGood(x)
          BY <4>1, <5>2 DEF LogGood
        <5> QED  BY <5>3 DEF x
      <4>3. writeGameLog \in {w, [w EXCEPT !.final = TRUE], log}
        BY <3>2 DEF writeGameLog, w
      <4> QED  BY <1>1, <4>1, <4>2, <4>3
    <3> QED  BY <3>1, <3>2
  <2> QED  BY <2>1, <2>2, <2>3 DEF DisplayInv
<1>3. CASE WriteFails
  <2> DEFINE x == [log EXCEPT !.file = "bad"]
  <2>1. log' = x /\ log.file = "open" /\ UNCHANGED <<match, art, screens>>
    BY <1>3 DEF WriteFails, isGameLogOpen
  <2>2. x \in LogRec /\ x.told = log.told /\ x.memo = log.memo /\ x.shown = log.shown
        /\ x.format = log.format /\ x.file = "bad" /\ x.ends = log.ends
    BY <1>1 DEF LogRec
  <2> HIDE DEF x
  <2>3. LogGood(x)
    BY <1>1, <2>1, <2>2 DEF LogGood
  <2> QED  BY <2>1, <2>3 DEF DisplayInv
<1>4. CASE closeLogs
  <2>1. log' = closeGameLog(renameLogs(log)) /\ UNCHANGED <<match, art, screens>>
    BY <1>4 DEF closeLogs
  <2>2. LogGood(renameLogs(log))
    BY <1>1, LogClosed DEF renameLogs
  <2>3. LogGood(log')
    BY <1>1, <2>1, <2>2, LogClosed
  <2> QED  BY <2>1, <2>3 DEF DisplayInv
<1> QED  BY <1>2, <1>3, <1>4

\* The invariant has all that is promised of the log and of the monitors.
LEMMA InvShows ==
    ASSUME DisplayInv
    PROVE  ShowsTellMatch
<1>1. LogTellsMatch
  BY DEF DisplayInv, LogGood, Tells, LogTellsMatch
<1>2. ASSUME NEW i \in DOMAIN screens
      PROVE  LET m == screens[i] IN
             /\ m.show # {} =>
                  /\ MonitorShow(SenderClass(m.version)) \cup {"pm", "teams"} \subseteq m.show
                  /\ "type" \in m.show => "player_type" \in m.params
             /\ \A t \in m.tiles : t[2] \in art[t[1]]
  <2> DEFINE m == screens[i]
  <2>1. m \in ScreenRec /\ ScreenGood(m, art)
    BY DEF DisplayInv, ScreensGood
  <2>2. m.version \in Protocols
    BY <2>1, DisplayAssumption DEF ScreenRec, Protocols
  <2> HIDE DEF m
  <2>3. CASE m.show # {}
    <3>1. PICK w \in Protocols :
              SenderClass(m.version) = SenderClass(w) /\ m.show = MonitorShow(w)
      BY <2>1, <2>3 DEF ScreenGood
    <3>2. /\ MonitorShow(SenderClass(m.version)) \cup {"pm", "teams"} \subseteq MonitorShow(w)
          /\ "type" \in MonitorShow(w) => "player_type" \in InitMonitor(m.version)
      BY <2>2, <3>1, ClassShows DEF Protocols
    <3>3. m.params = InitMonitor(m.version)
      BY <2>1 DEF ScreenGood
    <3> QED  BY <2>1, <3>1, <3>2, <3>3 DEF ScreenGood, m
  <2>4. CASE m.show = {}
    BY <2>1, <2>4 DEF ScreenGood, m
  <2> QED  BY <2>3, <2>4
<1>3. /\ "type" \in LogShow(log.format) => "player_type" \in LogParams(log.format)
      /\ \A f \in 1 .. log.format :
             LogShow(f) \cup LogRecords(f)
                 \subseteq LogShow(log.format) \cup LogRecords(log.format)
  <2>1. log.format \in {-1} \cup 1 .. 6
    BY LogRecFields DEF DisplayInv, LogGood
  <2> QED  BY <2>1, FormatsGrow
<1>4. EveryShowIsComplete
  BY <1>2, <1>3 DEF EveryShowIsComplete
<1> QED  BY <1>1, <1>4 DEF ShowsTellMatch

\* Monitors and game log are told the match (Stadium::sendDisp, Logger::
\* writeGameLogImpl, DispSenderMonitor::sendShow): for every format of the log,
\* all versions of monitors, any number of them and of tiles and goals, in every
\* order of matches' events, steps, connections, failures and the end, a recorded
\* show tells the play mode, the teams and their score, a log is closed once,
\* and no monitor is shown less than its class or types it was not told of.
THEOREM ShowsTellMatchHolds ==
    DisplaySpec => []ShowsTellMatch
<1>1. DisplayInv /\ [LogNext \/ ScreensNext]_dvars => DisplayInv'
  <2> SUFFICES ASSUME DisplayInv, [LogNext \/ ScreensNext]_dvars PROVE DisplayInv'
    OBVIOUS
  <2>1. CASE UNCHANGED dvars
    BY <2>1 DEF dvars, DisplayInv, LogGood, ScreensGood, ScreenGood
  <2>2. CASE LogNext
    BY <2>2, MatchGoesOn, ShowsAndEnd DEF LogNext
  <2>3. CASE ScreensNext
    BY <2>3, MatchGoesOn, ScreensChange, ShowsAndEnd DEF ScreensNext
  <2> QED  BY <2>1, <2>2, <2>3
<1> QED  BY <1>1, DisplayStart, InvShows, PTL DEF DisplaySpec
=============================================================================
