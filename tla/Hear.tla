-------------------------------- MODULE Hear --------------------------------
(***************************************************************************)
(* What a player hears.  The say messages of players, the referee and the  *)
(* coaches go to every entry of M_listeners.  The senders of protocols 1   *)
(* to 7 pass a message on at once; those of protocol 8 and later keep what *)
(* players and coaches say and pass it on after the next sense_body.  How  *)
(* many messages are heard in full is limited by a capacity for each team; *)
(* of the others a player of protocol 8 hears only that somebody spoke.    *)
(*                                                                         *)
(* The module follows one player, who belongs to the left team, and the    *)
(* coaches.  Speakers are players of both teams; messages of one speaker   *)
(* are not told apart.  The node that Focused::getMsg reads after having   *)
(* erased it still holds the message: nothing is allocated in between.     *)
(***************************************************************************)
EXTENDS Integers, Sequences, FiniteSets, SequencesExt, PlayModes

CONSTANTS
    Mates,          \* speakers of the player's team
    Rivals,         \* speakers of the other team
    HearMax,        \* server::hear_max
    HearInc,        \* server::hear_inc
    HearDecay,      \* server::hear_decay
    MaxSaid         \* bound: messages kept for the next sense_body

Speakers == Mates \cup Rivals

ASSUME HearAssumption ==
    /\ Mates \cap Rivals = {} /\ IsFiniteSet(Speakers)
    /\ HearMax \in Nat /\ HearInc \in Nat
    /\ HearDecay \in Nat \ {0} /\ MaxSaid \in Nat

VARIABLES
    keeps,      \* is the player of protocol 8 or later?
    awake,      \* isEnabled()
    entries,    \* entries of the player in M_listeners
    capacity,   \* M_hear_capacity_from_teammate and _from_opponent, by side
    ear,        \* M_left_complete, M_left_partial, M_right_complete, ...
    focus,      \* the player in focus; {} if unfocused
    cache,      \* M_player_msgs: the kept messages, by speaker
    heard,      \* history: who was heard in full since the last update
    renewed     \* history: was the capacity restored since then?

hvars == <<keeps, awake, entries, capacity, ear, focus, cache, heard, renewed>>

SideOf(p) == IF p \in Mates THEN Left ELSE Right
NoMessages == [p \in Speakers |-> 0]

HearInit ==
    /\ keeps \in BOOLEAN /\ awake = TRUE /\ entries = 1
    /\ capacity = [s \in Sides |-> HearMax]
    /\ ear = [s \in Sides |-> {"complete"}]
    /\ focus = {} /\ cache = NoMessages
    /\ heard = <<>> /\ renewed = FALSE

------------------------------------------------------------------------------
(* One message.                                                             *)

Cached == FoldLeft(LAMBDA n, p : n + cache[p], 0, SetToSeq(Speakers))

canHearFullFrom(c, p) == c[SideOf(p)] >= HearDecay

\* A message as it leaves the sender: in full at the cost of the capacity, in
\* short, or not at all.  Who has capacity left but has turned off complete
\* messages of that team does not hear them in short either.
CheapHearing(r, p) ==
    IF canHearFullFrom(r.cap, p) /\ "complete" \in ear[SideOf(p)]
    THEN [r EXCEPT !.out = Append(@, p)] ELSE r

sendCachedNonSelfPlayerAudio(r, p) ==
    IF canHearFullFrom(r.cap, p) /\ "complete" \in ear[SideOf(p)]
    THEN [cap |-> [r.cap EXCEPT ![SideOf(p)] = @ - HearDecay],
          out |-> Append(r.out, p)]
    ELSE r

\* Orders in which getMsg may take the messages: those of the player in focus
\* first, otherwise at random.
RandomOrders == {o \in BoundedSeq(Speakers, MaxSaid) :
                    \A p \in Speakers : Cardinality({i \in DOMAIN o : o[i] = p}) = cache[p]}
Orders == {o \in RandomOrders :
              \A i, j \in DOMAIN o : o[i] \notin focus /\ o[j] \in focus => j < i}

------------------------------------------------------------------------------
(* Speaking.  What the player says himself and what a coach says in words   *)
(* is kept and passed on like the rest, without a limit; the referee and    *)
(* the coach language are passed on at once.                                *)

\* AudioSenderPlayerv1 and v7, for one message that reaches n entries: heard
\* in full as long as the capacity lasts.
passOn(p, n) ==
    LET room == capacity[SideOf(p)] \div HearDecay
        full == IF room < n THEN room ELSE n
    IN  /\ capacity' = [capacity EXCEPT ![SideOf(p)] = @ - full * HearDecay]
        /\ heard' = heard \o [i \in 1 .. full |-> p]
        /\ UNCHANGED cache

\* AudioSenderPlayerv8: kept, if the player listens to that team at all.
keep(p, n) ==
    /\ LET kept == IF ear[SideOf(p)] = {} THEN 0 ELSE n
       IN  /\ kept > 0 => Cached + kept <= MaxSaid
           /\ cache' = [cache EXCEPT ![p] = @ + kept]
    /\ UNCHANGED <<capacity, heard>>

\* Stadium::sendPlayerAudio, to each of the player's entries; near: is the
\* speaker within audio_cut_dist?
sendPlayerAudio(p, near) ==
    /\ LET n == IF awake /\ near THEN entries ELSE 0
       IN  IF keeps THEN keep(p, n) ELSE passOn(p, n)
    /\ UNCHANGED <<keeps, awake, entries, ear, focus, renewed>>

\* What is left of the capacity, and who was heard, after the first messages of
\* an order.
sendCached(order) ==
    LET r[i \in 0 .. Len(order)] ==
          IF i = 0 THEN [cap |-> capacity, out |-> heard]
          ELSE sendCachedNonSelfPlayerAudio(r[i - 1], order[i])
    IN  r

\* AudioSenderPlayerv8::newCycle, in doSendSenseBody.
newCycle(order) ==
    LET r == sendCached(order)[Len(order)]
    IN  /\ keeps /\ entries > 0
        /\ capacity' = r.cap
        /\ heard' = r.out
        /\ cache' = NoMessages
        /\ UNCHANGED <<keeps, awake, entries, ear, focus, renewed>>

------------------------------------------------------------------------------
(* The player.                                                              *)

\* Player::updateCapacity at the end of a step.
updateCapacity ==
    /\ capacity' = [s \in Sides |->
           IF ~ awake THEN capacity[s]
           ELSE IF capacity[s] + HearInc > HearMax THEN HearMax ELSE capacity[s] + HearInc]
    /\ heard' = <<>> /\ renewed' = FALSE
    /\ UNCHANGED <<keeps, awake, entries, ear, focus, cache>>

\* Player::recoverAll: a substitution, the trainer, or the referee.
restoreHearing ==
    /\ ~ renewed                                \* bound: once in a cycle
    /\ capacity' = [s \in Sides |-> HearMax]
    /\ renewed' = TRUE
    /\ UNCHANGED <<keeps, awake, entries, ear, focus, cache, heard>>

\* Player::ear: the side is a team or both, the mode one of the two or both.
setEar(flag, sides, modes) ==
    /\ ear' = [s \in Sides |-> IF s \notin sides THEN ear[s]
                               ELSE IF flag THEN ear[s] \cup modes ELSE ear[s] \ modes]
    /\ UNCHANGED <<keeps, awake, entries, capacity, focus, cache, heard, renewed>>

\* Player::attentionto: another player of one of the teams, or nobody.
attentionto(who) ==
    /\ focus' = who
    /\ UNCHANGED <<keeps, awake, entries, capacity, ear, cache, heard, renewed>>

\* A reconnection makes a new sender; without a leave, it adds an entry.
HearerReturns ==
    /\ entries < 2
    /\ entries' = entries + 1 /\ awake' = TRUE
    /\ cache' = NoMessages /\ focus' = {}
    /\ ear' = [s \in Sides |-> {"complete"}]
    /\ UNCHANGED <<keeps, capacity, heard, renewed>>

\* The player leaves; removeListener takes all of his entries out.
HearerLeaves ==
    /\ awake
    /\ awake' = FALSE /\ entries' = 0
    /\ UNCHANGED <<keeps, capacity, ear, focus, cache, heard, renewed>>

HearNext ==
    \/ \E p \in Speakers, near \in BOOLEAN : sendPlayerAudio(p, near)
    \/ \E order \in Orders : newCycle(order)
    \/ updateCapacity \/ restoreHearing
    \/ \E flag \in BOOLEAN, sides \in {{Left}, {Right}, Sides},
          modes \in {{"complete"}, {"partial"}, {"complete", "partial"}} :
              setEar(flag, sides, modes)
    \/ \E who \in {{}} \cup {{p} : p \in Speakers} : attentionto(who)
    \/ HearerReturns \/ HearerLeaves

HearSpec == HearInit /\ [][HearNext]_hvars

------------------------------------------------------------------------------
(* Properties.                                                              *)

HeardOf(s) == {i \in DOMAIN heard : SideOf(heard[i]) = s}

\* A player hears no more messages of a team in full between two updates of
\* his capacity than hear_max and hear_decay allow, however the messages reach
\* him (kept over several cycles, or each of them twice after a reconnection)
\* and whatever he does to his ears and his focus in between.
HearingLimited ==
    ~ renewed => \A s \in Sides : Cardinality(HeardOf(s)) * HearDecay <= HearMax

\* When the sense_body comes, nobody of a team is heard in full before the
\* player in focus, if that player spoke and is of that team.
FocusFirst ==
    [][\A f \in focus :
         cache[f] > 0 /\ cache' = NoMessages /\ entries' = entries =>
             \A i \in Len(heard) + 1 .. Len(heard') :
                 SideOf(heard'[i]) = SideOf(f) =>
                     \E j \in Len(heard) + 1 .. i : heard'[j] = f]_hvars
=============================================================================
