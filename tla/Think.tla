------------------------------- MODULE Think -------------------------------
(***************************************************************************)
(* Stadium::doSendThink, with which the synchronous timer waits in every   *)
(* cycle for the answers of its clients.  It notes whom to wait for, sends *)
(* them (think), and reads the sockets until everybody on the note has     *)
(* answered (done), has left, or the limit of the wait is over.  A cycle   *)
(* that ran into the limit counts as missed after the first kick-off; more *)
(* than MaxMissed of them in a row end the server.                         *)
(*                                                                         *)
(* The sockets are read nowhere else in this mode: an answer that comes    *)
(* too late waits for the next cycle, whose answer it is taken for.        *)
(***************************************************************************)
EXTENDS Integers

CONSTANTS
    Workers,        \* clients that are waited for while they are enabled
    Watchers,       \* coaches, waited for while their eye is on
    MaxWait,        \* passes of the loop until max_msec_waited
    MaxMissed,      \* max_cycles_missed
    MaxQueue        \* bound: unread answers of one client

Minds == Workers \cup Watchers

ASSUME ThinkAssumption ==
    /\ Workers \cap Watchers = {}
    /\ MaxWait \in Nat \ {0} /\ MaxMissed \in Nat /\ MaxQueue \in Nat \ {0}

VARIABLES
    on,         \* clients that are enabled (assigned) and connected
    eye,        \* coaches whose eye is on
    queue,      \* unread (done) messages of the clients
    flag,       \* clients whose M_done_received is set
    wait,       \* wait_players, wait_coach, wait_trainer
    waited,     \* passes of the loop in this cycle; -1 outside of it
    started,    \* is time() > 0?
    missed,     \* cycles_missed
    running,    \* M_alive
    asked,      \* history: (think) messages a client has not answered yet
    given       \* history: cycles given up since the client came

kvars == <<on, eye, queue, flag, wait, waited, started, missed, running, asked, given>>

ThinkInit ==
    /\ on = {} /\ eye = {} /\ flag = {} /\ wait = {}
    /\ queue = [m \in Minds |-> 0]
    /\ waited = -1 /\ started = FALSE /\ missed = 0 /\ running = TRUE
    /\ asked = [m \in Minds |-> 0] /\ given = [m \in Minds |-> 0]

\* The clients: they come and go when they like, turn their eye on and off,
\* and answer each (think) at most once.  The eye of a coach who left stays on.
Comes(m) ==
    /\ running /\ m \notin on
    /\ on' = on \cup {m}
    /\ queue' = [queue EXCEPT ![m] = 0]
    /\ asked' = [asked EXCEPT ![m] = 0] /\ given' = [given EXCEPT ![m] = 0]
    /\ UNCHANGED <<eye, flag, wait, waited, started, missed, running>>

Goes(m) ==
    /\ running /\ m \in on
    /\ on' = on \ {m}
    /\ UNCHANGED <<eye, queue, flag, wait, waited, started, missed, running, asked, given>>

Eye(m) ==
    /\ running /\ m \in on \cap Watchers
    /\ eye' = IF m \in eye THEN eye \ {m} ELSE eye \cup {m}
    /\ UNCHANGED <<on, queue, flag, wait, waited, started, missed, running, asked, given>>

Answers(m) ==
    /\ running /\ m \in on /\ asked[m] > queue[m] /\ queue[m] < MaxQueue
    /\ queue' = [queue EXCEPT ![m] = @ + 1]
    /\ UNCHANGED <<on, eye, flag, wait, waited, started, missed, running, asked, given>>

\* The simulator step before: the flags are reset, and the clock may start.
KeepFlags == flag
ResetFlags == {}

ThinkStep(kick) ==
    /\ running /\ waited = -1
    /\ started' = (started \/ kick)
    /\ flag' = ResetFlags
    /\ wait' = (on \cap Workers) \cup eye
    /\ asked' = [m \in Minds |-> IF m \in wait' \cap on /\ asked[m] < MaxQueue
                                 THEN asked[m] + 1 ELSE asked[m]]
    /\ waited' = 0
    /\ UNCHANGED <<on, eye, queue, missed, running, given>>

\* One pass of the loop.  All unread answers of a client set one flag.
Unanswered(read) == {m \in wait \cap on : m \notin flag \cup read}

Receive ==
    LET read == {m \in on : queue[m] > 0}
        late == waited + 1 > MaxWait
        miss == IF started THEN missed + 1 ELSE missed
    IN  /\ running /\ waited >= 0
        /\ flag' = flag \cup read
        /\ queue' = [m \in Minds |-> IF m \in on THEN 0 ELSE queue[m]]
        /\ asked' = [m \in Minds |-> IF m \in on THEN asked[m] - queue[m] ELSE asked[m]]
        /\ waited' = IF late \/ Unanswered(read) = {} THEN -1 ELSE waited + 1
        /\ missed' = IF late THEN miss
                     ELSE IF Unanswered(read) = {} THEN 0 ELSE missed
        /\ running' = ~ (late /\ miss > MaxMissed)
        /\ given' = [m \in Minds |-> IF late /\ given[m] < MaxQueue
                                     THEN given[m] + 1 ELSE given[m]]
        /\ UNCHANGED <<on, eye, wait, started>>

ThinkNext ==
    \/ \E m \in Minds : Comes(m) \/ Goes(m) \/ Eye(m) \/ Answers(m)
    \/ \E kick \in BOOLEAN : ThinkStep(kick)
    \/ Receive

ThinkSpec == ThinkInit /\ [][ThinkNext]_kvars

------------------------------------------------------------------------------
(* Properties.                                                              *)

\* A client never falls further behind the server than by the cycles that the
\* server gave up waiting: between two cycles, the (think) messages that it
\* has not answered are at most the cycles given up since it came.
LagIsMissed ==
    waited = -1 => \A m \in on \cap Workers : asked[m] <= given[m]
=============================================================================
