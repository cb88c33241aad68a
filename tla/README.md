# A TLA+ model of the RoboCup Soccer Simulator server

`rcssserver` simulates a football match between two teams of programs. Every
100 ms it moves ball and players, lets a list of referees look at the pitch,
and sends every client what it may see; between two such cycles it carries out
the commands that clients sent. This directory models the control of the server:
who decides when a match stops, restarts and ends, and in which order; who is
connected and served; what a player's body may do; what players, coaches,
monitors and the game log are told; how the process starts, keeps time and ends.

Paths below are relative to the repository (`src/...`); `NEWS` is its change
history.

## 1. Inventory

The server is one process with one thread. A timer (`stdtimer.cpp`, or
`synctimer.cpp` in synchronous mode) calls into `Stadium`:

    recvFromClients -> newSimulatorStep -> sendSenseBody -> sendVisuals -> ...

so there are no data races. What makes the server hard is the order of things:
commands of up to 22 players, 2 coaches, a trainer and monitors are handled one
by one in the order in which datagrams arrive, each command runs every referee,
each referee may change the play mode, and every change of the play mode is
told to every referee again. Then the cycle runs all referees once more, in the
order of `Stadium`'s constructor: Time, BallStuck, Offside, FreeKick, Touch,
Catch, Foul, IllegalDefense, Keepaway, Penalty.

| Component | State | Operations | What makes it correct |
|---|---|---|---|
| Match clock and auto mode (`stadium.cpp`, `TimeRef`) | play mode, clock, stoppage time, number of halves, score, wait counters | `step`, `kickOff`, `callHalfTime`, `checkAutoMode`, `changePlayMode`, `placeBall` | halves and clock agree; the match ends for a good reason, once, and the server exits |
| Penalty shoot-out (`PenaltyRef`) | taker, numbers taken and scored, sets of takers, timer | `startPenaltyShootout`, `handleTimer`, `handleTimeout`, kick, tackle, catch | sides alternate, every penalty counts once, ends exactly when decided |
| Field referees (`BallStuck`, `Offside`, `IllegalDefense`, `FreeKick`, `Touch`, `Catch`, `Foul`) | last touch, kick taker, drop-ball timer, indirect mode, back passer, offside candidates, one wait counter each | kick, tackle, catch, punch, touch, `analyse`, `playModeChange` | a set play is taken, dropped or punished; the right side restarts; no goal from an indirect kick |
| Clients (`initPlayer`, `reconnectPlayer`, `removeDisconnectedClients`, cards) | team names, slots, enabled and goalie flags, cards, sockets, listener lists | connect, reconnect, leave, discard, card | no slot or goalie twice; a player sent off stays off |
| Player (`player.cpp`) | command flags, catch ban, tackle and charge freezes, stamina | one method per command, `resetCommandFlags`, `updateStamina` | one body command a cycle; freezes run out |
| Timers | counters over `lcm_step` | `run` | no step is skipped or doubled except for slow cycles |
| Synchronous mode (`doSendThink`) | done flags, missed cycles | think, done | never waits for ever; gives up after 20 missed cycles |
| Online coach, trainer (`coach.cpp`) | message queue, quotas, substitutions left | say, change_player_type, change_mode, move | quotas and substitution limits hold |
| Hear model (`audio.cpp`) | hear capacity, focus | say, decay | one message a side a cycle, capacity never negative |
| Shutdown (`finalize`, `saveResults`, `killTeams`) | first-call flag, children | finalize, signal | results saved once, children ended |
| Keepaway referee (`KeepawayRef`) | episode, takers' time at the ball, keepers counted, corners | `analyse`, `playModeChange`, `logEpisode`, `resetField` | the log's episodes join on to each other and end for the reason they give |
| Monitors and game log (`dispsender.cpp`, `logger.cpp`) | cached shows, last recorded mode and teams, tiles sent | sendShow, writeGameLog, open and close | nobody is shown a match that is not being played |
| Senders and serializers (`*sender*.cpp`, `serializer*.cpp`) | view width and quality, opportunities counted | send see, sense_body, hear, fullstate, look | a later protocol is told no less; a see message is paid for |
| Parameters (`serverparam.cpp`, `rcss/conf`) | stack of included files, values | include, set, version, create, convert | the server starts only from what it understood, with derived values that agree |
| Coach language (`rcss/clang`) | the builder's stack, versions asked for | one builder call per grammar rule | players hear what the coach said, if they can understand it |
| Sockets, gzip (`rcss/net`, `rcss/gzip`) | pure I/O | | not modelled; that each call may fail is part of `Clients` |
| Physics (`field.cpp`, `object.cpp`) | positions, speeds | | not modelled; its outcomes are choices |

Hard behaviours: steps of several clients between two cycles; several referees
deciding in the same cycle; counters kept in several places for one fact (the
number of halves in a static of `TimeRef`, the clock in `Stadium`); timeouts of
a set play racing the kick; clients that leave, reconnect without having left or
never show up; failing calls of the network half way through an
initialisation; signals in the middle of `finalize`; caches kept over cycles; the
boundaries of counters. `PROJECT.json` lists each under "hazards" at its line.

## 2. Plan

1. *Done:* `PlayModes`, `MatchClock` (the skeleton of every match) with its
   proofs; `ShootOutRules`, `Penalty` with the refinement and its proofs.
2. *Done:* `SetPlay`, the field referees with their own state, each called in
   the order of the list; it is checked to move the play mode only as
   `MatchClock` assumes.
3. *Done:* `Clients`, `Timers`, `Think`, `Shutdown`, `Display`, `Conf`,
   `Keepaway`: the server around the match, composed in `MCServer`.
4. *Done:* `PlayerBody`, `Hear`, `Coach`, `Senders`, `Clang`: what agents do and
   are told, composed in `MCAgents`.
5. *Done:* proofs of the invariants and action properties of `SetPlay`: the
   catcher, the waiting kick, the indirect kick and the taker; what the referees
   remember of the sides that played the ball; and that it moves as `MatchClock`
   assumes.
6. *Done:* proofs about the loops (`Timers`, `Think`, `Shutdown`), `Clients`,
   `Keepaway`, `Conf`, `Display`, `PlayerBody` and `Senders`.
7. *Done:* proofs about `Hear`, `Coach` and `Clang`, by induction over the
   messages of an order, the players of a team and the words of a message.

## 3. Modules

### PlayModes
Sides and play modes of `types.h` as records `[kind, side]`, and the classes of
modes that the source spells out as chains of comparisons: stopped (an offence
or a goal is being dealt with, the clock stands), live (the ball is or can be
put in play, the clock runs), shoot-out. Modes nothing assigns are left out.

### MatchClock
`pc` walks through one simulator cycle: `recv` (commands), `time` (`TimeRef`),
`field` (the referees up to `PenaltyRef`), `penalty` (`PenaltyRef`), `end` (the
tail of `Stadium::step`), `auto` (`checkAutoMode`).

* `StepBegin`, `StepEnd`: the clock runs in live and shoot-out modes; a stop
  that was lifted costs one cycle.
* `TimeUp`, `HalfTimeUp`, `TimeGoesOn`: the three outcomes of `TimeRef::analyse`.
* `FieldWait`: in a stopped mode the referee that called the stop waits, then
  gives the ball to the other side. `FieldGoal`, `FieldCalled`, `FieldQuiet`: in
  a live mode the referees may score a goal, make any call they can make, or
  nothing. `SetPlay!MovesAsMatchClock` checks that they do no more.
* `StepTouch`, `FieldTouch`: the ball and a player collide when objects are
  moved, before `TimeRef` looks, or when `clearPlayersFromBall` pushes players
  away in the middle of the referees' analysis; both run the referees' touch
  handlers, which may call an offside or a fault even in a stop.
* `ShootOutStarts`, `ShootOutGoesOn`, `NoShootOut`: `PenaltyRef`. Inside the
  shoot-out only its modes and its end are kept; `Penalty` has the rest.
* `AutoKickOff`, `AutoNothing`, `AutoGameOver`, `AutoModeOff`: `checkAutoMode`.
* `PlayerCommand`, `TeamConnects`, `SquadsChange`, `DispStart`, `DispFoul`,
  `DispDropBall`: what clients and monitors do between two cycles.

### ShootOutRules, Penalty
`ShootOutRules` is what a shoot-out promises: a draw, then kicks by turns, each
counted once, over as soon as and only when the outcome is settled or the kicks
are used up. "Settled" is stated over all ways the remaining regular kicks can
end, not by the formula of the code. `Penalty` is `PenaltyRef`: positions are
reduced to the answers the referee computes from them (does a side stand right,
did the ball cross the line, was the catch inside the area), and every
combination is possible at every step. `Rules` is the refinement mapping: the
turn passes when the penalty is settled, the shoot-out is over when `M_timeover`
is set or the mode is `PM_TimeOver`. `kicks` is a history variable used only to
state `NoRepeatTaker`.

### SetPlay
The state that the seven field referees share and keep is one record, `st`: the
play mode, the ball (does it move, who holds it), and each referee's members.
One operator per handler maps the record to the next one (`OffsideChange`,
`FreeKickKick`, `CatchTouch`, `TouchAnalyse`...), `changePlayMode` composes the
`playModeChange` handlers, and an event of `Stadium` (`kickTaken`, `tackleTaken`,
`ballTouched`, `ballCaught`, `ballPunched`, `analyse`) composes the referees'
handlers for it, in the order of the list, each seeing what the ones before it
did. The actions are the commands that lead to these events: `Kick`, `Tackle`,
`Miss` (a kick or tackle that fails), `Dash`, `Catch`, `Punch`, one body command
a player a cycle (`done`); `Touch` (a collision, at any time); `Step` (a cycle);
`KickOff` and `DispFoul`.

What depends on positions is chosen freely: who stands offside, where the ball
is (`Views`), whether a catch was inside the area, whether a tackle is a foul.
The memories "was it in this cycle" (`M_last_kick_time == time()`) are booleans
that a `Step` resets if the clock or, for offside, the stoppage time moved on.
`half = "back"` is the half time that sets the clock back to the very value it
had when the commands of this cycle came, so that these memories survive.
(Stops that follow each other at the end of a half can set it back by more; then
`TouchRef` overlooks touches for as many cycles, which is not modelled.)
`M_goal_kick_count` stops at `max_goal_kicks`, with which alone it is compared.
`IllegalDefenseRef` starts with an arbitrary attacker, as its members are not
initialized. `hist` records what really happened to the ball (who played it
last, which sides played or kicked it in the last cycle with a play, whether an
indirect kick is still open, how long a kick has been waited for) and is read by
the properties only.

### Clients
All players, coaches and the trainer exist from the start; a client takes one
over. For each there is a socket (the address it is connected to, or idle, broken
or closed), the flags and cards, and the number of entries in `Stadium`'s lists.
`PlayerInit`, `PlayerReconnect`, `TrainerInit`, `OnlineCoachInit`, `MonitorInit`
are the whole handlers with the outcome of each system call as a parameter, so
that an initialisation fails at any of its steps and leaves what the code
leaves; `bye`, `Drop` (a failed send), `discardPlayer`, `Card`, `substitute`,
`changePlayerToGoalie`; `removeDisconnectedClients` is the sweep of the lists.

### Timers
One action is one pass of the loop of `StandardTimer::run` or `SyncTimer::run`:
the time that passed is added, each stream whose next multiple is reached is
served, and all counters wrap at `lcm_step`. A pass of the standard timer may
take any time up to `Slowest`, more than two simulator steps.

### Think
`doSendThink`: `ThinkStep` notes whom to wait for and sends (think), `Receive`
is one pass of its loop with the datagrams that have come, until everybody on
the note is done or gone or the limit is reached. Between any two passes clients
come, go, answer late or twice, and coaches switch their eye. `asked` and `given`
are histories for the property.

### Shutdown
`main` walks from the forks of `startTeams` through the timer's loop to
`finalize`, which is split at each of its statements, because the signal handler
runs `finalize` too, between any two of them.

### Display
Records, shows and heads as the sets of facts they carry, for each monitor
protocol and log format; the message that one monitor of a class makes and the
others of the class get; the copies of the match that `Logger` keeps; team
graphics, a tile at a time; a log that can no longer be written, is renamed, or
is closed.

### Conf
`ServerParam::init` in its stages: old configuration, `include`s with the stack
of files (missing, unreadable, created, converted), command line, versions of a
module. Among several hundred parameters only those are told apart whose setters
do more than assign.

### Keepaway
`KeepawayRef` with its episodes and the rows of the `.kwy` log, the keepers'
corners, players that join and leave, and play modes changed by others. The
modulo by the number of keepers is kept; with none it ends the process (`died`).

### PlayerBody
One action per body command, with the conditions and early returns of
`player.cpp` in their order; `BodyStep` is the end of a cycle with the wait
counters, the legs' dashes and stamina, effort, recovery and capacity in small
units. `acts` counts what the body carried out in this cycle.

### Hear
One listener: its capacities, ear modes and focus, the messages kept by speaker
until the next sense_body (protocol 8) or passed on at once (1 to 7), and its
entries in the list of listeners, of which a reconnection can leave two.

### Coach
The online coach's queue with windows, delays and quotas, freeform messages, and
the team's player types with the counters that limit them; the trainer's changes,
`assignPlayerTypes` at the kick-off, players that come after it.

### Senders
The factories that map a version to classes, and for each class what its messages
add to those of the class before, as sets of fields by kind of message, quality
and what can be recognised of the object; and the counting of `VisualSenderPlayer`
that decides when a see message is due, in units of 7.5 degrees.

### Clang
The grammar is a table from non-terminals to productions, the builder a table
from calls to what they take off the stack, the print functions a table from
calls to what they show of it; each is put together from one table per source
file or class (`Merged`). A behaviour derives a message from
left to right and makes the calls as the parser would. Words are numbers in the
order in which they are said, so that "every word once and in order" can be read
off the printed message.

### MCMatchClock, MCPenalty, MCSetPlay, MCServer, MCAgents, *.cfg
The instances for TLC. The components in `MCServer`, and those in `MCAgents`,
share no state in the model: what passes between them (a player is enabled, the
play mode is on, a message was said) is an action of each. A behaviour
therefore picks one `part` at the start and explores it while the others rest;
`allVars` and the disjuncts of `Next` say which.

### MatchClockProofs, PenaltyProofs, SetPlayProofs, RefereeMemoryProofs, LoopProofs, ServerProofs, AgentProofs, SenderProofs
The TLAPS proofs. `RefereeMemoryProofs` continues `SetPlayProofs`; `LoopProofs` is
about `Timers`, `Think` and `Shutdown`, `ServerProofs` about `Clients`, `Keepaway`,
`Conf` and `Display`, `AgentProofs` about `PlayerBody`, `Hear`, `Coach` and
`Clang`. The theorems are stated
for the specification of the component alone (`TimersSpec`, `ClientsSpec`...);
`MCServer` and `MCAgents` only put such components side by side.

## 4. Runs

| Run | Configuration | Shows |
|---|---|---|
| `match_auto` | 2 halves of 3, 2 extra halves of 2, golden goal, shoot-out, auto mode | clock and halves agree, kick-off sides agree, shoot-out only when level, golden goal ends the match, the end is justified and final, the server exits |
| `match_manual` | 2 halves of 2, 1 extra half of 2, operator on, no auto mode | with `dispstart`, `dispfoul` and drop balls at any time, the match still ends only for a reason the rules allow |
| `straight_shootout` | no halves | violation: the shoot-out never starts in auto mode |
| `penalty` | 2 players a side, 2 regular kicks, 1 extra kick | the shoot-out implements its rules, ends, and nobody repeats too early |
| `set_play` | 3 players, both goalies, all rules on, operator on | every call of the field referees is against somebody who did what it punishes; kicks are taken or dropped in time; an indirect kick stays indirect; a catcher is forgotten when it should; the play mode moves only as `MatchClock` assumes |
| `offside_side` | same without illegal defence and operator | violation: offside called against the wrong side |
| `catch_fault` | same without offside | violation: a tackle takes away the free kick after a catch fault |
| `penalty_limit` | `penalty` with one property | violation: one penalty too many |
| `penalty_defender` | `penalty` with one property | violation: a defender's kick costs the taking side |
| `server_side` | `MCServer` | every player that plays is served, at one address each, and a player sent off cannot reconnect; timers neither skip nor double a message; a client lags behind only by cycles given up; results are saved and teams killed whatever signals come; monitors and log show the match; the server starts only from a clean configuration; keepaway episodes are consistent |
| `agents` | `MCAgents` | one body command a cycle and none when down; stamina comes out of the capacity; hearing limits and focus; type quotas; see messages are paid for; later protocols are told no less; the coach language is heard as said |
| `idle_after_tackle` | `PlayerBody` with one property | violation: a player that is down dashes with one leg |

Bounds. The clock is compared only with multiples of the half lengths, so
halves of 2 or 3 cycles (first, inner, last) with extra halves of another length
reach every case; one goal a side gives all three relations of the score; waits
of 1 have a cycle of waiting and a cycle of expiry. `TimeLimit` bounds only what
the code does not bound: an operator's live cycles, and stops called right after
a stop. `ShootOutLimit` stands for `Penalty!ShootOutEnds`. Two players a side
make everybody kick twice within the kicks of the run, so that the sets of
takers are full and cleared on the way; `NrKicks = 2` with one extra kick has an
early decision, a decision at the end of the regular kicks, a sudden-death
decision and the toss. In `set_play` two team-mates and an opponent are enough
for a pass, a back pass, an offside, a second touch and an interception;
`DropTime = 3` tells a kick that is dropped in time from one dropped a cycle
late or early, `IllegalDuration = 2` and `MaxGoalKicks = 2` need a second cycle
and a second attempt. The run is finite without any bound of its own.
In `server_side` two players a side and two addresses let a player reconnect
while another client asks for his number or the same address asks twice; the
steps of the timers are the defaults (10, 100, 37.5, 100 ms in units of 2.5 ms),
checked over whole rounds of `lcm_step`, and `Slowest` is two and a half
simulator steps; one player and one coach with two missed cycles reach every
branch of `doSendThink`; two signals can both hit `finalize`; log formats -1, 1,
3, 6 and monitor versions 1, 3, 4 are those whose code differs; four items
suffice for an include within an include with a setting on either side. In
`agents` freezes of two cycles tell "one less" from "over"; two rivals and one
team-mate have a focus, somebody else of his side, and the other side; the
protocols 5, 8, 13, 14, 18 are those at which classes change, compared with all
up to 19; nine builder calls reach every production of the grammar. Bounds that
the code does not have are named "bound" where they are declared. Both runs have
no deadlock check: a part comes to its end when the process has exited, the
items are used up or the message is said.

Fairness. `WF_vars(Cycle)` and `WF_vars(Server)`: the timer calls the simulator
step for as long as the server lives, whatever clients do. Nothing is assumed of
clients: they may stay silent for ever. `MatchEnds` has one proviso, its
`QuickStop`: `TimeRef` looks only at live cycles, so stops that follow each
other without a cycle of play between them would put off the end of a half for
ever; touches in a stop can prolong it in the same way. `SetPlay` states no
liveness: its waits are counted by `RestartInTime`. The other modules state
safety only and need no fairness. `MCMatchClockManual.cfg` has no deadlock check because the match of an
operator is cut off at `TimeLimit`.

## 5. Findings

* `straight_shootout`: the help text of `penalty_shoot_outs` promises that zero
  halves go straight into a shoot-out; in auto mode the server waits for ever.
* `penalty_limit`: `penalty_check_score` compares with `>`, so one side takes a
  penalty after all regular and extra kicks are used up, and its result is
  ignored by the toss.
* `penalty_defender`: `PenaltyRef::kickTaken` takes a defender's kick for one of
  the taker's team mates, because the branch on `M_last_taker` comes first and
  does not look at the side.
* `offside_side`: `OffsideRef` takes the offside candidates from whoever touched
  the ball, but the side it punishes from whoever last accelerated it. After a
  kick of the right side that hits a left player, a left player in an offside
  position who plays the ball earns his own side a free kick.
* `catch_fault`: `Player::tackle` lists the stopped modes in which it does
  nothing, without the catch fault. A tackle in that stop reopens play.
* `idle_after_tackle`: every body command tests `M_command_done`, except the
  dashes of a single leg (`player.cpp:1166`): after a tackle, which "renders the
  player immobile for 10 cycles" (`NEWS:2724`), the legs still dash.

Met while reading, kept in the models as the code has them, without a run of
their own:

* Connections. A reconnect takes a number that was never initialised, and a later
  init takes it over. An init for a slot whose transport is closed throws and
  ends the server. A substitution clears the cards of a player that was sent
  off, who may then reconnect. A player listed twice hears every message twice,
  which `HearingLimited` shows to stay within his capacity.
* Shutdown. When `exec` fails in a forked child, the child runs on as a second
  server. A signal between the test and the assignment of `finalize`'s flag saves
  the results twice.
* Coach. A negative `clang_*_win` is documented as unlimited (`ChangeLog:8272`),
  but the code tests `> 0`. The coach is told ok although `Team::substitute`
  refused silently. `team_graphic` keeps tiles outside of its 32 by 8.
* Monitors and log. Monitors of protocols 3 to 5 share one cached show
  (`dispsender.cpp:443`). A tile that the coach sends again never reaches the
  monitors that have the old one. Log format 1 writes an uninitialised score for
  a team without a name.
* Messages. `FullStateSenderPlayerV5::sendScore` gives players of protocols 5 to 7
  the goals of the right side and a zero, hence `NewerKnowsMore` compares scores
  from 8 on. `RegQuad::print` prints three of four points, hence the exception of
  `MessageAsSaid`; uniform numbers are printed in reverse, hence sets of words.
* Keepaway. `NEWS:1226` asks for consecutive cycles of the takers at the ball; a
  cycle with nobody in reach does not reset `M_take_time`. Keepers that join
  after play began are not counted, and with none counted `resetField` divides
  by zero.
* Configuration. A failed include is forgotten after a later one that succeeds;
  the result of parsing the old configuration file is ignored.

## 6. Proofs

Proved for every value of the constants that satisfies the assumptions of the
modules: `ClockAssumption`, `PenaltyAssumption`, `SetPlayAssumption`... say that
lengths, waits, capacities and bounds are naturals (half_time > 0,
drop_ball_time > 1, the steps of the timers > 0 and divisors of lcm_step), that
special values are no addresses or names, and which sets are finite. The
bounds of the runs are constants too, so no proof depends on their size. Each
invariant below is inductive; the runs check the property it implies.

* `MatchClockProofs`. `ClockInv` is `TypeOK` with three facts the invariants
  need to be inductive: at `pc = "time"` the clock is at most one cycle past
  where it was (`ClockRest`), the modes that go with each `pc` (`PhaseInv`), and
  that a shoot-out is only under way with the clock past the last half.
  `ClockFollowsHalvesHolds` and `ShootOutOnlyWhenDrawnHolds` follow, whatever an
  operator does. `EndInv` adds, for a server without an operator: before a
  golden goal the score is level (`LevelBeforeGoal`, `GoldenLevel`), and no
  shoot-out is due on a match that has ended (`NoShootOutAfterEnd`); from it
  `GoldenGoalEndsMatchHolds` and `TimeOverIsFinalHolds`. `EndIsJustifiedHolds`
  is the action property, proved by cases of the actions that set
  `PM_TimeOver`. `KickOffSideAgreedHolds` relates two computations of the same
  side: `TimeRef` takes the parity of the halves it has counted, and
  `Stadium::kickOff` the parity of the clock divided by half_time or
  extra_half_time. `SideInv` keeps the clock at a half boundary while a kick-off
  is waited for (`Multiples`, `ProductMonotone` are the facts on products). The
  theorem assumes that `NrNormalHalfs` is even (the default is 2): with an odd
  number the two disagree in every extra half but the first.
* `PenaltyProofs`. `FollowsRulesHolds` is the refinement: `CheckScoreCorrect`
  shows that the arithmetic of `penalty_check_score` is exactly the abstract
  `Decided`, `SettleIsKick` that a settled penalty is one abstract kick, and
  `StepKinds` that every other step leaves the mapped state alone.
  `AttemptsAddUpHolds`, `TossIsLastResortHolds` and `NoRepeatTakerHolds` (for
  `~ GoalieNearSpot`) use invariants relating the counts, the turn and the sets
  of takers.

* `SetPlayProofs`. The first half of the module says of every handler what it
  leaves alone and what it can turn the state into, for one referee at a time
  (`ButOffside`, `FreeKickOutcome`, `OffsideOutcome`, `TouchAnalysed`...); these
  are composed in the order of the list into `Sound`, for an event with the ball,
  and `CycleSound`, for `analyse`. The invariant is `SetPlayInv`. Its `Core` is
  about the referees: the ball is held only in the goalie's free kick or after a
  goal (`Held`), it moves only in play or in a goal kick (`Rolls`), a taker is
  remembered only until the mode changes (`Taken`), and offside is called against
  the side that `OffsideRef` last saw kick (`OneOffender`). `Rolls` is what makes
  `Held` inductive: a kick that is dropped or taken ends the hold. The rest ties
  the referees' memories to what really happened: the timer and the cycles waited
  add up to drop_ball_time or one less (`KickWaits`), an indirect kick that one
  player alone has played is remembered with this player (`OpenIsIndirect`), the
  taker is the last to have played the ball (`LastTook`). From these
  `RefereesTyped`, `CatcherHasFreeKickHolds`, `RestartInTimeHolds`,
  `NoGoalFromIndirectHolds` and `FaultByTakerHolds`. `MovesAsMatchClockHolds`
  connects the levels: all that `MatchClockProofs` shows rests on the moves that
  `MatchClock` allows its field referees, and this theorem says that the seven
  referees make no others.
* `RefereeMemoryProofs`. Four referees keep a memory of who played the ball, each
  with a test of its own for "in this cycle" and its own reasons to forget, and
  all of them are asked in one list that any of them may cut short by a call.
  `MemoryInv` adds to `SetPlayInv` what each memory has to do with the history of
  the ball: while `OffsideRef` knows the last kicker's side, its candidates are
  team-mates of the last player (`CandidatesKnown`); the side in `TouchRef` played
  the ball in the last cycle with a play, unless an offside or a fault was called
  in between, and a hard kick of an earlier cycle is remembered with no side
  (`TouchKnown`); the back passer's side is the only one that kicked in the last
  cycle with a kick, and the sides noted in this cycle are all that kicked in it
  (`PasserKnown`); nobody but the attacker kicked (`AttackerKnown`). The second
  half of `TouchKnown` and of `PasserKnown` are the strengthenings: without them
  a later touch in the same cycle could leave a stale side behind. The invariant
  was checked with TLC on the instance of `MCSetPlay` before it was proved. The
  four action properties follow, `AwardedAgainstToucherHolds`,
  `BackPassWasKickedHolds`, `OffsideFollowsPassHolds` and
  `IllegalDefenseUnderAttackHolds`.
* `LoopProofs`. `TimersInv` adds to the streams' counters that the synchronous
  clock is a multiple of the pass (`OnGrid`). `StreamsInStepHolds` (the streams and
  the thinks, for passes of any length and both timers) needs no more.
  `CountersInStepHolds` includes the synchronous see and assumes `SeeFits`: the
  pass divides lcm_step, or is no longer than the see offset. (The source's pass
  of 10 ms divides the lcm_step of all default steps.) Otherwise the last pass of
  a round ends beyond the offset of the next round's first see, whose time was
  set back. `ThinkInv`: a client behind by more than the cycles given up is
  behind by the question of this cycle alone, is on the note and has not been
  read (`LagInCycle`); hence `LagIsMissedHolds`. `ShutdownInv` counts the calls of
  `finalize` that are past its test (`PastTest`), one, or two if a signal came
  between test and assignment; with `EndOfMatch` and `TeamsKilled` it gives
  `ExitIsOrderlyHolds`.
* `ServerProofs`. `EnabledIsServed` is inductive with the types; the lemmas show
  that each handler, at whichever call it fails, replaces one player by a record
  that is served and has an address of his own (`OnePlayerChanges`), or sweeps
  the lists. `SentOffNotBackHolds` is proved from it by cases of the handlers.
  `KeepawayInv` adds what the referee knows of the episode that is being played
  (`ThisEpisode`: its number follows from the rows, it starts where the last row
  ended, its takes are those of the history); that counted keepers have corners
  of their own needs the pigeonhole facts of finite sets. `ConfInv`: an error
  other than a failed include asks for help, which is never taken back, and every
  setter restores what is derived from its parameter (`Agrees`); from it
  `StartsRightHolds`. `ConfAssumption` has at least one size for a half.
  `DisplayInv` is about two caches. Until the tail of the file is written,
  `Logger`'s copies of the match are what the records have told (`Told`; formats 1
  and 2 write no records, and tell all in the show); after the tail they are not,
  but the file is closed. A monitor was shown a message made for some version of
  its class (`ScreenGood`). That any version's message will do for the class, and
  that later formats tell more, are facts on the serializers (`ClassShows`,
  `FormatsGrow`). From it `ShowsTellMatchHolds`, of `DisplaySpec`, in which log and
  monitors move together; the run takes them one at a time.
* `AgentProofs`. `BodyTypeHolds` bounds stamina, capacity, recovery, effort
  and moves. `DoneWhenDown` (whoever is down, or has had his command, has
  `M_command_done` set) makes `OneCommand` inductive: the flag is cleared at the
  end of a cycle in which both freezes have run out. `StaminaBudgetHolds` is the
  action property.

  Three components work through a list in one step: the kept messages, the
  players at a kick-off, the groups a builder call takes. The models write such a
  loop as a recursive function, or use a fold of the library. `RecursionMeets`
  says that a function so defined meets its equation (the installed provers
  cannot instantiate the library's theorem for it), and `CountedUp` is induction
  over the numbers up to a bound for one given set, proved by the least
  counterexample.

  `HearInv` strengthens `HearingLimited`: what was heard in full since the last
  update, times hear_decay, *plus the capacity that is left* is at most hear_max.
  Every message passed on, by `passOn` or by the loop of `newCycle`, keeps the
  sum. `HearingLimitedHolds` follows; `FocusFirstHolds` is the action property, by
  induction over an order in which the messages of the player in focus come first.
  `CoachInv` ties the team's counters to its players: the counter of a type is at
  least the number of players that have it (`Quotas`). That is an inequality
  because the counters may be too high: `assignPlayerTypes` counts, and does not
  substitute, a player who has the chosen type already. `TypeQuotaHolds` follows.

  `ClangInv` is a type system for the grammar. A shape is a sequence of entries,
  one item of a type or a run of items; `Effect` says of each symbol (a
  non-terminal, a builder call, a version) which shape it turns into which, and
  `Leads` of a sequence of symbols. The invariant: what is left of the derivation
  leads from the shape of the stack to a finished message (`GoesOn`). `DeriveLeads`
  goes through the productions: each leads where its non-terminal leads. The runs
  are what needs care: `while ( isItem( type ) )` takes all items of a type, so
  a run must not lie on an item of its own type that belongs to something else
  (`Clean`, and `Firm` for the places where a phrase that could begin a run of
  numbers, regions or rule ids may stand). `TakeGives` shows that a call then takes
  its groups whole and no more. `CallsPrintBack` reads off the tables that every print
  function shows the groups from the last taken to the first, all but the first
  taken of `RegQuad`; as the words on the stack increase from bottom to top
  (`StackInOrder`), the printed words are in order and none is lost or doubled
  (`CallShows`). `VersOK` names the range that belongs to each set of versions
  asked for (with none, the initial one or "8 or 7"). `MessageAsSaidHolds` follows for messages of every length.
* `SenderProofs`. `SeeInv`: the sender's counter never exceeds the opportunities
  that passed since the last see message, and a view is one the commands can set
  (`IsView`, which bounds angle and interval together); from it `SeePaysHolds`.
  `NewerKnowsMoreHolds` rests on `SaysMore`: for every kind of message, role,
  quality and situation, what a version is told grows with the version. The
  lemmas go through the factories (`Creator`: the class of a version is the
  latest registered up to it) and the classes of each message.

Only model-checked:

* `MatchEnds` and `ShootOutEnds`: liveness is beyond the prover.
* Freedom from deadlock, in the runs that check it, and that every action can happen.

## 7. Not modelled

* Field physics: floating-point motion, collisions, noise and the random
  trade-offs of player types, out of TLC's reach. Every module takes their
  outcome as a free choice.
* Sockets and compressed streams: wrappers of system calls and zlib.
* The command parser that `Player` keeps for Cygwin, and dead code:
  `OnlineCoach::change_player_types` is never called, `long_kick` returns at
  once.
* Wording and number formats of all messages, the text log, and the savers'
  writing to CSV files, standard output or MySQL.
* The trainer's `change_mode`, `move`, `recover` and `start`, and the same from a
  monitor, which set the state of other components directly.
* A match without a clock (`half_time <= 0`) is left out of `MatchClock`.

The shoot-out's `GoalieNearSpot = TRUE` (a goalie that can reach the ball in the
ready mode, impossible with the default distances) is in the model but
`NoRepeatTaker` assumes it false: the code then enters the goalie's number into
the other side's set. `SetPlay` leaves out cards, keepaway mode, the trainer, the
end of the match and the places players are moved to; a collision that
`clearPlayersFromBall` causes in the middle of a call is a `Touch` right after
the step.
