------------------------------ MODULE Shutdown ------------------------------
(***************************************************************************)
(* The life of the server process: the loop of the timer with its          *)
(* simulator steps (Stadium::doNewSimulatorStep), the team processes that  *)
(* startTeams forks, and finalize, which kills them, closes the logs and   *)
(* saves the results.  finalize is called by the auto mode after the       *)
(* match, by doQuit when the loop has ended, and by the signal handler,    *)
(* between any two steps of the others.                                    *)
(***************************************************************************)
EXTENDS Integers, FiniteSets, Sequences, PlayModes

CONSTANTS
    Started,        \* sides with a server::team_l_start, server::team_r_start
    Savers,         \* result savers that are enabled
    MaxScore,       \* bound: goals
    MaxSignals      \* bound: signals delivered

ASSUME ShutdownAssumption ==
    /\ Started \subseteq Sides /\ IsFiniteSet(Savers)
    /\ MaxScore \in Nat /\ MaxSignals \in Nat

VARIABLES
    pc,         \* where the main program is
    fin,        \* how far finalize has come, by who runs it
    first,      \* s_first, the static flag of finalize
    alive,      \* M_alive
    child,      \* M_left_child, M_right_child: "none", "runs" or "killed"
    lateChild,  \* history: children forked after killTeams
    score,      \* the result of the match
    results,    \* the results saved by each saver, in order
    signals     \* signals so far

svars == <<pc, fin, first, alive, child, lateChild, score, results, signals>>

Runners == {"main", "handler"}

ShutdownInit ==
    /\ pc = "loop" /\ fin = [r \in Runners |-> "no"]
    /\ first = TRUE /\ alive = TRUE
    /\ child = [s \in Sides |-> "none"] /\ lateChild = {}
    /\ score = 0 /\ results = <<>> /\ signals = 0

\* The handler interrupts the main program until it returns.
MainRuns == fin["handler"] = "no"
InMain == MainRuns /\ fin["main"] = "no"

\* Stadium::step: the match goes on.
Step(goal) ==
    /\ InMain /\ pc = "loop" /\ alive
    /\ score + goal <= MaxScore
    /\ score' = score + goal
    /\ pc' = "teams"
    /\ UNCHANGED <<fin, first, alive, child, lateChild, results, signals>>

\* startTeams in a stopped match; the right team is started when the left one
\* is connected.  A fork that fails ends the server.
startTeams(s, forks) ==
    /\ InMain /\ pc = "teams"
    /\ s \in Started /\ child[s] = "none"
    /\ child' = [child EXCEPT ![s] = IF forks THEN "runs" ELSE @]
    /\ lateChild' = IF first THEN lateChild ELSE lateChild \cup {s}
    /\ alive' = (alive /\ forks)
    /\ pc' = IF s = Left /\ forks THEN "teams" ELSE "auto"
    /\ UNCHANGED <<fin, first, score, results, signals>>

TeamsStarted ==
    /\ InMain /\ pc = "teams"
    /\ pc' = "auto"
    /\ UNCHANGED <<fin, first, alive, child, lateChild, score, results, signals>>

\* checkAutoMode: nothing to do, or the wait after the match is over.
AutoGoesOn ==
    /\ InMain /\ pc = "auto"
    /\ pc' = "loop"
    /\ UNCHANGED <<fin, first, alive, child, lateChild, score, results, signals>>

\* finalize, called by r: the test of the flag is a step of its own.
TestIgnored == TRUE
Test == first

Finalize(r) == fin' = [fin EXCEPT ![r] = IF Test THEN "set" ELSE "no"]

AutoGameOver ==
    /\ InMain /\ pc = "auto"
    /\ Finalize("main")
    /\ pc' = "loop"
    /\ UNCHANGED <<first, alive, child, lateChild, score, results, signals>>

\* The timer's loop ends; doQuit calls finalize, and the program exits.
Quit ==
    /\ InMain /\ pc = "loop" /\ ~ alive
    /\ Finalize("main")
    /\ pc' = "exit"
    /\ UNCHANGED <<first, alive, child, lateChild, score, results, signals>>

Signal ==
    /\ MainRuns /\ signals < MaxSignals
    /\ pc = "exit" => fin["main"] # "no"
    /\ signals' = signals + 1
    /\ Finalize("handler")
    /\ UNCHANGED <<pc, first, alive, child, lateChild, score, results>>

SetFirst(r) ==
    /\ fin[r] = "set"
    /\ first' = FALSE
    /\ fin' = [fin EXCEPT ![r] = "kill"]
    /\ UNCHANGED <<pc, alive, child, lateChild, score, results, signals>>

\* killTeams: a SIGINT to each child, with a second's sleep after it.
killTeams(r) ==
    /\ fin[r] = "kill"
    /\ child' = [s \in Sides |-> IF child[s] = "runs" THEN "killed" ELSE child[s]]
    /\ fin' = [fin EXCEPT ![r] = "save"]
    /\ UNCHANGED <<pc, first, alive, lateChild, score, results, signals>>

\* Logger::close, saveResults (one row by each saver) and disable.
saveResults(r) ==
    /\ fin[r] = "save"
    /\ results' = Append(results, [x \in Savers |-> score])
    /\ alive' = FALSE
    /\ fin' = [fin EXCEPT ![r] = "no"]
    /\ UNCHANGED <<pc, first, child, lateChild, score, signals>>

\* The steps of finalize that the main program runs wait for the handler.
FinalizeStep(r) ==
    /\ r = "main" => MainRuns
    /\ SetFirst(r) \/ killTeams(r) \/ saveResults(r)

ShutdownNext ==
    \/ \E goal \in {0, 1} : Step(goal)
    \/ \E s \in Sides, forks \in BOOLEAN : startTeams(s, forks)
    \/ TeamsStarted \/ AutoGoesOn \/ AutoGameOver \/ Quit \/ Signal
    \/ \E r \in Runners : FinalizeStep(r)

ShutdownSpec == ShutdownInit /\ [][ShutdownNext]_svars

------------------------------------------------------------------------------
(* Properties.                                                              *)

\* When the server has exited, its results are saved: once and with the final
\* score unless a signal came.  A signal may stop the match in the middle of a
\* step, but the results are then saved twice only if it hit finalize between
\* its test and its assignment.  Every team that the server started has been
\* killed, except those that it forked after a signal had already made it kill
\* the teams.
ExitIsOrderly ==
    pc = "exit" /\ fin = [r \in Runners |-> "no"] =>
        /\ Len(results) \in 1 .. (IF signals = 0 THEN 1 ELSE 2)
        /\ signals = 0 => results[1] = [x \in Savers |-> score]
        /\ {s \in Sides : child[s] = "runs"} \subseteq lateChild
        /\ signals = 0 => lateChild = {}
=============================================================================
