-------------------------------- MODULE Conf --------------------------------
(***************************************************************************)
(* Start-up: ServerParam::init and the configuration parser (rcss/conf).   *)
(* server.conf, player.conf and CSVSaver.conf are read or, when they are   *)
(* missing, created, in this order, and then the command line.  A parser   *)
(* feeds a tree of builders, the server's with the player's and the        *)
(* saver's below it, that are made one after the other; a file may include *)
(* another, which is parsed on the spot by the same parser.  Whether a     *)
(* parse succeeded is kept in flags of the builders: m_err of each, of     *)
(* which only the root's is read and which every new parse resets, and     *)
(* the root's m_generic_help_requested, which is never reset.              *)
(*                                                                         *)
(* The parameters kept are those whose setters do more than store a        *)
(* value.  A file's contents are whatever items the environment puts in.   *)
(***************************************************************************)
EXTENDS Integers, Sequences, FiniteSets

CONSTANTS Files,         \* names a file may include
          Sizes,         \* values of the sizes and of the steps
          TeamNames,     \* names for fixed_teamname_l and _r
          MaxItems       \* bound: items read before the server starts

ASSUME ConfAssumption == Sizes \subseteq Nat \ {0} /\ Sizes # {} /\ MaxItems \in Nat

VARIABLES stage,         \* which file ServerParam::init is at
          opened,        \* its file has been looked for
          streams,       \* Parser::m_stack, the innermost file last
          builders,      \* modules that have a builder by now
          err,           \* Builder::m_err
          help,          \* the root's m_generic_help_requested
          parsed,        \* Builder::m_parsed_version is the module's own
          par,           \* the parameters with setters of their own
          faults,        \* history: kinds of errors reported
          read           \* items read so far

fvars == <<stage, opened, streams, builders, err, help, parsed, par, faults, read>>

Modules == {"server", "player", "CSVSaver"}
Stages == <<"server", "player", "CSVSaver", "cmd line args">>
ThisStage == Stages[stage]
Conf(m) == m \o ".conf"

-----------------------------------------------------------------------------
(* Parameters.  setDefaults makes the derived values agree; the setters    *)
(* keep them so by taking the old value out and putting the new one in.    *)
setDefaults ==
  LET d == CHOOSE s \in Sizes : \A t \in Sizes : s <= t
  IN  [margin |-> d, ball |-> d, player |-> d, control |-> d,
       area |-> 3 * d, width |-> 0,
       raw |-> d, half |-> d * 2, step |-> 1, slow |-> 1, l |-> "", r |-> ""]

setCTLRadius(p, v) == [p EXCEPT !.width = @ - p.control + v, !.control = v]
setKickMargin(p, v) == [p EXCEPT !.area = @ - p.margin + v, !.margin = v]
setBallSize(p, v) == [p EXCEPT !.area = @ - p.ball + v, !.ball = v]
setPlayerSize(p, v) ==
  [p EXCEPT !.area = @ - p.player + v, !.width = @ + p.player - v, !.player = v]

(* Cycles in a second, of two units each: 1000 / (simulator_step / slow).  *)
getHalfTimeScaler(p) == LET raw == p.step \div p.slow IN 2 \div (IF raw = 0 THEN 1 ELSE raw)
setHalfTime(p, v) == [p EXCEPT !.raw = v, !.half = v * getHalfTimeScaler(p)]

setSlowDownFactor(p) ==
  LET q == [p EXCEPT !.step = @ * p.slow]
  IN  [q EXCEPT !.half = q.raw * getHalfTimeScaler(q)]

setFixedTeamNameLeft(p, n) == IF p.r # "" /\ n = p.r THEN p ELSE [p EXCEPT !.l = n]
setFixedTeamNameRight(p, n) == IF p.l # "" /\ n = p.l THEN p ELSE [p EXCEPT !.r = n]

(* setParam: the types of the values that a parameter of a type takes; a   *)
(* number with a fraction is cut off.  Other values are build errors, and  *)
(* so are names that nobody has added.                                     *)
setParam == [int |-> {"int", "double"}, bool |-> {"bool", "int", "double"},
             double |-> {"int", "double"}, string |-> {"string"}, unknown |-> {}]
ValueTypes == {"int", "bool", "double", "string"}

(* addParams: the parameters of a type whose setters do more than assign   *)
(* are told apart; any other one leaves the model's parameters alone.      *)
Assigned(p, type) ==
  CASE type = "double" -> UNION {{setCTLRadius(p, v), setKickMargin(p, v), setBallSize(p, v),
                                  setPlayerSize(p, v)} : v \in Sizes}
    [] type = "int" -> UNION {{setHalfTime(p, v), [p EXCEPT !.step = v],
                               [p EXCEPT !.slow = v]} : v \in Sizes}
    [] type = "string" -> UNION {{setFixedTeamNameLeft(p, n), setFixedTeamNameRight(p, n)}
                                   : n \in TeamNames}
    [] OTHER -> {p}

-----------------------------------------------------------------------------
(* Builder: errors go down the tree, requests for help up to the root.     *)
Below(m) == IF m = "server" THEN builders ELSE {m}
Fail(ms) == err' = [m \in Modules |-> err[m] \/ m \in ms]

requestGenericHelp == help' = TRUE

parseError == Fail(Below("server")) /\ requestGenericHelp /\ faults' = faults \cup {"syntax"}
buildErrorQuietly(m) == Fail(Below(m)) /\ faults' = faults \cup {"parameter"} /\ UNCHANGED help
buildError(m) == Fail(Below(m)) /\ requestGenericHelp /\ faults' = faults \cup {"parameter"}
includeFailed == Fail(Below("server")) /\ faults' = faults \cup {"include"} /\ UNCHANGED help

success == ~err["server"]
reset == [err EXCEPT !["server"] = FALSE]

-----------------------------------------------------------------------------
ConfInit ==
  /\ stage = 1 /\ opened = FALSE /\ streams = <<>> /\ builders = {"server"}
  /\ err = [m \in Modules |-> FALSE] /\ help = FALSE
  /\ parsed = [m \in Modules |-> FALSE] /\ par = setDefaults /\ faults = {} /\ read = 0

Running == stage = 5
GivenUp == stage = 0
GiveUp == stage' = 0 /\ streams' = <<>> /\ opened' = FALSE

(* Parser::doParse of the file f: a new parse resets the root's error.     *)
doParse(f) == streams' = Append(streams, f) /\ err' = reset

(* After a file or the command line has been read, or a file created: the  *)
(* versions are compared, and the next module gets its builder.            *)
NextStage(versions) ==
  IF ThisStage \in Modules /\ ~versions[ThisStage]
  THEN GiveUp /\ UNCHANGED <<builders, par>>
  ELSE IF ThisStage = "cmd line args" /\ help
  THEN GiveUp /\ UNCHANGED <<builders, par>>
  ELSE /\ stage' = stage + 1 /\ opened' = FALSE /\ streams' = <<>>
       /\ builders' = builders \cup ({Stages[i] : i \in 1..stage + 1 \cap 1..4} \cap Modules)
       /\ par' = IF ThisStage = "cmd line args" THEN setSlowDownFactor(par) ELSE par

Idle == stage \in 1..4 /\ streams = <<>> /\ ~opened

(* convertOldConf: an old-style file is parsed when there is no new one;   *)
(* its result is not looked at.                                            *)
convertOldConf ==
  /\ Idle /\ ThisStage \in {"server", "player"} /\ read < MaxItems
  /\ doParse("old") /\ opened' = FALSE
  /\ read' = read + 1
  /\ UNCHANGED <<stage, builders, help, parsed, par, faults>>

(* parseCreateConf: parse the file, or write it from the present values.   *)
parseConf ==
  /\ Idle /\ doParse(IF stage = 4 THEN ThisStage ELSE Conf(ThisStage)) /\ opened' = TRUE
  /\ UNCHANGED <<stage, builders, help, parsed, par, faults, read>>
createConf ==
  /\ Idle /\ stage < 4
  /\ \/ /\ parsed' = [parsed EXCEPT ![ThisStage] = TRUE]      \* createConfFile
        /\ NextStage(parsed')
     \/ GiveUp /\ UNCHANGED <<parsed, builders, par>>         \* confCreationFailed
  /\ UNCHANGED <<err, help, faults, read>>

-----------------------------------------------------------------------------
(* The items of a file: data_p of the grammar.                             *)
Item == streams # <<>> /\ read < MaxItems /\ read' = read + 1
Same == UNCHANGED <<stage, opened, builders>>

(* module::parameter = value, and module::version = value.  A module that  *)
(* has no builder, or not yet, is passed over in silence.                  *)
buildParam(m, type, value) ==
  /\ Item /\ Same /\ UNCHANGED <<streams, parsed>>
  /\ IF m \notin builders THEN UNCHANGED <<err, help, par, faults>>
     ELSE IF value \notin setParam[type] THEN buildError(m) /\ UNCHANGED par
     ELSE /\ par' \in IF m = "server" THEN Assigned(par, type) ELSE {par}
          /\ UNCHANGED <<err, help, faults>>
buildVersion(m) ==
  /\ Item /\ Same /\ m \in builders
  /\ \E same \in BOOLEAN : parsed' = [parsed EXCEPT ![m] = same]
  /\ UNCHANGED <<streams, err, help, par, faults>>

(* include = file: a file that is being parsed already is ignored.         *)
include(f) ==
  /\ Item /\ Same
  /\ \/ f \in {streams[i] : i \in 1..Len(streams)}
        /\ UNCHANGED <<streams, err, help, faults>>
     \/ f \notin {streams[i] : i \in 1..Len(streams)} /\ doParse(f)
        /\ UNCHANGED <<help, faults>>
     \/ includeFailed /\ UNCHANGED streams
  /\ UNCHANGED <<parsed, par>>

requestHelp ==
  /\ Item /\ Same /\ requestGenericHelp
  /\ UNCHANGED <<streams, err, parsed, par, faults>>

(* The end of a stream.  What an included file's parse returned, or an old *)
(* file's, is ignored; the file's own decides whether init goes on.        *)
Leave(result) ==
  IF Len(streams) > 1 \/ ~opened
  THEN /\ streams' = SubSeq(streams, 1, Len(streams) - 1)
       /\ UNCHANGED <<stage, opened, builders, par>>
  ELSE IF result THEN NextStage(parsed)
  ELSE GiveUp /\ UNCHANGED <<builders, par>>

endOfFile ==
  /\ streams # <<>> /\ Leave(success)
  /\ UNCHANGED <<err, help, parsed, faults, read>>
syntaxError ==
  /\ Item /\ parseError /\ Leave(FALSE)
  /\ UNCHANGED parsed

ConfNext ==
  \/ convertOldConf \/ parseConf \/ createConf
  \/ \E m \in Modules : buildVersion(m)
  \/ \E m \in Modules, type \in DOMAIN setParam, value \in ValueTypes :
         buildParam(m, type, value)
  \/ \E f \in Files : include(f)
  \/ requestHelp \/ endOfFile \/ syntaxError
ConfSpec == ConfInit /\ [][ConfNext]_fvars

-----------------------------------------------------------------------------
(* A server that starts has met neither a syntax error nor a wrong         *)
(* parameter, in whichever file, at whatever depth of includes and         *)
(* whichever builder reported it: no later parse, which clears m_err,      *)
(* makes it forget.  (A failed include it does forget.)                    *)
StartsClean == Running => faults \subseteq {"include"} /\ ~help

(* Whatever order the parameters are set in, by files or the command line, *)
(* the values derived from them agree with them: the kickable area, the    *)
(* width of the control radius and, once the server starts, the cycles of  *)
(* a half; and the two fixed team names are never the same.                *)
DerivedParameters ==
  /\ par.area = par.margin + par.player + par.ball
  /\ par.width = par.control - par.player
  /\ par.l # "" => par.l # par.r
  /\ Running => par.half = par.raw * getHalfTimeScaler(par)

(* The server starts only when everything that it read was right, and then *)
(* its derived parameters agree: StartsClean and DerivedParameters.        *)
StartsRight == StartsClean /\ DerivedParameters
=============================================================================
