------------------------------- MODULE Clang -------------------------------
(***************************************************************************)
(* The coach language (rcss/clang).  A message the online coach says is    *)
(* parsed by a bison grammar whose semantic actions call a builder; the    *)
(* builder keeps a stack of typed items, each call takes what it needs     *)
(* from the top and puts its result back, and the last call makes the      *)
(* message.  What the players hear is the message printed again, and only  *)
(* the players whose clang versions cover it hear it.                      *)
(*                                                                         *)
(* The model derives every message of the grammar with at most MaxCalls    *)
(* builder calls, left to right, and runs the calls as the parser would.   *)
(* Words of the message that carry data are marks 1, 2, ... in the order   *)
(* in which they are said; an item is its type and the marks its print     *)
(* function shows, a sequence of sets because uniform numbers and ball     *)
(* moves are kept as sets.                                                 *)
(***************************************************************************)
EXTENDS Integers, Sequences, FiniteSets, SequencesExt

CONSTANT MaxCalls      \* bound: builder calls of one message

ASSUME ClangAssumption == MaxCalls \in Nat

VARIABLES todo,        \* what is left of the derivation, leftmost first
          items,       \* MsgBuilder::M_items, the top is the last
          vers,        \* MsgBuilder::M_min_ver, M_max_ver
          message,     \* MsgBuilder::M_msg: its text and version range
          parse,       \* "reading", "said", "rejected" or "error"
          calls,       \* builder calls made so far
          spoken,      \* history: marks said so far
          fourth,      \* history: marks of the fourth points of quads
          asked        \* history: versions the elements asked for

gvars == <<todo, items, vers, message, parse, calls, spoken, fourth, asked>>

NoVersion == [min |-> 1000, max |-> 0]       \* (unsigned int)-1 and 0
NoMessage == [text |-> <<>>, vers |-> NoVersion, made |-> FALSE]

-----------------------------------------------------------------------------
(* What each builder call takes: one item or all items of a type that lie  *)
(* on top of the stack, in the order in which they are taken.              *)
One(t) == [type |-> t, many |-> FALSE]
Many(t) == [type |-> t, many |-> TRUE]

(* One table of several that have no key in common.                        *)
Merged(tables) == [key \in UNION {DOMAIN t : t \in tables} |->
                     (CHOOSE t \in tables : key \in DOMAIN t)[key]]

MessageCalls ==
  [MetaMsg |-> <<Many("META")>>, MetaTokenVer |-> <<>>, DefineMsg |-> <<Many("DEF")>>,
   DefineCond |-> <<One("COND")>>, DefineDir |-> <<One("DIR")>>,
   DefineReg |-> <<One("REG")>>, DefineAct |-> <<One("ACTION")>>]
TokenCalls ==
  [FreeformMsg |-> <<>>, UnsuppMsg |-> <<>>, InfoMsg |-> <<Many("TOKEN")>>,
   AdviceMsg |-> <<Many("TOKEN")>>, TokenRule |-> <<Many("DIR"), One("COND")>>,
   TokenClear |-> <<>>]
ActionCalls ==
  [ActPos |-> <<One("REG")>>, ActHome |-> <<One("REG")>>,
   ActBallToReg |-> <<Many("BMT"), One("REG")>>, ActBallToPlayer |-> <<One("UNUMSET")>>,
   ActMark |-> <<One("UNUMSET")>>, ActMarkLinePlayer |-> <<One("UNUMSET")>>,
   ActMarkLineReg |-> <<One("REG")>>, ActOffsideLine |-> <<One("REG")>>,
   ActHetType |-> <<>>, ActNamed |-> <<>>]
ActionCallsOfVersion8 ==
  [ActPassReg |-> <<One("REG")>>, ActPassUNum |-> <<One("UNUMSET")>>,
   ActDribble |-> <<One("REG")>>, ActClear |-> <<One("REG")>>, ActShoot |-> <<>>,
   ActHold |-> <<>>, ActIntercept |-> <<>>, ActTackle |-> <<One("UNUMSET")>>]
DirectiveCalls == [DirComm |-> <<Many("ACTION"), One("UNUMSET")>>, DirNamed |-> <<>>]
ConditionCalls ==
  [CondTrue |-> <<>>, CondFalse |-> <<>>, CondPlayerPos |-> <<One("REG"), One("UNUMSET")>>,
   CondBallPos |-> <<One("REG")>>, CondBallOwner |-> <<One("UNUMSET")>>,
   CondPlayMode |-> <<>>, CondAnd |-> <<One("CONDLIST")>>, CondOr |-> <<One("CONDLIST")>>,
   CondNot |-> <<One("COND")>>, CondNamed |-> <<>>]
CompareCalls ==
  [CondTime |-> <<>>, CondOppGoal |-> <<>>, CondOurGoal |-> <<>>, CondGoalDiff |-> <<>>,
   CondUNum |-> <<One("UNUMSET")>>, AddToCondList |-> <<One("COND"), One("CONDLIST")>>,
   CreateCondList |-> <<One("COND")>>]
RegionCalls ==
  [RegNull |-> <<>>, RegQuad |-> <<One("PT"), One("PT"), One("PT"), One("PT")>>,
   RegArc |-> <<One("PT")>>, RegUnion |-> <<Many("REG")>>, RegNamed |-> <<>>,
   RegPoint |-> <<One("PT")>>, RegTri |-> <<One("PT"), One("PT"), One("PT")>>,
   RegRec |-> <<One("PT"), One("PT")>>]
PointCalls ==
  [PointSimple |-> <<>>, PointRel |-> <<One("PT")>>, PointBall |-> <<>>,
   PointPlayer |-> <<>>, PointArith |-> <<One("PT"), One("PT")>>, UNum |-> <<>>,
   UNumSet |-> <<Many("UNUM")>>, BallMoveToken |-> <<>>]
RuleCalls ==          \* the grammar puts every rule id into a list first
  [RuleMsg |-> <<Many("ACTIVATE")>>, ActivateRules |-> <<One("RIDLIST")>>,
   RuleID |-> <<>>, RuleIDList |-> <<Many("RID")>>, RuleIDListALL |-> <<>>,
   DelMsg |-> <<One("RIDLIST")>>, DefineModelRule |-> <<One("RULE")>>,
   DefineDirectiveRule |-> <<One("RULE")>>, SimpleRule |-> <<Many("DIR"), One("COND")>>,
   NestedRule |-> <<Many("RULE"), One("COND")>>, IDRule |-> <<One("RIDLIST")>>]

CallTables == {MessageCalls, TokenCalls, ActionCalls, ActionCallsOfVersion8, DirectiveCalls,
               ConditionCalls, CompareCalls, RegionCalls, PointCalls, RuleCalls}
Takes == Merged(CallTables)
Calls == DOMAIN Takes

Messages == {"MetaMsg", "DefineMsg", "FreeformMsg", "UnsuppMsg", "InfoMsg",
             "AdviceMsg", "RuleMsg", "DelMsg"}
Named == {"DefineCond", "DefineDir", "DefineReg", "DefineAct", "ActNamed", "DirNamed",
          "CondNamed", "CondUNum", "RegNamed", "PointPlayer", "UNum", "RuleID",
          "DefineModelRule", "DefineDirectiveRule", "FreeformMsg"}

(* The type under which add() puts the result of a call on the stack.      *)
Type(call) ==
  CASE call = "MetaTokenVer" -> "META"
    [] call \in {"DefineCond", "DefineDir", "DefineReg", "DefineAct",
                 "DefineModelRule", "DefineDirectiveRule"} -> "DEF"
    [] call \in {"TokenRule", "TokenClear"} -> "TOKEN"
    [] call \in DOMAIN ActionCalls \cup DOMAIN ActionCallsOfVersion8 -> "ACTION"
    [] call \in DOMAIN DirectiveCalls -> "DIR"
    [] call \in {"AddToCondList", "CreateCondList"} -> "CONDLIST"
    [] call \in DOMAIN ConditionCalls \cup {"CondTime", "CondOppGoal", "CondOurGoal",
                                            "CondGoalDiff", "CondUNum"} -> "COND"
    [] call \in DOMAIN RegionCalls -> "REG"
    [] call \in {"PointSimple", "PointRel", "PointBall", "PointPlayer", "PointArith"} -> "PT"
    [] call = "UNum" -> "UNUM"
    [] call = "UNumSet" -> "UNUMSET"
    [] call = "BallMoveToken" -> "BMT"
    [] call = "ActivateRules" -> "ACTIVATE"
    [] call = "RuleID" -> "RID"
    [] call \in {"RuleIDList", "RuleIDListALL"} -> "RIDLIST"
    [] call \in {"SimpleRule", "NestedRule", "IDRule"} -> "RULE"
    [] OTHER -> "MSG"

-----------------------------------------------------------------------------
(* What the print function of each class shows of what its call took: the  *)
(* numbers of the groups taken, in the order in which they are printed.    *)
PositionActs == [ActPos |-> <<1>>, ActHome |-> <<1>>]
BallActs == [ActBallToReg |-> <<2, 1>>, ActBallToPlayer |-> <<1>>]
MarkActs == [ActMark |-> <<1>>, ActMarkLinePlayer |-> <<1>>]
LineActs == [ActMarkLineReg |-> <<1>>, ActOffsideLine |-> <<1>>]
PlainActs == [ActHetType |-> <<>>, ActNamed |-> <<>>]
PassActs == [ActPassReg |-> <<1>>, ActPassUNum |-> <<1>>]
RunActs == [ActDribble |-> <<1>>, ActClear |-> <<1>>]
BareActs == [ActShoot |-> <<>>, ActHold |-> <<>>, ActIntercept |-> <<>>]
TackleActs == [ActTackle |-> <<1>>]
PlayerConds == [CondTrue |-> <<>>, CondFalse |-> <<>>, CondPlayerPos |-> <<2, 1>>]
BallConds == [CondBallPos |-> <<1>>, CondBallOwner |-> <<1>>, CondPlayMode |-> <<>>]
ListConds == [CondAnd |-> <<1>>, CondOr |-> <<1>>]
OtherConds == [CondNot |-> <<1>>, CondNamed |-> <<>>]
CompareConds == [CondTime |-> <<>>, CondOppGoal |-> <<>>, CondOurGoal |-> <<>>,
                 CondGoalDiff |-> <<>>, CondUNum |-> <<1>>]
Points == [PointSimple |-> <<>>, PointBall |-> <<>>, PointPlayer |-> <<>>,
           PointRel |-> <<1>>]
ArithPoints == [PointArith |-> <<2, 1>>]
QuadRegions == [RegNull |-> <<>>, RegQuad |-> <<4, 3, 2>>]   \* i < 3
ArcRegions == [RegArc |-> <<1>>]
UnionRegions == [RegUnion |-> <<1>>]
PlainRegions == [RegNamed |-> <<>>, RegPoint |-> <<1>>]
CornerRegions == [RegTri |-> <<3, 2, 1>>, RegRec |-> <<2, 1>>]
RuleLists == [RuleIDList |-> <<1>>, ActivateRules |-> <<1>>, RuleIDListALL |-> <<>>]
CondRules == [SimpleRule |-> <<2, 1>>, NestedRule |-> <<2, 1>>]
IDListRules == [IDRule |-> <<1>>]
Directives == [DirComm |-> <<2, 1>>, DirNamed |-> <<>>]
Tokens == [TokenRule |-> <<2, 1>>, TokenClear |-> <<>>]
Definitions == [DefineCond |-> <<1>>, DefineDir |-> <<1>>, DefineReg |-> <<1>>,
                DefineAct |-> <<1>>]
RuleDefinitions == [DefineModelRule |-> <<1>>, DefineDirectiveRule |-> <<1>>]
MetaMsgs == [MetaMsg |-> <<1>>, MetaTokenVer |-> <<>>]
DefineMsgs == [DefineMsg |-> <<1>>]
InfoMsgs == [InfoMsg |-> <<1>>]
AdviceMsgs == [AdviceMsg |-> <<1>>]
RuleMsgs == [RuleMsg |-> <<1>>]
DelMsgs == [DelMsg |-> <<1>>]
FreeformMsgs == [FreeformMsg |-> <<>>]
UnsuppMsgs == [UnsuppMsg |-> <<>>]
SetsAndLists == [UNumSet |-> <<1>>, CreateCondList |-> <<1>>, AddToCondList |-> <<2, 1>>,
                 UNum |-> <<>>, BallMoveToken |-> <<>>, RuleID |-> <<>>]

PrintTables ==
  {PositionActs, BallActs, MarkActs, LineActs, PlainActs, PassActs, RunActs, BareActs,
   TackleActs, PlayerConds, BallConds, ListConds, OtherConds, CompareConds, Points,
   ArithPoints, QuadRegions, ArcRegions, UnionRegions, PlainRegions, CornerRegions,
   RuleLists, CondRules, IDListRules, Directives, Tokens, Definitions, RuleDefinitions,
   MetaMsgs, DefineMsgs, InfoMsgs, AdviceMsgs, RuleMsgs, DelMsgs, FreeformMsgs,
   UnsuppMsgs, SetsAndLists}
Printed == Merged(PrintTables)

-----------------------------------------------------------------------------
(* The grammar: what each symbol derives, with the builder calls and the   *)
(* calls of setVer in the places of the semantic actions.                  *)
MessageSyntax ==
  [message |-> {<<"metas", "MetaMsg", "7">>, <<"FreeformMsg", "8 or 7">>,
                <<"tokens", "InfoMsg", "7">>, <<"tokens", "AdviceMsg", "7">>,
                <<"defines", "DefineMsg", "8 or 7">>, <<"UnsuppMsg", "8 or 7">>,
                <<"actives", "RuleMsg", "8">>, <<"ids", "DelMsg", "8">>},
   actives |-> {<<"actives", "active">>, <<"active">>},
   active |-> {<<"ids", "ActivateRules">>},
   ids |-> {<<"RuleID", "RuleIDList">>, <<"idlist", "RuleIDList">>, <<"RuleIDListALL">>},
   idlist |-> {<<"idlist", "RuleID">>, <<"RuleID">>},
   metas |-> {<<"metas", "MetaTokenVer">>, <<"MetaTokenVer">>}]
DefineSyntax ==
  [defines |-> {<<"defines", "define">>, <<"define">>},
   define |-> {<<"condition", "DefineCond">>, <<"directive", "DefineDir">>,
               <<"region", "DefineReg">>, <<"action", "DefineAct">>,
               <<"rule", "DefineModelRule", "8">>, <<"rule", "DefineDirectiveRule", "8">>},
   rule |-> {<<"condition", "directives", "SimpleRule">>, <<"ids", "IDRule">>,
             <<"condition", "rules", "NestedRule">>},
   rules |-> {<<"rules", "rule">>, <<"rule">>},
   token |-> {<<"condition", "directives", "TokenRule">>, <<"TokenClear">>},
   tokens |-> {<<"tokens", "token">>, <<"token">>}]
ActionSyntax ==
  [action |-> {<<"region", "ActPos">>, <<"region", "ActHome">>, <<"region", "bmoves", "ActBallToReg">>,
               <<"unumset", "ActBallToPlayer">>, <<"unumset", "ActMark">>,
               <<"unumset", "ActMarkLinePlayer">>, <<"region", "ActMarkLineReg">>,
               <<"region", "ActOffsideLine">>, <<"ActHetType">>, <<"ActNamed">>,
               <<"region", "ActPassReg", "8">>, <<"unumset", "ActPassUNum", "8">>,
               <<"region", "ActDribble", "8">>, <<"region", "ActClear", "8">>,
               <<"ActShoot", "8">>, <<"ActHold", "8">>, <<"ActIntercept", "8">>,
               <<"unumset", "ActTackle", "8">>},
   directive |-> {<<"unumset", "actions", "DirComm">>, <<"DirNamed">>},
   actions |-> {<<"actions", "action">>, <<"action">>},
   directives |-> {<<"directives", "directive">>, <<"directive">>}]
ConditionSyntax ==
  [condition |-> {<<"CondTrue">>, <<"CondFalse">>, <<"unumset", "region", "CondPlayerPos">>,
                  <<"region", "CondBallPos">>, <<"unumset", "CondBallOwner">>, <<"CondPlayMode">>,
                  <<"conditions", "CondAnd">>, <<"conditions", "CondOr">>,
                  <<"condition", "CondNot">>, <<"CondNamed">>, <<"CondTime", "8">>,
                  <<"CondOppGoal", "8">>, <<"CondOurGoal", "8">>, <<"CondGoalDiff", "8">>,
                  <<"unumset", "CondUNum", "8">>},
   conditions |-> {<<"conditions", "condition", "AddToCondList">>,
                   <<"condition", "CreateCondList">>}]
RegionSyntax ==
  [region |-> {<<"RegNull">>, <<"point", "point", "point", "point", "RegQuad", "7">>,
               <<"point", "RegArc">>, <<"regions", "RegUnion">>, <<"RegNamed">>,
               <<"point", "RegPoint">>, <<"point", "point", "point", "RegTri", "8">>,
               <<"point", "point", "RegRec", "8">>},
   regions |-> {<<"regions", "region">>, <<"region">>}]
PointSyntax ==
  [point |-> {<<"PointSimple">>, <<"point", "PointRel">>, <<"PointBall">>, <<"PointPlayer">>,
              <<"PointPlayer", "8">>, <<"sum">>},
   sum |-> {<<"sum", "sum", "PointArith", "8">>, <<"point">>}]
UNumSyntax ==
  [unumset |-> {<<"unums", "UNumSet">>}, unums |-> {<<"unum">>, <<"unums", "unum">>},
   unum |-> {<<"UNum">>, <<"UNum", "8">>},
   bmoves |-> {<<"bmoves", "BallMoveToken">>, <<"BallMoveToken">>}]

SyntaxTables == {MessageSyntax, DefineSyntax, ActionSyntax, ConditionSyntax, RegionSyntax,
                 PointSyntax, UNumSyntax}
Syntax == Merged(SyntaxTables)
Versions == {"7", "8", "8 or 7"}

-----------------------------------------------------------------------------
(* MsgBuilder::setVer and Msg::setVer, which are the same.  min = max asks *)
(* for that version, min > max for any version between the two.            *)
LastAsked(v, lo, hi) == [min |-> lo, max |-> hi]
setVer(v, lo, hi) ==
  IF lo = hi
  THEN IF lo < v.max THEN [v EXCEPT !.min = lo]
       ELSE IF lo > v.min THEN [v EXCEPT !.max = lo]
       ELSE IF v.max < v.min THEN [min |-> lo, max |-> lo]
       ELSE v
  ELSE LET w == [min |-> IF lo < v.min THEN lo ELSE v.min,
                 max |-> IF hi > v.max THEN hi ELSE v.max]
       IN  IF lo > hi /\ w.max < w.min /\ lo > w.max /\ hi < w.min
           THEN [min |-> lo, max |-> hi] ELSE w

(* Msg::isSupported, for a client that supports versions lo to hi.         *)
isSupported(v, lo, hi) ==
  IF v.min >= v.max
  THEN \/ lo <= v.max /\ hi >= v.max
       \/ lo <= v.min /\ hi >= v.min
  ELSE lo <= v.min /\ hi >= v.max

(* One group off the stack: checkAndGet.. for one item; for many, the      *)
(* loop `while ( isItem( type ) )' after checkIsItem.                      *)
Take(st, group) ==
  LET n == Len(st.items)
      depth == IF ~group.many THEN 1
               ELSE CHOOSE k \in 1..n :
                      /\ \A i \in (n - k + 1)..n : st.items[i].type = group.type
                      /\ k = n \/ st.items[n - k].type # group.type
      top == SubSeq(st.items, n - depth + 1, n)
  IN  IF st.error \/ n = 0 \/ st.items[n].type # group.type
      THEN [st EXCEPT !.error = TRUE]
      ELSE [items |-> SubSeq(st.items, 1, n - depth), error |-> FALSE,
            taken |-> Append(st.taken, FlattenSeq([i \in 1..depth |-> top[i].text]))]

TakeAll(call) ==
  LET n == Len(Takes[call])
      after[i \in 0..n] ==
        IF i = 0 THEN [items |-> items, error |-> FALSE, taken |-> <<>>]
        ELSE Take(after[i - 1], Takes[call][i])
  IN  after[n]

(* Uniform numbers and ball moves are kept as sets.                        *)
AsSet(text) == <<UNION ToSet(text)>>
Text(call, taken) ==
  LET shown == [i \in 1..Len(taken) |-> IF Takes[call][i].type \in {"UNUM", "BMT"}
                                        THEN AsSet(taken[i]) ELSE taken[i]]
      order == Printed[call]
  IN  FlattenSeq([i \in 1..Len(order) |-> shown[order[i]]])

-----------------------------------------------------------------------------
ClangInit ==
  /\ todo = <<"message">> /\ items = <<>> /\ vers = NoVersion /\ message = NoMessage
  /\ parse = "reading" /\ calls = 0 /\ spoken = 0 /\ fourth = {} /\ asked = {}

Reading == parse = "reading" /\ todo # <<>>

Derive ==
  /\ Reading /\ Head(todo) \in DOMAIN Syntax
  /\ \E rhs \in Syntax[Head(todo)] : todo' = rhs \o Tail(todo)
  /\ Cardinality({i \in 1..Len(todo') : todo'[i] \notin Versions}) + calls <= MaxCalls
  /\ UNCHANGED <<items, vers, message, parse, calls, spoken, fourth, asked>>

(* A builder call: takes its items, adds the result or, for a message,     *)
(* makes the message (setMsg) and demands that the stack is empty.  A      *)
(* wrong or missing item throws.                                           *)
Build ==
  /\ Reading /\ Head(todo) \in Calls
  /\ LET call == Head(todo)
         st == TakeAll(call)
         leaf == Takes[call] = <<>>
         text == IF leaf THEN <<{spoken + 1}>> ELSE Text(call, st.taken)
         merged == setVer(vers, vers.min, vers.max)
     IN  IF st.error \/ (call \in Messages /\ st.items # <<>>)
         THEN /\ parse' = "error" /\ todo' = <<>>
              /\ UNCHANGED <<items, vers, message, calls, spoken, fourth, asked>>
         ELSE /\ calls' = calls + 1
              /\ spoken' = IF leaf THEN spoken + 1 ELSE spoken
              /\ fourth' = IF call = "RegQuad" THEN fourth \cup UNION ToSet(st.taken[1]) ELSE fourth
              /\ IF call \in Messages
                 THEN /\ message' = [text |-> text, made |-> TRUE,
                                     vers |-> setVer(NoVersion, vers.min, vers.max)]
                      /\ vers' = merged /\ items' = st.items
                 ELSE /\ items' = Append(st.items, [type |-> Type(call), text |-> text])
                      /\ UNCHANGED <<vers, message>>
              /\ todo' = Tail(todo)
              /\ UNCHANGED <<parse, asked>>

(* BUILDER.setVer in a semantic action.                                    *)
Version ==
  /\ Reading /\ Head(todo) \in Versions
  /\ LET lo == IF Head(todo) = "7" THEN 7 ELSE 8
         hi == IF Head(todo) = "8" THEN 8 ELSE 7
     IN  /\ vers' = setVer(vers, lo, hi)
         /\ message' = IF message.made
                       THEN [message EXCEPT !.vers = setVer(@, lo, hi)] ELSE message
         /\ asked' = IF lo = hi THEN asked \cup {lo} ELSE asked
  /\ todo' = Tail(todo)
  /\ UNCHANGED <<items, parse, calls, spoken, fourth>>

(* A name longer than the builder's limit: YYERROR, the parse fails and    *)
(* the builder is thrown away with what it holds.                          *)
LongName ==
  /\ Reading /\ Head(todo) \in Named
  /\ parse' = "rejected" /\ todo' = <<>>
  /\ UNCHANGED <<items, vers, message, calls, spoken, fourth, asked>>

EndOfMessage ==
  /\ parse = "reading" /\ todo = <<>>
  /\ parse' = "said"
  /\ UNCHANGED <<todo, items, vers, message, calls, spoken, fourth, asked>>

ClangNext == Derive \/ Build \/ Version \/ LongName \/ EndOfMessage
ClangSpec == ClangInit /\ [][ClangNext]_gvars

-----------------------------------------------------------------------------
(* Every message of the grammar is built without an error (nothing taken   *)
(* off the stack by the wrong element, nothing left on it), and the        *)
(* players hear every word of it once and in the order in which the coach  *)
(* said it, but for the fourth point of a quad, which RegQuad::print       *)
(* leaves out.  It is heard by exactly the players who support every       *)
(* version its elements ask for, in whatever order they ask.               *)
MessageAsSaid ==
  /\ parse # "error"
  /\ parse = "said" =>
       /\ message.made /\ items = <<>>
       /\ UNION ToSet(message.text) = (1..spoken) \ fourth
       /\ \A i, j \in 1..Len(message.text) :
            i < j => \A a \in message.text[i], b \in message.text[j] : a < b
       /\ \A lo, hi \in 6..9 : lo <= hi =>
            (isSupported(message.vers, lo, hi) <=>
               IF asked = {} THEN {7, 8} \cap lo..hi # {} ELSE asked \subseteq lo..hi)
=============================================================================
