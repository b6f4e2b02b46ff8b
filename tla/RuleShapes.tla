----------------------------- MODULE RuleShapes -----------------------------
(***************************************************************************)
(* What the parse functions of ParserRules have in common, whatever they   *)
(* parse, and that each of them has it (theorem EveryRuleIsSound):         *)
(*                                                                         *)
(*  - they leave loops and fail only where there is a loop or a Try, and   *)
(*    call only functions that exist;                                      *)
(*  - they test for tokens that exist: at the end of file no test passes;  *)
(*  - before one of them returns a node, it has consumed a token, or has   *)
(*    called a function that did: there is a step none of its ways to a    *)
(*    node leads past, and that returns nullptr if it finds nothing.       *)
(*                                                                         *)
(* The three functions that may return a node of no text are MayBeEmpty's; *)
(* they are called only by functions that have consumed a token already.   *)
(***************************************************************************)
EXTENDS ParserRules, Integers

RuleNames ==
    {"Script", "ScriptBody", "Namespace", "Using", "Enum", "Class", "TypeDef", "Func",
     "ListPattern", "ListEntry", "Interface", "Var", "Import", "FuncDef", "VirtualProp",
     "Accessor", "InterfaceMethod", "StatBlock", "ParamList", "Parameter", "Type",
     "InitList", "Scope", "DataType", "Statement", "Switch", "Break", "For", "ForEach",
     "While", "DoWhile", "If", "Continue", "ExprStat", "Try", "Return", "Case", "Expr",
     "OpTerm", "ExprTerm", "ExprValue", "VoidLiteral", "ConstructorCall", "ExprPostOp",
     "Cast", "Lambda", "LambdaParam", "Literal", "FuncCall", "VarAccess", "ArgList",
     "Assign", "Condition"}

(* The functions whose nodes hold a token.                                 *)
Bearing == RuleNames \ {"Script", "ScriptBody", "LambdaParam"}

(* The words that a test may ask for; the text of the end of file, "", is  *)
(* none of them.                                                           *)
Keywords ==
    {"shared", "external", "abstract", "final", "override", "explicit", "property",
     "delete", "nodiscard", "private", "protected", "in", "out", "inout", "const",
     "if_handle_then_const", "mixin", "class", "namespace", "using", "enum",
     "typedef", "interface", "funcdef", "import", "from", "repeat", "repeat_same",
     "get", "set", "switch", "break", "for", "foreach", "while", "do", "if", "else",
     "continue", "try", "catch", "return", "case", "default", "cast", "function",
     "true", "false", "null"}

Punctuation == {"(", ")", "{", "}", "[", "]", ";", ",", ":", "::", ".", "...", "?"}

TestWords ==
    PrimTypes \cup ExprPreOps \cup ExprOps \cup AssignOps \cup Keywords \cup Punctuation

Tests == [texts : SUBSET TestWords, kinds : SUBSET {"Name", "Number", "String", "Bits"},
          next : SUBSET TestWords]

(* What may be missed: by returning nullptr, or by going on.               *)
GivesUp == {"null", "back", "reportNull", "reportBack"}
Misses == GivesUp \cup {"skip", "report", "error", "break", "fail"}

(* Where a step is: in a loop or in a Try of its function, or where the    *)
(* function has consumed text for sure.                                    *)
PlaceFlags == {"loop", "try", "fed"}
Places == SUBSET PlaceFlags

MissesIn(c) ==
    {m \in Misses : (m = "break" => "loop" \in c) /\ (m = "fail" => "try" \in c)}

Specials(r) ==
    CASE r = "Scope" -> {"dropTypes"}
      [] r = "VirtualProp" -> {"refuseSecond"}
      [] OTHER -> {}

Hits == {<< >>, <<Done>>, <<Give>>}

Separators == {"none", "comma", "trailing"}

(* The steps with no steps in them that the function of r may do at c.     *)
Simple(r, c) ==
    [do : {"token"}, test : Tests, keep : BOOLEAN, miss : MissesIn(c)]
    \cup [do : {"rules"}, rules : Seq(Bearing) \ {<< >>}, hit : Hits, miss : MissesIn(c)]
    \cup {s \in [do : {"rules"}, rules : Seq(RuleNames) \ {<< >>}, hit : Hits,
                 miss : MissesIn(c)] : "fed" \in c}
    \cup [do : {"miss", "nonEmpty"}, miss : MissesIn(c)]
    \cup [do : {"metadata"} \cup Specials(r)]
    \cup {s \in [do : {"done", "give"}] : "fed" \in c}
    \cup {s \in [do : {"gt"}] : "try" \in c}

(* A branch that goes on with the token it has tested for.                 *)
Guarded(s) ==
    /\ s.then # << >>
    /\ s.then[1].do = "token" /\ s.then[1].test = s.test

(* All the steps that it may do at c, given those that may be in them: at  *)
(* c, where text has been consumed, in a loop, and in a Try.               *)
Made(r, c, Here, Fed, InLoop, InTry) ==
    Simple(r, c)
    \cup [do : {"branch"}, test : Tests, then : Seq(Here), otherwise : Seq(Here)]
    \cup {s \in [do : {"branch"}, test : Tests, then : Seq(Fed),
                 otherwise : Seq(Here)] : Guarded(s)}
    \cup [do : {"lambda"}, then : Seq(Here)]
    \cup [do : {"loop"}, stop : Tests, sep : Separators, body : Seq(InLoop)]
    \cup [do : {"try"}, body : Seq(InTry), otherwise : Seq(Here)]

WhenFed(c) == c \cup {"fed"}
InALoop(c) == c \cup {"loop"}
InATry(c) == c \cup {"try"}

(* The steps that are nested so many deep.                                 *)
Depth1(r, c) == Made(r, c, {}, {}, {}, {})
Depth2(r, c) == Made(r, c, Depth1(r, c), Depth1(r, WhenFed(c)),
                           Depth1(r, InALoop(c)), Depth1(r, InATry(c)))
Depth3(r, c) == Made(r, c, Depth2(r, c), Depth2(r, WhenFed(c)),
                           Depth2(r, InALoop(c)), Depth2(r, InATry(c)))
Depth4(r, c) == Made(r, c, Depth3(r, c), Depth3(r, WhenFed(c)),
                           Depth3(r, InALoop(c)), Depth3(r, InATry(c)))
Depth5(r, c) == Made(r, c, Depth4(r, c), Depth4(r, WhenFed(c)),
                           Depth4(r, InALoop(c)), Depth4(r, InATry(c)))
Steps(r, c) == Made(r, c, Depth5(r, c), Depth5(r, WhenFed(c)),
                          Depth5(r, InALoop(c)), Depth5(r, InATry(c)))
-----------------------------------------------------------------------------
(* A step that returns nullptr if nothing has been consumed by then.       *)
FeedsAtOnce(s) ==
    \/ s.do \in {"token", "miss", "nonEmpty"} /\ s.miss \in GivesUp
    \/ s.do = "rules" /\ s.miss \in GivesUp /\ s.rules \in Seq(Bearing)

HasFeed(ss) == \E i \in 1..Len(ss) : FeedsAtOnce(ss[i])

Feeds(s) ==
    \/ FeedsAtOnce(s)
    \/ s.do = "branch" /\ (Guarded(s) \/ HasFeed(s.then)) /\ HasFeed(s.otherwise)

(* Loops and Trys that have been entered leave a step behind their body,   *)
(* to which a "break" or a "fail" leads past the steps before it.          *)
Mark(s) == s.do \in {"again", "tried"}

(* A function that began at one token and is at another now has consumed   *)
(* text by its i-th step.                                                  *)
FedBy(start, at, ss, i) ==
    \/ start < at
    \/ \E k \in 1..(i - 1) : Feeds(ss[k]) /\ \A j \in (k + 1)..(i - 1) : ~Mark(ss[j])

PlacedIn(c, ss, i) ==
    /\ "loop" \in c => \E j \in (i + 1)..Len(ss) : ss[j].do = "again"
    /\ "try" \in c => \E j \in (i + 1)..Len(ss) : ss[j].do = "tried"

StepOK(r, c, s) ==
    \/ s \in Steps(r, c)
    \/ /\ s.do = "again"
       /\ s = [do |-> "again", stop |-> s.stop, sep |-> s.sep, body |-> s.body]
       /\ s.body \in Seq(Steps(r, InALoop(c))) /\ s.stop \in Tests
       /\ s.sep \in Separators
    \/ /\ s.do = "tried"
       /\ s.otherwise \in Seq(Steps(r, c))

IsSeq(s) == Len(s) \in Nat /\ s = [i \in 1..Len(s) |-> s[i]]

(* What the function of r may have yet to do.                              *)
Sound(r, start, at, ss) ==
    /\ IsSeq(ss)
    /\ \A i \in 1..Len(ss) : \E c \in Places :
          /\ PlacedIn(c, ss, i) /\ StepOK(r, c, ss[i])
          /\ "fed" \in c => FedBy(start, at, ss, i)
    /\ r \in Bearing => FedBy(start, at, ss, Len(ss) + 1)

(* What it has to do when it is called.                                    *)
Fresh(r, start, at, ss) ==
    Sound(r, start, at, ss) /\ \A i \in 1..Len(ss) : ~Mark(ss[i])
=============================================================================
