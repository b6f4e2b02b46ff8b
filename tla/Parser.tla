------------------------------- MODULE Parser -------------------------------
(***************************************************************************)
(* The recursive descent of src/parser/parser.cpp as a state machine: the  *)
(* call stack of parse functions over the token buffer, one action for     *)
(* each kind of step ParseSteps names.                                     *)
(*                                                                         *)
(* The source is given as its tokens: lexing on demand, lookahead and      *)
(* characters that start no token are the subject of ParserContext.        *)
(***************************************************************************)
EXTENDS ParserRules, Integers, FiniteSetsExt

CONSTANTS
    Words,              \* the texts a token may have
    Inputs              \* the sources, each as its tokens

(* What is left of a token of '>'s when consumeOneGt has taken the first.  *)
AfterGt == [t \in {">>", ">=", ">>=", ">>>", ">>>="} |->
    CASE t = ">>"   -> ">"
      [] t = ">="   -> "="
      [] t = ">>="  -> ">="
      [] t = ">>>"  -> ">>"
      [] t = ">>>=" -> ">>="]

GtWidth(t) ==
    CASE t \in {">>", ">="}   -> 2
      [] t \in {">>=", ">>>"} -> 3
      [] t = ">>>="           -> 4

ASSUME WordsAssumption ==
    DOMAIN AfterGt \cup {">"} \cup {AfterGt[t] : t \in DOMAIN AfterGt} \subseteq Words

Token_ == [text : Words, kind : STRING, offset : Nat, length : Nat]

(* Tokens come in source order without overlapping; the last one, only, is *)
(* the empty end of file; a token of '>'s is as wide as its text.          *)
WellLexed(ts) ==
    /\ ts \in Seq(Token_) /\ ts # << >>
    /\ \A i \in 1..Len(ts) :
          /\ ts[i].kind = "EndOfFile" <=> i = Len(ts)
          /\ ts[i].length = 0 <=> i = Len(ts)
          /\ ts[i].text = "" <=> i = Len(ts)
          /\ ts[i].text \in DOMAIN AfterGt => ts[i].length = GtWidth(ts[i].text)
    /\ \A i, j \in 1..Len(ts) : i < j => ts[i].offset + ts[i].length <= ts[j].offset

ASSUME InputsAssumption == \A ts \in Inputs : WellLexed(ts)

VARIABLES
    source,     \* the source's tokens
    tokens,     \* m_tokens
    cursor,     \* m_cursor, as the number of tokens before it
    diags,      \* m_diagnostics, each by what it says and where
    stack,      \* the parse functions that are running, parseScript first
    script      \* the node that parseScript has returned

vars == <<source, tokens, cursor, diags, stack, script>>
-----------------------------------------------------------------------------
Null == [rule |-> "nullptr"]

Cur == tokens[cursor + 1]

AtEnd == Cur.kind = "EndOfFile"

EndOf(t) == t.offset + t.length

Passes(test) ==
    /\ Cur.text \in test.texts \/ Cur.kind \in test.kinds
    /\ test.next # {} => tokens[cursor + 2].text \in test.next

(* canParseLambda: the first ')' that closes more than was opened after    *)
(* `function' has to be followed by a '{'.                                 *)
Count(t, i, j) == Cardinality({k \in i..j : tokens[k].text = t})

CanParseLambda ==
    /\ Passes(Before(Text("function"), {"("}))
    /\ \E i \in (cursor + 2)..(Len(tokens) - 1) :
          /\ Count(")", cursor + 2, i) > Count("(", cursor + 2, i)
          /\ \A j \in (cursor + 2)..(i - 1) :
                Count(")", cursor + 2, j) <= Count("(", cursor + 2, j)
          /\ tokens[i + 1].text = "{"

(* skipMetadata: the cursor gets to the first token that is not in, and    *)
(* does not begin, a [...] group, or to the end of file if a group is not  *)
(* closed.                                                                 *)
AfterMetadata ==
    LET Balanced(i, j) == Count("[", i, j) = Count("]", i, j)
    IN  Min({i \in (cursor + 1)..Len(tokens) :
                \/ tokens[i].text # "[" /\ Balanced(cursor + 1, i - 1)
                \/ i = Len(tokens)}) - 1

(* Definitions whose names start with `Wrong' are faults a change to the    *)
(* code could bring in; the properties are seen to fail with each of them.  *)
WrongSplit ==            \* the remainder starts where the token did
    SubSeq(tokens, 1, cursor)
    \o <<[Cur EXCEPT !.text = ">", !.length = 1],
         [Cur EXCEPT !.text = AfterGt[Cur.text], !.length = @ - 1]>>
    \o SubSeq(tokens, cursor + 2, Len(tokens))

Split ==
    SubSeq(tokens, 1, cursor)
    \o <<[Cur EXCEPT !.text = ">", !.length = 1],
         [Cur EXCEPT !.text = AfterGt[Cur.text], !.offset = @ + 1, !.length = @ - 1]>>
    \o SubSeq(tokens, cursor + 2, Len(tokens))
-----------------------------------------------------------------------------
(* A running parse function: the cursor it started at, the steps it has    *)
(* yet to do, and what its node holds so far.                              *)
Frame(rule, at) ==
    [rule |-> rule, start |-> at, todo |-> Rules[rule], kids |-> << >>]

Top == stack[Len(stack)]

Head1 == Top.todo[1]

Rest == Tail(Top.todo)

Doing(what) == stack # << >> /\ Top.todo # << >> /\ Head1.do = what

Continue(f) == stack' = [stack EXCEPT ![Len(stack)] = f]

Then(steps) == Continue([Top EXCEPT !.todo = steps])

(* spanFrom(start), here that of the function on top.                      *)
Span ==
    LET first == tokens[Top.start + 1]
        last  == IF cursor > 0 THEN tokens[cursor] ELSE first
    IN  IF EndOf(last) < first.offset
        THEN [offset |-> first.offset, length |-> first.length]
        ELSE [offset |-> first.offset, length |-> EndOf(last) - first.offset]

NodeOf(f) ==
    [rule |-> f.rule, offset |-> Span.offset, length |-> Span.length, kids |-> f.kids]

(* The caller takes up what the function it called has returned.           *)
Resumed(f, result) ==
    LET call == f.todo[1]
        rest == Tail(f.todo)
    IN  IF result # Null
        THEN [f EXCEPT !.kids = Append(@, result), !.todo = call.hit \o rest]
        ELSE IF Len(call.rules) > 1
        THEN [f EXCEPT !.todo = <<[call EXCEPT !.rules = Tail(@)]>> \o rest]
        ELSE [f EXCEPT !.todo = <<Miss(call.miss)>> \o rest]

Return(result) ==
    IF Len(stack) = 1
    THEN stack' = << >> /\ script' = result
    ELSE /\ stack' = Append(SubSeq(stack, 1, Len(stack) - 2),
                            Resumed(stack[Len(stack) - 1], result))
         /\ UNCHANGED script

Report(why) ==
    diags' = Append(diags, [why |-> why, offset |-> Cur.offset, length |-> Cur.length])

Stepped == IF AtEnd THEN cursor ELSE cursor + 1
-----------------------------------------------------------------------------
Init ==
    /\ source \in Inputs
    /\ tokens = source
    /\ cursor = 0
    /\ diags = << >>
    /\ stack = <<Frame("Script", 0)>>
    /\ script = Null

TakeToken ==
    /\ Doing("token") /\ Passes(Head1.test)
    /\ cursor' = Stepped
    /\ Continue([Top EXCEPT !.todo = Rest,
                            !.kids = IF Head1.keep THEN Append(@, Cur) ELSE @])
    /\ UNCHANGED <<source, tokens, diags, script>>

MissToken ==
    /\ Doing("token") /\ ~Passes(Head1.test)
    /\ Then(<<Miss(Head1.miss)>> \o Rest)
    /\ UNCHANGED <<source, tokens, cursor, diags, script>>

TakeBranch ==
    /\ \/ Doing("branch") /\ Then((IF Passes(Head1.test) THEN Head1.then
                                   ELSE Head1.otherwise) \o Rest)
       \/ Doing("lambda") /\ Then((IF CanParseLambda THEN Head1.then ELSE << >>) \o Rest)
       \/ Doing("nonEmpty") /\ Then((IF Top.kids = << >> THEN <<Miss(Head1.miss)>>
                                     ELSE << >>) \o Rest)
    /\ UNCHANGED <<source, tokens, cursor, diags, script>>

Call ==
    /\ Doing("rules")
    /\ stack' = Append(stack, Frame(Head1.rules[1], cursor))
    /\ UNCHANGED <<source, tokens, cursor, diags, script>>

(* The node is complete.                                                   *)
ReturnNode ==
    /\ stack # << >> /\ (Top.todo # << >> => Head1.do = "done")
    /\ Return(NodeOf(Top))
    /\ UNCHANGED <<source, tokens, cursor, diags>>

ReturnChild ==
    /\ Doing("give")
    /\ Return(IF Top.kids = << >> THEN Null ELSE Top.kids[Len(Top.kids)])
    /\ UNCHANGED <<source, tokens, cursor, diags>>

MissNull ==
    /\ Doing("miss") /\ Head1.miss \in {"null", "back", "reportNull", "reportBack"}
    /\ IF Head1.miss \in {"reportNull", "reportBack"}
       THEN Report("expected") ELSE UNCHANGED diags
    /\ cursor' = IF Head1.miss \in {"back", "reportBack"} THEN Top.start ELSE cursor
    /\ Return(Null)
    /\ UNCHANGED <<source, tokens>>

MissOn ==
    /\ Doing("miss") /\ Head1.miss \in {"skip", "report", "error"}
    /\ CASE Head1.miss = "skip" -> UNCHANGED <<cursor, diags>>
         [] Head1.miss = "report" -> Report("expected") /\ UNCHANGED cursor
         [] Head1.miss = "error" -> Report("token") /\ cursor' = Stepped
    /\ Then(Rest)
    /\ UNCHANGED <<source, tokens, script>>

(* Loops and Trys leave a mark in todo behind their body.                  *)
FirstMark(do) ==
    CHOOSE i \in 1..Len(Top.todo) :
        Top.todo[i].do = do /\ \A j \in 1..(i - 1) : Top.todo[j].do # do

From(i) == SubSeq(Top.todo, i, Len(Top.todo))

EnterLoop ==
    /\ Doing("loop")
    /\ IF AtEnd \/ Passes(Head1.stop) THEN Then(Rest)
       ELSE Then(Head1.body \o <<[Head1 EXCEPT !.do = "again"]>> \o Rest)
    /\ UNCHANGED <<source, tokens, cursor, diags, script>>

NextRound ==
    /\ Doing("again")
    /\ LET over   == AtEnd \/ Passes(Head1.stop)
                     \/ (Head1.sep # "none" /\ ~Passes(Text(",")))
           comma  == ~over /\ Head1.sep # "none"
           next   == tokens[cursor + 2]
           trails == /\ comma /\ Head1.sep = "trailing"
                     /\ next.text \in Head1.stop.texts
       IN  /\ cursor' = IF comma THEN cursor + 1 ELSE cursor
           /\ Then(IF over \/ trails THEN Rest ELSE Head1.body \o Top.todo)
    /\ UNCHANGED <<source, tokens, diags, script>>

MissBreak ==
    /\ Doing("miss") /\ Head1.miss = "break"
    /\ Then(From(FirstMark("again") + 1))
    /\ UNCHANGED <<source, tokens, cursor, diags, script>>

WrongEnterTry ==         \* the cursor is saved too late
    /\ Doing("try")
    /\ Then(Head1.body
            \o <<[do |-> "tried", at |-> cursor + 1, kids |-> Top.kids,
                  otherwise |-> Head1.otherwise]>>
            \o Rest)
    /\ UNCHANGED <<source, tokens, cursor, diags, script>>

EnterTry ==
    /\ Doing("try")
    /\ Then(Head1.body
            \o <<[do |-> "tried", at |-> cursor, kids |-> Top.kids,
                  otherwise |-> Head1.otherwise]>>
            \o Rest)
    /\ UNCHANGED <<source, tokens, cursor, diags, script>>

TrySucceeds ==
    /\ Doing("tried")
    /\ Then(Rest)
    /\ UNCHANGED <<source, tokens, cursor, diags, script>>

WrongMissFail ==         \* what the Try built stays in the node
    /\ Doing("miss") /\ Head1.miss = "fail"
    /\ LET i == FirstMark("tried")
           tried == Top.todo[i]
       IN  /\ cursor' = tried.at
           /\ Then(tried.otherwise \o From(i + 1))
    /\ UNCHANGED <<source, tokens, diags, script>>

MissFail ==
    /\ Doing("miss") /\ Head1.miss = "fail"
    /\ LET i == FirstMark("tried")
           tried == Top.todo[i]
       IN  /\ cursor' = tried.at
           /\ Continue([Top EXCEPT !.kids = tried.kids,
                                   !.todo = tried.otherwise \o From(i + 1)])
    /\ UNCHANGED <<source, tokens, diags, script>>

(* consumeOneGt closes a template list, splitting the token if need be.    *)
CloseTemplate ==
    /\ Doing("gt")
    /\ IF Cur.text \in DOMAIN AfterGt \cup {">"}
       THEN /\ tokens' = IF Cur.text = ">" THEN tokens ELSE Split
            /\ cursor' = cursor + 1
            /\ Then(From(FirstMark("tried")))
       ELSE Then(Rest) /\ UNCHANGED <<tokens, cursor>>
    /\ UNCHANGED <<source, diags, script>>

SkipMetadata ==
    /\ Doing("metadata")
    /\ cursor' = AfterMetadata
    /\ Then(Rest)
    /\ UNCHANGED <<source, tokens, diags, script>>

(* parseScope: an identifier's template arguments replace earlier ones,    *)
(* which are all those of one identifier, next to each other in the node.  *)
DropOlderTypes ==
    /\ Doing("dropTypes")
    /\ LET kids == Top.kids
           older == {k \in 1..Len(kids) : "rule" \in DOMAIN kids[k] /\ kids[k].rule = "Type"}
       IN  Continue([Top EXCEPT !.todo = Rest,
                                !.kids = IF older = {} THEN kids
                                         ELSE SubSeq(kids, 1, Min(older) - 1)
                                              \o SubSeq(kids, Max(older) + 1, Len(kids))])
    /\ UNCHANGED <<source, tokens, cursor, diags, script>>

WrongSecondKept ==       \* reported, but kept
    /\ Doing("refuseSecond")
    /\ LET kids == Top.kids
           n == Len(kids)
           IsAccessor(k) == "rule" \in DOMAIN kids[k] /\ kids[k].rule = "Accessor"
           Sort(k) == kids[k].kids[1]
           second == \E k \in 1..(n - 1) :
                        /\ IsAccessor(k) /\ IsAccessor(n)
                        /\ Sort(k).text = Sort(n).text
       IN  IF second
           THEN diags' = Append(diags, [why |-> "duplicate", offset |-> Sort(n).offset,
                                        length |-> Sort(n).length])
           ELSE UNCHANGED diags
    /\ Then(Rest)
    /\ UNCHANGED <<source, tokens, cursor, script>>

(* parseVirtualProp: a second accessor of the same sort is reported, where *)
(* it starts, and dropped.                                                 *)
RefuseSecondAccessor ==
    /\ Doing("refuseSecond")
    /\ LET kids == Top.kids
           n == Len(kids)
           IsAccessor(k) == "rule" \in DOMAIN kids[k] /\ kids[k].rule = "Accessor"
           Sort(k) == kids[k].kids[1]
           second == \E k \in 1..(n - 1) :
                        /\ IsAccessor(k) /\ IsAccessor(n)
                        /\ Sort(k).text = Sort(n).text
       IN  IF second
           THEN /\ diags' = Append(diags, [why |-> "duplicate", offset |-> Sort(n).offset,
                                           length |-> Sort(n).length])
                /\ Continue([Top EXCEPT !.todo = Rest, !.kids = SubSeq(kids, 1, n - 1)])
           ELSE Then(Rest) /\ UNCHANGED diags
    /\ UNCHANGED <<source, tokens, cursor, script>>

Step ==
    \/ TakeToken \/ MissToken \/ TakeBranch
    \/ Call \/ ReturnNode \/ ReturnChild
    \/ MissNull \/ MissOn \/ MissBreak \/ MissFail
    \/ EnterLoop \/ NextRound
    \/ EnterTry \/ TrySucceeds \/ CloseTemplate
    \/ SkipMetadata \/ DropOlderTypes \/ RefuseSecondAccessor

(* Parse has returned.                                                     *)
Finished == stack = << >> /\ UNCHANGED vars

Next == Step \/ Finished

Spec == Init /\ [][Next]_vars

(* Nothing suspends the thread that parses.                                *)
FairSpec == Spec /\ WF_vars(Step)
-----------------------------------------------------------------------------
Chars(t) == t.offset .. (EndOf(t) - 1)

Tries(f) == {i \in 1..Len(f.todo) : f.todo[i].do = "tried"}

TypeOK ==
    /\ WellLexed(source)
    /\ WellLexed(tokens)
    /\ cursor \in 0..(Len(tokens) - 1)
    /\ diags \in Seq([why : {"expected", "token", "duplicate"}, offset : Nat, length : Nat])
    /\ \A k \in 1..Len(stack) :
          /\ stack[k].rule \in DOMAIN Rules
          /\ stack[k].start \in Nat

(* Whatever is put back was consumed by the function that puts it back: no *)
(* function started, and no Try began, behind the cursor or before the     *)
(* function that called it.  A rewind to a stale cursor would feed text to *)
(* a function that its caller has already parsed, or drop some.            *)
RewindsNest ==
    /\ stack # << >> => Top.start <= cursor
    /\ \A k \in 1..Len(stack) :
          /\ k > 1 => stack[k - 1].start <= stack[k].start
          /\ \A i \in Tries(stack[k]) :
                /\ stack[k].start <= stack[k].todo[i].at
                /\ stack[k].todo[i].at <= (IF k < Len(stack) THEN stack[k + 1].start
                                            ELSE cursor)

(* Where the text ends that the function at depth k has consumed itself.   *)
ReachOf(k) ==
    LET c == IF k < Len(stack) THEN stack[k + 1].start ELSE cursor
    IN  IF c > 0 THEN EndOf(tokens[c]) ELSE 0

(* Nodes that may be empty: they then have the span of the token ahead.    *)
MayBeEmpty == {"Script", "ScriptBody", "LambdaParam"}

IsEmptyNode(kid) ==
    "rule" \in DOMAIN kid /\ kid.rule \in MayBeEmpty /\ kid.kids = << >>

(* No token ends up in two nodes, or in one it does not belong to: what a  *)
(* running function keeps lies in order, without overlap, in the text that *)
(* it has consumed and not put back; so siblings are disjoint, and a node  *)
(* covers its children.  An empty node is the exception, the token ahead   *)
(* can be in the node that follows it too: `function ( { ) ) {' has a      *)
(* parameter and a body that both begin at the first brace.                *)
KidsInConsumedText ==
    \A k \in 1..Len(stack) :
        LET kids == stack[k].kids IN
        /\ \A i, j \in 1..Len(kids) :
              i < j => /\ kids[i].offset <= kids[j].offset
                       /\ IsEmptyNode(kids[i]) \/ EndOf(kids[i]) <= kids[j].offset
        /\ \A i \in 1..Len(kids) :
              /\ tokens[stack[k].start + 1].offset <= kids[i].offset
              /\ IsEmptyNode(kids[i]) \/ EndOf(kids[i]) <= ReachOf(k)

(* A function that returns a node of its own has consumed a token, so that *)
(* the loops that call functions until they return nullptr come to an end. *)
NodeConsumes == ReturnNode /\ Top.rule \notin MayBeEmpty => cursor > Top.start

NodesConsume == [][NodeConsumes]_vars

IsNodeOf(rule, kid) == "rule" \in DOMAIN kid /\ kid.rule = rule

(* The accessors among the first n of them are of different sorts.         *)
SortsDiffer(kids, n) ==
    \A a, b \in 1..n :
        a < b /\ IsNodeOf("Accessor", kids[a]) /\ IsNodeOf("Accessor", kids[b])
            => kids[a].kids[1].text # kids[b].kids[1].text

(* A virtual property has one accessor of each sort, at most: whoever      *)
(* keeps its node gets it without a second one, which is reported where it *)
(* is (parseVirtualProp), while what follows it is still parsed.           *)
AccessorsUnique ==
    \A k \in 1..Len(stack) : \A i \in 1..Len(stack[k].kids) :
        LET node == stack[k].kids[i]
        IN  IsNodeOf("VirtualProp", node) => SortsDiffer(node.kids, Len(node.kids))

(* Parse returns, whatever the source is.                                  *)
Terminates == <>(stack = << >>)

(* The parse functions consume text in order and put it back only to marks *)
(* that are still live: they use the buffer as TokenReader allows.         *)
Unread(c) == UNION {Chars(tokens[i]) : i \in (c + 1)..Len(tokens)}

(* The marks of Trys, the outermost first: its step is the last in todo.   *)
MarksIn(steps) ==
    LET n == Len(steps)
        from[i \in 1..(n + 1)] ==
            IF i = n + 1 THEN << >>
            ELSE IF steps[i].do = "tried" THEN Append(from[i + 1], steps[i].at)
            ELSE from[i + 1]
    IN  from[1]

MarksOf(f) == <<f.start>> \o MarksIn(f.todo)

MarksAlong(st) ==      \* parseScript itself never rewinds
    LET upTo[k \in 0..Len(st)] ==
            IF k <= 1 THEN << >> ELSE upTo[k - 1] \o MarksOf(st[k])
    IN  upTo[Len(st)]

AllMarks == MarksAlong(stack)

Marked == LET ms == AllMarks IN [k \in 1..Len(ms) |-> Unread(ms[k])]

Reader == INSTANCE TokenReader WITH
    Texts  <- {UNION {Chars(ts[i]) : i \in 1..Len(ts)} : ts \in Inputs},
    text   <- Unread(0),
    unread <- Unread(cursor),
    marked <- Marked

UsesReader == Reader!Spec
=============================================================================
