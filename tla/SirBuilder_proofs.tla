------------------------- MODULE SirBuilder_proofs -------------------------
(***************************************************************************)
(* Theorems about SirBuilder, for all scripts over all well formed trees:  *)
(* the variables keep their types, no id dangles in any state, the scopes  *)
(* match the calls, and what has been built is not changed any more.       *)
(*                                                                         *)
(* The argument is about the call stack.  Each frame waits for a result of *)
(* one sort, and the frame above it is that of a function that returns     *)
(* this sort (Linked), so that when a function returns an id, the one that *)
(* takes it up finds the entry it names; and an id that is kept in a frame *)
(* or in the module stays good because the module only grows.              *)
(***************************************************************************)
EXTENDS SirBuilder, FiniteSetTheorems, SequenceTheorems, WellFoundedInduction, TLAPS

(* The entries of the module, given the lengths of what they refer to.     *)
TypeEntry == [name : Texts, returnType : Nat]

SymbolOK(y, t, f) ==
    y \in SymbolEntry /\ y.type \in 1..t /\ (y.kind = "Function" => y.function \in 1..f)

ParameterOK(p, t, s) == p \in ParameterEntry /\ p.type \in 1..t /\ p.symbol \in 0..s

FunctionOK(g, t, s, b) ==
    /\ g \in FunctionEntry
    /\ g.returnType \in 1..t /\ g.functionType \in 1..t /\ g.symbol \in 1..s /\ g.body \in 0..b
    /\ \A k \in 1..Len(g.parameters) : ParameterOK(g.parameters[k], t, s)

StatementOK(x, s, b, e) ==
    /\ x \in StatementEntry /\ x.kids \in Seq(1..e)
    /\ x.kind = "VarDecl" => x.ref \in 1..s
    /\ x.kind = "Block" => x.ref \in 1..b

ExprOK(x, i, t, s, f) ==
    /\ x \in ExprEntry /\ x.type \in 1..t /\ x.kids \in Seq(1..(i - 1))
    /\ x.kind = "SymbolRef" => x.ref \in 1..s
    /\ x.kind = "Call" => x.ref \in 0..f

SymbolsOK(ys, t, f) == ys \in Seq(SymbolEntry) /\ \A i \in 1..Len(ys) : SymbolOK(ys[i], t, f)

FunctionsOK(gs, t, s, b) ==
    gs \in Seq(FunctionEntry) /\ \A i \in 1..Len(gs) : FunctionOK(gs[i], t, s, b)

StatementsOK(xs, s, b, e) ==
    xs \in Seq(StatementEntry) /\ \A i \in 1..Len(xs) : StatementOK(xs[i], s, b, e)

ExprsOK(xs, t, s, f) ==
    xs \in Seq(ExprEntry) /\ \A i \in 1..Len(xs) : ExprOK(xs[i], i, t, s, f)

Scope(s) == UNION {[names -> 1..s] : names \in SUBSET STRING}

ModuleOK ==
    /\ script \in Seq(ChildNodes)
    /\ types \in Seq(TypeEntry) /\ Len(types) >= Len(Builtins)
    /\ SymbolsOK(symbols, Len(types), Len(functions))
    /\ FunctionsOK(functions, Len(types), Len(symbols), Len(blocks))
    /\ blocks \in Seq(Seq(1..Len(statements)))
    /\ StatementsOK(statements, Len(symbols), Len(blocks), Len(exprs))
    /\ ExprsOK(exprs, Len(types), Len(symbols), Len(functions))
    /\ scopes \in Seq(Scope(Len(symbols)))
    /\ diags \subseteq Reports
-----------------------------------------------------------------------------
(* The frames, given those lengths.                                        *)
Ops == {"="} \cup Compounds
Decls == [name : STRING, init : InitNodes]
OpTerms == [op : STRING \ {""}, term : TermNodes]

ScriptFrames == [at : {"script"}, next : Ids]
ParameterFrames(f) ==
    [at : {"parameters"}, function : 1..f, next : Ids, body : BlockNodes, prev : {Invalid}]
BodyFrames(f) == [at : {"body"}, function : 1..f, prev : {Invalid}]
StatementFrames(x) ==
    [at : {"statements"}, rest : Seq(StatementNodes), statements : Seq(1..x), isBody : BOOLEAN]
DeclaratorFrames(t, x) ==
    [at : {"declarators"}, rest : Seq(Decls), statements : Seq(1..x), type : 1..t]
InitializerFrames(t, s) == [at : {"initializer"}, symbol : 1..s, type : 1..t]
PlainFrames == [at : {"exprStat", "return", "ternary"}]
LhsFrames == [at : {"lhs"}, op : Ops, rhs : AssignNodes]
RhsFrames(e) == [at : {"rhs"}, op : Ops, lhs : 1..e]
FirstOperandFrames == [at : {"operands"}, acc : {Invalid}, op : {""}, rest : Seq(OpTerms)]
OperandFrames(e) == [at : {"operands"}, acc : 1..e, op : STRING \ {""}, rest : Seq(OpTerms)]
ArgumentFrames(f, e) ==
    [at : {"arguments"}, function : 0..f, rest : Seq(RhsNodes), args : Seq(1..e)]

Frames(t, s, f, x, e) ==
    ScriptFrames \cup ParameterFrames(f) \cup BodyFrames(f)
    \cup StatementFrames(x) \cup DeclaratorFrames(t, x) \cup InitializerFrames(t, s)
    \cup PlainFrames \cup LhsFrames \cup RhsFrames(e)
    \cup FirstOperandFrames \cup OperandFrames(e) \cup ArgumentFrames(f, e)

FramesNow == Frames(Len(types), Len(symbols), Len(functions), Len(statements), Len(exprs))

(* What a function waits for at a point, and what it will return.          *)
Wants(fr) ==
    CASE fr.at = "script" -> "nothing"
      [] fr.at = "body" -> "block"
      [] fr.at = "statements" -> "statement"
      [] fr.at = "declarators" -> "declaration"
      [] fr.at \in {"initializer", "exprStat", "return", "lhs", "rhs", "ternary",
                    "operands", "arguments"} -> "expr"
      [] OTHER -> "none"

Gives(fr) ==
    CASE fr.at \in {"parameters", "body"} -> "nothing"
      [] fr.at = "statements" /\ fr.isBody -> "block"
      [] \/ fr.at = "statements" /\ ~fr.isBody
         \/ fr.at \in {"declarators", "exprStat", "return"} -> "statement"
      [] fr.at = "initializer" -> "declaration"
      [] fr.at \in {"lhs", "rhs", "ternary", "operands", "arguments"} -> "expr"
      [] OTHER -> "end"

Linked(st) ==
    /\ st # << >> => st[1].at = "script"
    /\ \A i \in 2..Len(st) : Gives(st[i]) = Wants(st[i - 1])

(* The nodes that are built for one sort of result, and the ids then.      *)
NodesFor(sort) ==
    CASE sort = "block" -> BlockNodes
      [] sort = "statement" -> StatementNodes
      [] sort = "expr" ->
            AssignNodes \cup ConditionNodes \cup ExprNodes \cup TermNodes \cup ValueNodes
            \cup NodesOf({"OtherInitializer"})
      [] OTHER -> {}

IdsFor(sort, b, x, e) ==
    CASE sort = "block" -> 1..b
      [] sort \in {"statement", "declaration"} -> 1..x
      [] sort = "expr" -> 1..e
      [] OTHER -> {}

(* What the function on top may find returned: an id, or, unless it must   *)
(* have called one, none.                                                  *)
Settled(fr, id, b, x, e) ==
    \/ id \in IdsFor(Wants(fr), b, x, e)
    \/ /\ id = Invalid
       /\ fr.at \notin {"body", "lhs", "rhs", "ternary", "operands"}
       /\ fr.at = "declarators" => fr.rest # << >>

StackOK == stack \in Seq(FramesNow) /\ Linked(stack)

ContextOK == currentFunction = IF Len(stack) >= 2 THEN stack[2].function ELSE Invalid

ControlOK ==
    IF stack = << >> THEN call = Null /\ returned = Invalid
    ELSE IF call = Null THEN Settled(Top, returned, Len(blocks), Len(statements), Len(exprs))
    ELSE returned = Invalid /\ call \in NodesFor(Wants(Top))

(* What is set once is not set yet.                                        *)
PendingOK ==
    Len(stack) >= 2 =>
        LET g == functions[stack[2].function]
        IN  /\ g.body = Invalid
            /\ stack[2].at = "parameters" =>
                  \A k \in DOMAIN g.parameters :
                      k >= stack[2].next => g.parameters[k].symbol = Invalid

BuilderInv == ModuleOK /\ StackOK /\ ContextOK /\ ControlOK /\ PendingOK
-----------------------------------------------------------------------------
(* What is good for a module stays good for one that has grown.            *)
UpTo(n, m) == n \in Nat /\ m \in Nat /\ n <= m

LEMMA SymbolsStay ==
    ASSUME NEW ys, NEW t, NEW f, SymbolsOK(ys, t, f),
           NEW t2, UpTo(t, t2), NEW f2, UpTo(f, f2)
    PROVE  SymbolsOK(ys, t2, f2)
BY DEF SymbolsOK, SymbolOK, UpTo

LEMMA FunctionsStay ==
    ASSUME NEW gs, NEW t, NEW s, NEW b, FunctionsOK(gs, t, s, b),
           NEW t2, UpTo(t, t2), NEW s2, UpTo(s, s2), NEW b2, UpTo(b, b2)
    PROVE  FunctionsOK(gs, t2, s2, b2)
<1>1. SUFFICES ASSUME NEW i \in 1..Len(gs) PROVE FunctionOK(gs[i], t2, s2, b2)
  BY DEF FunctionsOK
<1>2. FunctionOK(gs[i], t, s, b)
  BY DEF FunctionsOK
<1>3. ASSUME NEW k \in 1..Len(gs[i].parameters)
      PROVE  ParameterOK(gs[i].parameters[k], t2, s2)
  <2> DEFINE p == gs[i].parameters[k]
  <2>1. ParameterOK(p, t, s)
    BY <1>2 DEF FunctionOK
  <2> HIDE DEF p
  <2>2. ParameterOK(p, t2, s2)
    BY <2>1, SMTT(30) DEF ParameterOK, UpTo
  <2>3. QED
    BY <2>2 DEF p
<1>4. 1..t \subseteq 1..t2 /\ 1..s \subseteq 1..s2 /\ 0..b \subseteq 0..b2
  BY DEF UpTo
<1>5. QED
  BY <1>2, <1>3, <1>4, Zenon DEF FunctionOK

LEMMA SeqOfMore ==
    ASSUME NEW n \in Nat, NEW m \in Nat, n <= m
    PROVE  Seq(1..n) \subseteq Seq(1..m)
OBVIOUS

LEMMA StatementsStay ==
    ASSUME NEW xs, NEW s, NEW b, NEW e, StatementsOK(xs, s, b, e),
           NEW s2, UpTo(s, s2), NEW b2, UpTo(b, b2), NEW e2, UpTo(e, e2)
    PROVE  StatementsOK(xs, s2, b2, e2)
BY SeqOfMore DEF StatementsOK, StatementOK, UpTo

LEMMA ExprsStay ==
    ASSUME NEW xs, NEW t, NEW s, NEW f, ExprsOK(xs, t, s, f),
           NEW t2, UpTo(t, t2), NEW s2, UpTo(s, s2), NEW f2, UpTo(f, f2)
    PROVE  ExprsOK(xs, t2, s2, f2)
BY DEF ExprsOK, ExprOK, UpTo

LEMMA ScopesStay ==
    ASSUME NEW s \in Nat, NEW s2 \in Nat, s <= s2
    PROVE  Scope(s) \subseteq Scope(s2) /\ Seq(Scope(s)) \subseteq Seq(Scope(s2))
<1>1. ASSUME NEW names \in SUBSET STRING PROVE [names -> 1..s] \subseteq [names -> 1..s2]
  <2>1. 1..s \subseteq 1..s2
    OBVIOUS
  <2>2. QED
    BY <2>1, Zenon
<1>2. Scope(s) \subseteq Scope(s2)
  <2>1. SUFFICES ASSUME NEW g \in Scope(s) PROVE g \in Scope(s2)
    OBVIOUS
  <2>2. PICK names \in SUBSET STRING : g \in [names -> 1..s]
    BY DEF Scope
  <2>3. g \in [names -> 1..s2]
    BY <1>1, <2>2
  <2>4. QED
    BY <2>3 DEF Scope
<1>3. QED
  BY <1>2

-----------------------------------------------------------------------------
(* The frames of each point, and what they want and give.                  *)
LEMMA FramesAt ==
    ASSUME NEW t, NEW s, NEW f, NEW x, NEW e, NEW fr \in Frames(t, s, f, x, e)
    PROVE  /\ fr.at = "script" => fr \in ScriptFrames
           /\ fr.at = "parameters" => fr \in ParameterFrames(f)
           /\ fr.at = "body" => fr \in BodyFrames(f)
           /\ fr.at = "statements" => fr \in StatementFrames(x)
           /\ fr.at = "declarators" => fr \in DeclaratorFrames(t, x)
           /\ fr.at = "initializer" => fr \in InitializerFrames(t, s)
           /\ fr.at = "lhs" => fr \in LhsFrames
           /\ fr.at = "rhs" => fr \in RhsFrames(e)
           /\ fr.at = "operands" => fr \in FirstOperandFrames \cup OperandFrames(e)
           /\ fr.at = "arguments" => fr \in ArgumentFrames(f, e)
           /\ fr.at \in {"script", "parameters", "body", "statements", "declarators",
                         "initializer", "exprStat", "return", "ternary", "lhs", "rhs",
                         "operands", "arguments"}
<1>1. /\ fr \in ScriptFrames => fr.at = "script"
      /\ fr \in ParameterFrames(f) => fr.at = "parameters"
      /\ fr \in BodyFrames(f) => fr.at = "body"
      /\ fr \in StatementFrames(x) => fr.at = "statements"
      /\ fr \in DeclaratorFrames(t, x) => fr.at = "declarators"
      /\ fr \in InitializerFrames(t, s) => fr.at = "initializer"
      /\ fr \in PlainFrames => fr.at \in {"exprStat", "return", "ternary"}
      /\ fr \in LhsFrames => fr.at = "lhs"
      /\ fr \in RhsFrames(e) => fr.at = "rhs"
      /\ fr \in FirstOperandFrames => fr.at = "operands"
      /\ fr \in OperandFrames(e) => fr.at = "operands"
      /\ fr \in ArgumentFrames(f, e) => fr.at = "arguments"
  BY DEF ScriptFrames, ParameterFrames, BodyFrames, StatementFrames, DeclaratorFrames,
         InitializerFrames, PlainFrames, LhsFrames, RhsFrames, FirstOperandFrames,
         OperandFrames, ArgumentFrames
<1>2. QED
  BY <1>1 DEF Frames

(* Functions are at the second place of the stack, the script at the first *)
(* and neither is anywhere else.                                           *)
LEMMA Levels ==
    ASSUME NEW S, NEW st \in Seq(S), Linked(st)
    PROVE  /\ Len(st) >= 2 => st[2].at \in {"parameters", "body"}
           /\ \A i \in 1..Len(st) : st[i].at = "script" => i = 1
           /\ \A i \in 1..Len(st) : st[i].at \in {"parameters", "body"} => i = 2
<1>1. \A i \in 2..Len(st) : st[i].at # "script"
  BY DEF Linked, Gives, Wants
<1>2. Len(st) >= 1 => st[1].at = "script"
  BY DEF Linked
<1>3. Len(st) >= 2 => st[2].at \in {"parameters", "body"}
  BY <1>2 DEF Linked, Gives, Wants
<1>4. ASSUME NEW i \in 1..Len(st), st[i].at \in {"parameters", "body"} PROVE i = 2
  <2>1. i # 1
    BY <1>2, <1>4
  <2>2. Wants(st[i - 1]) = "nothing"
    BY <1>4, <2>1 DEF Linked, Gives
  <2>3. st[i - 1].at = "script"
    BY <2>2 DEF Wants
  <2>4. QED
    BY <1>1, <2>1, <2>3
<1>5. QED
  BY <1>1, <1>3, <1>4

LEMMA AllButLast ==
    ASSUME NEW S, NEW st \in Seq(S), NEW n \in Nat, n < Len(st)
    PROVE  /\ SubSeq(st, 1, n) \in Seq(S) /\ Len(SubSeq(st, 1, n)) = n
           /\ \A i \in 1..n : SubSeq(st, 1, n)[i] = st[i]
<1>1. \A i \in 1..n : st[i] \in S
  OBVIOUS
<1>2. /\ SubSeq(st, 1, n) \in Seq(S)
      /\ Len(SubSeq(st, 1, n)) = IF 1 <= n THEN n - 1 + 1 ELSE 0
      /\ \A i \in 1..(n - 1 + 1) : SubSeq(st, 1, n)[i] = st[1 + i - 1]
  BY <1>1, SubSeqProperties
<1>3. n - 1 + 1 = n /\ \A i \in 1..n : 1 + i - 1 = i
  OBVIOUS
<1>4. QED
  BY <1>2, <1>3

LEMMA LinkedPush ==
    ASSUME NEW S, NEW st \in Seq(S), Linked(st), st # << >>, NEW fr \in S,
           Gives(fr) = Wants(st[Len(st)])
    PROVE  Append(st, fr) \in Seq(S) /\ Linked(Append(st, fr))
BY DEF Linked

LEMMA LinkedReplace ==
    ASSUME NEW S, NEW st \in Seq(S), Linked(st), st # << >>, NEW fr \in S,
           Gives(fr) = Gives(st[Len(st)]), fr.at = "script" <=> st[Len(st)].at = "script",
           NEW below \in Seq(S), Len(below) = Len(st) - 1,
           \A i \in 1..Len(below) : below[i] = st[i]
    PROVE  Append(below, fr) \in Seq(S) /\ Linked(Append(below, fr))
<1> DEFINE new == Append(below, fr)
<1>1. /\ new \in Seq(S) /\ Len(new) = Len(st) /\ new[Len(st)] = fr
      /\ \A i \in 1..(Len(st) - 1) : new[i] = st[i]
  OBVIOUS
<1>2. Len(st) \in Nat \ {0}
  BY EmptySeq
<1> HIDE DEF new
<1>3. new[1].at = "script"
  <2>1. st[1].at = "script"
    BY DEF Linked
  <2>2. CASE Len(st) = 1
    BY <1>1, <2>1, <2>2
  <2>3. CASE Len(st) # 1
    BY <1>1, <1>2, <2>1, <2>3
  <2>4. QED
    BY <2>2, <2>3
<1>4. ASSUME NEW i \in 2..Len(new) PROVE Gives(new[i]) = Wants(new[i - 1])
  <2>1. Gives(st[i]) = Wants(st[i - 1]) /\ new[i - 1] = st[i - 1]
    BY <1>1 DEF Linked
  <2>2. Gives(new[i]) = Gives(st[i])
    BY <1>1
  <2>3. QED
    BY <2>1, <2>2
<1>5. QED
  BY <1>1, <1>3, <1>4 DEF Linked, new

LEMMA LinkedPop ==
    ASSUME NEW S, NEW st \in Seq(S), Linked(st), st # << >>,
           NEW below \in Seq(S), Len(below) = Len(st) - 1,
           \A i \in 1..Len(below) : below[i] = st[i]
    PROVE  Linked(below)
<1>1. Len(st) \in Nat \ {0}
  BY EmptySeq
<1>2. below # << >> => below[1] = st[1]
  BY EmptySeq
<1>3. QED
  BY <1>2 DEF Linked
-----------------------------------------------------------------------------
(* What a call stands for.                                                 *)
LEMMA NodesAreNodes ==
    ASSUME NEW sort, NEW n \in NodesFor(sort)
    PROVE  /\ n \in Nodes /\ n # Null /\ WellFormed(n)
           /\ sort \in {"block", "statement", "expr"}
<1>1. sort \in {"block", "statement", "expr"}
  BY DEF NodesFor
<1>2. n \in Nodes
  BY <1>1 DEF NodesFor, NodesOf, BlockNodes, StatementNodes, AssignNodes, ConditionNodes,
              ExprNodes, TermNodes, ValueNodes
<1>3. QED
  BY <1>1, <1>2, NodesAssumption

LEMMA TopFacts ==
    ASSUME StackOK, stack # << >>
    PROVE  /\ Len(stack) \in Nat \ {0} /\ Top \in FramesNow
           /\ Below \in Seq(FramesNow) /\ Len(Below) = Len(stack) - 1
           /\ \A i \in 1..Len(Below) : Below[i] = stack[i]
           /\ Top.at # "script" => Len(stack) >= 2
           /\ Top.at \notin {"script", "parameters", "body"} => Len(stack) >= 3
<1>1. stack \in Seq(FramesNow) /\ Linked(stack)
  BY DEF StackOK
<1>2. Len(stack) \in Nat \ {0}
  BY <1>1, EmptySeq
<1>3. Top \in FramesNow
  BY <1>1, <1>2 DEF Top
<1>4. Len(stack) - 1 \in Nat /\ Len(stack) - 1 < Len(stack)
  BY <1>2
<1>5. /\ Below \in Seq(FramesNow) /\ Len(Below) = Len(stack) - 1
      /\ \A i \in 1..(Len(stack) - 1) : Below[i] = stack[i]
  BY <1>1, <1>4, AllButLast DEF Below
<1>6. stack[1].at = "script" /\ (Len(stack) >= 2 => stack[2].at \in {"parameters", "body"})
  BY <1>1, Levels DEF Linked
<1>7. Top.at # "script" => Len(stack) >= 2
  BY <1>2, <1>6 DEF Top
<1>8. Top.at \notin {"script", "parameters", "body"} => Len(stack) >= 3
  BY <1>2, <1>6 DEF Top
<1>9. QED
  BY <1>2, <1>3, <1>5, <1>7, <1>8

(* A step inside a function's body: the functions stay, the module grows.  *)
Grows ==
    /\ ModuleOK /\ ModuleOK'
    /\ types' = types /\ functions' = functions /\ currentFunction' = currentFunction
    /\ Len(symbols) <= Len(symbols') /\ Len(blocks) <= Len(blocks')
    /\ Len(statements) <= Len(statements') /\ Len(exprs) <= Len(exprs')

LEMMA Lengths ==
    ASSUME ModuleOK
    PROVE  /\ Len(types) \in Nat /\ Len(symbols) \in Nat /\ Len(functions) \in Nat
           /\ Len(blocks) \in Nat /\ Len(statements) \in Nat /\ Len(exprs) \in Nat
BY DEF ModuleOK, SymbolsOK, FunctionsOK, StatementsOK, ExprsOK

LEMMA FramesGrow ==
    ASSUME Grows
    PROVE  FramesNow \subseteq FramesNow' /\ Seq(FramesNow) \subseteq Seq(FramesNow')
<1> DEFINE t == Len(types)      t2 == Len(types')
           s == Len(symbols)    s2 == Len(symbols')
           f == Len(functions)  f2 == Len(functions')
           x == Len(statements) x2 == Len(statements')
           e == Len(exprs)      e2 == Len(exprs')
<1>1. t \in Nat /\ s \in Nat /\ f \in Nat /\ x \in Nat /\ e \in Nat
  BY Lengths DEF Grows
<1>2. t2 \in Nat /\ s2 \in Nat /\ f2 \in Nat /\ x2 \in Nat /\ e2 \in Nat
  BY DEF Grows, ModuleOK, SymbolsOK, FunctionsOK, StatementsOK, ExprsOK
<1>3. t <= t2 /\ s <= s2 /\ f <= f2 /\ x <= x2 /\ e <= e2
  BY <1>1 DEF Grows
<1>4. FramesNow = Frames(t, s, f, x, e) /\ FramesNow' = Frames(t2, s2, f2, x2, e2)
  BY DEF FramesNow
<1> HIDE DEF t, t2, s, s2, f, f2, x, x2, e, e2
<1>5. Seq(1..x) \subseteq Seq(1..x2) /\ Seq(1..e) \subseteq Seq(1..e2) /\ 1..e \subseteq 1..e2
  BY <1>1, <1>2, <1>3, SeqOfMore
<1>6. 1..f \subseteq 1..f2 /\ 0..f \subseteq 0..f2 /\ 1..t \subseteq 1..t2 /\ 1..s \subseteq 1..s2
  BY <1>1, <1>2, <1>3
<1>7. /\ ParameterFrames(f) \subseteq ParameterFrames(f2)
      /\ BodyFrames(f) \subseteq BodyFrames(f2)
      /\ StatementFrames(x) \subseteq StatementFrames(x2)
      /\ DeclaratorFrames(t, x) \subseteq DeclaratorFrames(t2, x2)
      /\ InitializerFrames(t, s) \subseteq InitializerFrames(t2, s2)
      /\ RhsFrames(e) \subseteq RhsFrames(e2)
      /\ OperandFrames(e) \subseteq OperandFrames(e2)
      /\ ArgumentFrames(f, e) \subseteq ArgumentFrames(f2, e2)
  BY <1>5, <1>6, Zenon DEF ParameterFrames, BodyFrames, StatementFrames, DeclaratorFrames,
     InitializerFrames, RhsFrames, OperandFrames, ArgumentFrames
<1>8. FramesNow \subseteq FramesNow'
  BY <1>4, <1>7, Zenon DEF Frames
<1>9. QED
  BY <1>8

(* The place of the function in the stack is not touched inside its body.  *)
LEMMA FunctionStays ==
    ASSUME BuilderInv, Grows, Len(stack) >= 2, Len(stack)' >= 2, stack'[2] = stack[2]
    PROVE  ContextOK' /\ PendingOK'
BY DEF BuilderInv, ContextOK, PendingOK, Grows

(* A node or nothing has been called, and the frame on top waits for it.   *)
Waits(fr, node) ==
    \/ node # Null /\ node \in NodesFor(Wants(fr))
    \/ /\ node = Null
       /\ fr.at \notin {"body", "lhs", "rhs", "ternary", "operands"}
       /\ fr.at = "declarators" => fr.rest # << >>

LEMMA PushKeeps ==
    ASSUME BuilderInv, Grows, call # Null,
           NEW fr \in FramesNow', NEW node, CallFrom(fr, node),
           Gives(fr) = Wants(Top), Waits(fr, node)
    PROVE  StackOK' /\ ContextOK' /\ ControlOK' /\ PendingOK'
<1>1. stack # << >> /\ call \in NodesFor(Wants(Top)) /\ returned = Invalid
  BY DEF BuilderInv, ControlOK
<1>2. Top.at # "script"
  BY <1>1, NodesAreNodes DEF Wants
<1>3. stack \in Seq(FramesNow) /\ Linked(stack) /\ Len(stack) \in Nat /\ Len(stack) >= 2
  BY <1>1, <1>2, TopFacts DEF BuilderInv, StackOK
<1>4. stack \in Seq(FramesNow')
  BY <1>3, FramesGrow
<1>5. stack' = Append(stack, fr) /\ call' = node /\ returned' = Invalid
  BY <1>1 DEF CallFrom
<1>6. StackOK'
  BY <1>1, <1>3, <1>4, <1>5, LinkedPush DEF StackOK, Top
<1>7. Len(stack') = Len(stack) + 1 /\ stack'[Len(stack')] = fr /\ stack'[2] = stack[2]
  BY <1>3, <1>4, <1>5
<1>8. ContextOK' /\ PendingOK'
  BY <1>3, <1>7, FunctionStays
<1>9. Top' = fr /\ stack' # << >>
  BY <1>3, <1>7, EmptySeq DEF Top
<1>10. ControlOK'
  BY <1>5, <1>9, Zenon DEF ControlOK, Waits, Settled
<1>11. QED
  BY <1>6, <1>8, <1>10

LEMMA ResumeKeeps ==
    ASSUME BuilderInv, Grows, stack # << >>,
           Top.at \notin {"script", "parameters", "body"},
           NEW fr \in FramesNow', NEW node, Resume(fr, node),
           Gives(fr) = Gives(Top), Waits(fr, node)
    PROVE  StackOK' /\ ContextOK' /\ ControlOK' /\ PendingOK'
<1>1. /\ stack \in Seq(FramesNow) /\ Linked(stack) /\ Len(stack) \in Nat /\ Len(stack) >= 3
      /\ Below \in Seq(FramesNow) /\ Len(Below) = Len(stack) - 1
      /\ \A i \in 1..Len(Below) : Below[i] = stack[i]
      /\ Top \in FramesNow
  BY TopFacts DEF BuilderInv, StackOK
<1>2. stack \in Seq(FramesNow') /\ Below \in Seq(FramesNow')
  BY <1>1, FramesGrow
<1>3. stack' = Append(Below, fr) /\ call' = node /\ returned' = Invalid
  BY DEF Resume
<1>4. Gives(Top) # "end"
  BY <1>1, FramesAt DEF FramesNow, Gives
<1>5. fr.at # "script"
  BY <1>4 DEF Gives
<1>6. StackOK'
  BY <1>1, <1>2, <1>3, <1>5, LinkedReplace DEF StackOK, Top
<1>7. Len(stack') = Len(stack) /\ stack'[Len(stack')] = fr /\ stack'[2] = stack[2]
  BY <1>1, <1>2, <1>3
<1>8. ContextOK' /\ PendingOK'
  BY <1>1, <1>7, FunctionStays
<1>9. Top' = fr /\ stack' # << >>
  BY <1>1, <1>7, EmptySeq DEF Top
<1>10. ControlOK'
  BY <1>3, <1>9, Zenon DEF ControlOK, Waits, Settled
<1>11. QED
  BY <1>6, <1>8, <1>10

LEMMA LeaveKeeps ==
    ASSUME BuilderInv, Grows, stack # << >>, call = Null,
           Top.at \notin {"script", "parameters", "body"},
           NEW id, Leave(id),
           id \in IdsFor(Gives(Top), Len(blocks)', Len(statements)', Len(exprs)')
    PROVE  StackOK' /\ ContextOK' /\ ControlOK' /\ PendingOK'
<1>1. /\ stack \in Seq(FramesNow) /\ Linked(stack) /\ Len(stack) \in Nat /\ Len(stack) >= 3
      /\ Below \in Seq(FramesNow) /\ Len(Below) = Len(stack) - 1
      /\ \A i \in 1..Len(Below) : Below[i] = stack[i]
  BY TopFacts DEF BuilderInv, StackOK
<1>2. Below \in Seq(FramesNow')
  BY <1>1, FramesGrow
<1>3. stack' = Below /\ call' = Null /\ returned' = id
  BY DEF Leave
<1>4. StackOK'
  BY <1>1, <1>2, <1>3, LinkedPop DEF StackOK
<1>5. Len(stack') = Len(stack) - 1 /\ stack'[2] = stack[2]
      /\ stack'[Len(stack')] = stack[Len(stack) - 1]
  BY <1>1, <1>3
<1>6. ContextOK' /\ PendingOK'
  BY <1>1, <1>5, FunctionStays
<1>7. Top' = stack[Len(stack) - 1] /\ stack' # << >>
  BY <1>1, <1>5, EmptySeq DEF Top
<1>8. Gives(Top) = Wants(Top')
  BY <1>1, <1>7 DEF Linked, Top
<1>9. ControlOK'
  BY <1>3, <1>7, <1>8, Zenon DEF ControlOK, Settled
<1>10. QED
  BY <1>4, <1>6, <1>9

LEMMA ReturnKeeps ==
    ASSUME BuilderInv, Grows, call # Null,
           NEW id, Return(id),
           id \in IdsFor(Wants(Top), Len(blocks)', Len(statements)', Len(exprs)')
    PROVE  StackOK' /\ ContextOK' /\ ControlOK' /\ PendingOK'
<1>1. stack # << >> /\ call \in NodesFor(Wants(Top))
  BY DEF BuilderInv, ControlOK
<1>2. Top.at # "script"
  BY <1>1, NodesAreNodes DEF Wants
<1>3. stack \in Seq(FramesNow) /\ Linked(stack) /\ Len(stack) >= 2
  BY <1>1, <1>2, TopFacts DEF BuilderInv, StackOK
<1>4. stack' = stack /\ call' = Null /\ returned' = id /\ Top' = Top
  BY DEF Return, Top
<1>5. StackOK'
  BY <1>3, <1>4, FramesGrow DEF StackOK
<1>6. ContextOK' /\ PendingOK'
  BY <1>3, <1>4, FunctionStays
<1>7. ControlOK'
  BY <1>1, <1>4, Zenon DEF ControlOK, Settled
<1>8. QED
  BY <1>5, <1>6, <1>7

LEMMA TailKeeps ==
    ASSUME BuilderInv, Grows, call # Null, returned' = returned, stack' = stack,
           call' # Null, call' \in NodesFor(Wants(Top))
    PROVE  StackOK' /\ ContextOK' /\ ControlOK' /\ PendingOK'
<1>1. stack # << >> /\ call \in NodesFor(Wants(Top)) /\ returned = Invalid
  BY DEF BuilderInv, ControlOK
<1>2. Top.at # "script"
  BY <1>1, NodesAreNodes DEF Wants
<1>3. stack \in Seq(FramesNow) /\ Linked(stack) /\ Len(stack) >= 2 /\ Top' = Top
  BY <1>1, <1>2, TopFacts DEF BuilderInv, StackOK, Top
<1>4. StackOK'
  BY <1>3, FramesGrow DEF StackOK
<1>5. ContextOK' /\ PendingOK'
  BY <1>3, FunctionStays
<1>6. ControlOK'
  BY <1>1, <1>3, Zenon DEF ControlOK
<1>7. QED
  BY <1>4, <1>5, <1>6
-----------------------------------------------------------------------------
(* The values that are put into the module.                                *)
LEMMA BuiltinTypes ==
    /\ Len(Builtins) = 17 /\ errorType \in 1..17 /\ voidType \in 1..17
    /\ \A t \in 1..17 : BuiltinType(Builtins[t]) \in 1..17
    /\ \A name \in Keywords \cup {"bool", "int", "double", "string", "null_t"} :
          BuiltinType(name) \in 1..17
<1>1. Len(Builtins) = 17
  BY DEF Builtins
<1>2. ASSUME NEW t \in 1..17 PROVE BuiltinType(Builtins[t]) \in 1..17
  BY <1>1, Zenon DEF BuiltinType
<1>3. /\ "void" = Builtins[2] /\ "bool" = Builtins[3] /\ "int" = Builtins[4]
      /\ "double" = Builtins[15] /\ "string" = Builtins[16] /\ "null_t" = Builtins[17]
  BY DEF Builtins
<1>4. 2 \in 1..17 /\ 3 \in 1..17 /\ 4 \in 1..17 /\ 15 \in 1..17 /\ 16 \in 1..17 /\ 17 \in 1..17
  OBVIOUS
<1>5. errorType \in 1..17 /\ voidType \in 1..17
  BY <1>2, <1>3, <1>4 DEF errorType, voidType
<1>6. ASSUME NEW name \in Keywords \cup {"bool", "int", "double", "string", "null_t"}
      PROVE  BuiltinType(name) \in 1..17
  <2>1. PICK t \in 1..17 : name = Builtins[t]
    BY <1>1, <1>3, <1>4, Zenon DEF Keywords
  <2>2. QED
    BY <1>2, <2>1
<1>7. QED
  BY <1>1, <1>2, <1>5, <1>6

LEMMA TypesOfNodes ==
    ASSUME NEW n PROVE TypeOf(n) \in 1..17
BY BuiltinTypes DEF TypeOf

LEMMA LiteralTypes ==
    ASSUME NEW text PROVE LiteralType(text) \in 1..17
BY BuiltinTypes DEF LiteralType

LEMMA ReportsAreStrings ==
    ASSUME NEW ts PROVE TypeReports(ts) \subseteq Reports
<1>1. "unresolved type" \in Reports
  BY DEF Reports
<1>2. QED
  BY <1>1, Zenon DEF TypeReports

LEMMA KidsAreIds ==
    ASSUME NEW n \in Nat PROVE 1..n \subseteq Ids /\ Seq(1..n) \subseteq Seq(Ids)
BY DEF Ids, Invalid

LEMMA ExprIs ==
    ASSUME NEW t \in Nat, NEW s \in Nat, NEW f \in Nat, NEW n \in Nat,
           NEW kind \in {"Literal", "SymbolRef", "Call", "Binary", "Assign", "ImplicitCast",
                         "Error"},
           NEW type \in 1..t, NEW kids \in Seq(1..n), NEW ref \in Nat,
           NEW text \in Seq(Texts),
           kind = "SymbolRef" => ref \in 1..s, kind = "Call" => ref \in 0..f
    PROVE  ExprOK(Expr(kind, type, kids, ref, text), n + 1, t, s, f)
<1>1. type \in Ids /\ kids \in Seq(Ids) /\ n + 1 - 1 = n
  BY DEF Ids, Invalid
<1>2. QED
  BY <1>1 DEF ExprOK, Expr, ExprEntry

LEMMA AppendExpr ==
    ASSUME NEW t, NEW s, NEW f, NEW xs, ExprsOK(xs, t, s, f), NEW x,
           ExprOK(x, Len(xs) + 1, t, s, f)
    PROVE  /\ ExprsOK(Append(xs, x), t, s, f)
           /\ Len(xs) \in Nat /\ Len(Append(xs, x)) = Len(xs) + 1
BY DEF ExprsOK, ExprOK

LEMMA AppendStatement ==
    ASSUME NEW s, NEW b, NEW e, NEW xs, StatementsOK(xs, s, b, e), NEW x, StatementOK(x, s, b, e)
    PROVE  /\ StatementsOK(Append(xs, x), s, b, e)
           /\ Len(xs) \in Nat /\ Len(Append(xs, x)) = Len(xs) + 1
BY DEF StatementsOK, StatementOK

LEMMA AppendSymbol ==
    ASSUME NEW t, NEW f, NEW ys, SymbolsOK(ys, t, f), NEW y, SymbolOK(y, t, f)
    PROVE  /\ SymbolsOK(Append(ys, y), t, f)
           /\ Len(ys) \in Nat /\ Len(Append(ys, y)) = Len(ys) + 1
BY DEF SymbolsOK, SymbolOK

LEMMA AppendFunction ==
    ASSUME NEW t, NEW s, NEW b, NEW gs, FunctionsOK(gs, t, s, b), NEW g, FunctionOK(g, t, s, b)
    PROVE  FunctionsOK(Append(gs, g), t, s, b)
<1>1. gs \in Seq(FunctionEntry) /\ g \in FunctionEntry
  BY DEF FunctionsOK, FunctionOK
<1>2. /\ Append(gs, g) \in Seq(FunctionEntry) /\ Len(Append(gs, g)) = Len(gs) + 1
      /\ \A i \in 1..Len(gs) : Append(gs, g)[i] = gs[i]
      /\ Append(gs, g)[Len(gs) + 1] = g /\ Len(gs) \in Nat
  BY <1>1
<1>3. \A i \in 1..(Len(gs) + 1) : i \in 1..Len(gs) \/ i = Len(gs) + 1
  BY <1>2
<1>4. QED
  BY <1>2, <1>3 DEF FunctionsOK

LEMMA CastOK ==
    ASSUME ModuleOK, NEW id \in 1..Len(exprs), NEW target \in 1..Len(types)
    PROVE  /\ ExprsOK(WithCast(id, target), Len(types), Len(symbols), Len(functions))
           /\ Len(WithCast(id, target)) \in Nat /\ Len(exprs) <= Len(WithCast(id, target))
           /\ CastTo(id, target) \in 1..Len(WithCast(id, target))
<1>1. /\ Len(types) \in Nat /\ Len(symbols) \in Nat /\ Len(functions) \in Nat
      /\ Len(exprs) \in Nat /\ ExprsOK(exprs, Len(types), Len(symbols), Len(functions))
  BY Lengths DEF ModuleOK
<1>2. CASE ~NeedsCast(id, target)
  BY <1>1, <1>2 DEF WithCast, CastTo
<1>3. CASE NeedsCast(id, target)
  <2> DEFINE cast == Expr("ImplicitCast", target, <<id>>, Invalid, << >>)
  <2>1. <<id>> \in Seq(1..Len(exprs)) /\ << >> \in Seq(Texts) /\ Invalid \in Nat
    BY <1>1 DEF Invalid
  <2>2. ExprOK(cast, Len(exprs) + 1, Len(types), Len(symbols), Len(functions))
    BY <1>1, <2>1, ExprIs
  <2> HIDE DEF cast
  <2>3. /\ ExprsOK(Append(exprs, cast), Len(types), Len(symbols), Len(functions))
        /\ Len(Append(exprs, cast)) = Len(exprs) + 1
    BY <1>1, <2>2, AppendExpr
  <2>4. WithCast(id, target) = Append(exprs, cast) /\ CastTo(id, target) = Len(exprs) + 1
    BY <1>3 DEF WithCast, CastTo, cast
  <2>5. QED
    BY <1>1, <2>3, <2>4
<1>4. QED
  BY <1>2, <1>3

LEMMA ErrorExprOK ==
    ASSUME ModuleOK
    PROVE  /\ ExprsOK(Append(exprs, ErrorExpr), Len(types), Len(symbols), Len(functions))
           /\ Len(Append(exprs, ErrorExpr)) = Len(exprs) + 1
<1>1. /\ Len(types) \in Nat /\ Len(symbols) \in Nat /\ Len(functions) \in Nat
      /\ Len(exprs) \in Nat /\ ExprsOK(exprs, Len(types), Len(symbols), Len(functions))
  BY Lengths DEF ModuleOK
<1>2. errorType \in 1..Len(types)
  <2>1. Len(types) >= 17 /\ errorType \in 1..17
    BY BuiltinTypes DEF ModuleOK
  <2>2. QED
    BY <1>1, <2>1
<1>3. << >> \in Seq(1..Len(exprs)) /\ << >> \in Seq(Texts) /\ Invalid \in Nat
  BY <1>1 DEF Invalid
<1>4. ExprOK(ErrorExpr, Len(exprs) + 1, Len(types), Len(symbols), Len(functions))
  BY <1>1, <1>2, <1>3, ExprIs DEF ErrorExpr
<1>5. QED
  BY <1>1, <1>4, AppendExpr
-----------------------------------------------------------------------------
(* How the module grows inside a function's body.                          *)
LEMMA GrowsBy ==
    ASSUME ModuleOK, UNCHANGED <<script, types, functions, currentFunction>>,
           diags' \subseteq Reports,
           SymbolsOK(symbols', Len(types), Len(functions)), Len(symbols) <= Len(symbols'),
           blocks' \in Seq(Seq(1..Len(statements'))), Len(blocks) <= Len(blocks'),
           StatementsOK(statements', Len(symbols'), Len(blocks'), Len(exprs')),
           Len(statements) <= Len(statements'),
           ExprsOK(exprs', Len(types), Len(symbols'), Len(functions)),
           Len(exprs) <= Len(exprs'),
           scopes' \in Seq(Scope(Len(symbols')))
    PROVE  Grows
<1>1. /\ Len(types) \in Nat /\ Len(symbols) \in Nat /\ Len(functions) \in Nat
      /\ Len(blocks) \in Nat
  BY Lengths
<1>2. /\ Len(symbols') \in Nat /\ Len(blocks') \in Nat
      /\ FunctionsOK(functions, Len(types), Len(symbols), Len(blocks))
  BY DEF SymbolsOK, ModuleOK
<1>3. FunctionsOK(functions, Len(types), Len(symbols'), Len(blocks'))
  <2>1. /\ UpTo(Len(symbols), Len(symbols')) /\ UpTo(Len(blocks), Len(blocks'))
        /\ UpTo(Len(types), Len(types))
    BY <1>1, <1>2 DEF UpTo
  <2>2. QED
    BY <1>1, <1>2, <2>1, FunctionsStay
<1>4. ModuleOK'
  BY <1>3 DEF ModuleOK
<1>5. QED
  BY <1>4 DEF Grows

LEMMA BlocksStay ==
    ASSUME NEW x \in Nat, NEW x2 \in Nat, x <= x2, NEW bs \in Seq(Seq(1..x))
    PROVE  bs \in Seq(Seq(1..x2))
BY SeqOfMore

LEMMA Stays ==
    ASSUME ModuleOK, UNCHANGED <<script, arena, scopes, currentFunction>>, diags' \subseteq Reports
    PROVE  Grows
<1>1. /\ Len(symbols) <= Len(symbols) /\ Len(blocks) <= Len(blocks)
      /\ Len(statements) <= Len(statements) /\ Len(exprs) <= Len(exprs)
  BY Lengths
<1>2. QED
  BY <1>1, GrowsBy, Zenon DEF ModuleOK, arena

LEMMA ExprAdded ==
    ASSUME ModuleOK, AddsExpr, diags' \subseteq Reports,
           ExprsOK(exprs', Len(types), Len(symbols), Len(functions)),
           Len(exprs) <= Len(exprs')
    PROVE  Grows
<1>1. /\ Len(exprs') \in Nat
      /\ StatementsOK(statements, Len(symbols), Len(blocks), Len(exprs))
  BY DEF ExprsOK, ModuleOK
<1>2. /\ Len(symbols) <= Len(symbols) /\ Len(blocks) <= Len(blocks)
      /\ Len(statements) <= Len(statements)
  BY Lengths
<1>3. StatementsOK(statements, Len(symbols), Len(blocks), Len(exprs'))
  <2>1. /\ UpTo(Len(symbols), Len(symbols)) /\ UpTo(Len(blocks), Len(blocks))
        /\ UpTo(Len(exprs), Len(exprs'))
    BY <1>1, Lengths DEF UpTo
  <2>2. QED
    BY <1>1, <2>1, StatementsStay
<1>4. QED
  BY <1>2, <1>3, GrowsBy, Zenon DEF ModuleOK, AddsExpr

LEMMA StatementAdded ==
    ASSUME ModuleOK, UNCHANGED <<script, types, symbols, functions, currentFunction>>,
           diags' \subseteq Reports, scopes' \in Seq(Scope(Len(symbols))),
           ExprsOK(exprs', Len(types), Len(symbols), Len(functions)),
           Len(exprs) <= Len(exprs'),
           blocks' \in Seq(Seq(1..Len(statements))), Len(blocks) <= Len(blocks'),
           NEW kind \in {"Block", "VarDecl", "Expr", "Return", "Error"},
           NEW kids \in Seq(1..Len(exprs')), NEW ref \in Nat,
           kind = "VarDecl" => ref \in 1..Len(symbols),
           kind = "Block" => ref \in 1..Len(blocks'),
           statements' = Append(statements, Statement(kind, kids, ref))
    PROVE  Grows /\ Len(statements') = Len(statements) + 1 /\ Len(statements) \in Nat
<1> DEFINE x == Statement(kind, kids, ref)
           s == Len(symbols)
           b == Len(blocks')
           e == Len(exprs')
<1>1. /\ s \in Nat /\ b \in Nat /\ e \in Nat
      /\ StatementsOK(statements, s, Len(blocks), Len(exprs))
  <2>1. e \in Nat
    BY DEF ExprsOK
  <2>2. b \in Nat
    OBVIOUS
  <2>3. s \in Nat /\ StatementsOK(statements, s, Len(blocks), Len(exprs))
    BY Lengths DEF ModuleOK
  <2>4. QED
    BY <2>1, <2>2, <2>3
<1>2. /\ StatementsOK(statements, s, b, e) /\ Len(statements) \in Nat
  <2>1. UpTo(s, s) /\ UpTo(Len(blocks), b) /\ UpTo(Len(exprs), e)
    BY <1>1, Lengths DEF UpTo
  <2>2. QED
    BY <1>1, <2>1, Lengths, StatementsStay
<1>3. kids \in Seq(Ids)
  BY <1>1, KidsAreIds
<1>4. StatementOK(x, s, b, e)
  BY <1>3 DEF StatementOK, StatementEntry, Statement
<1> HIDE DEF x, s, b, e
<1>5. StatementsOK(Append(statements, x), s, b, e) /\ Len(Append(statements, x)) = Len(statements) + 1
  BY <1>2, <1>4, AppendStatement
<1>6. blocks' \in Seq(Seq(1..Len(statements')))
  BY <1>2, <1>5, BlocksStay DEF x
<1>7. Len(symbols) <= Len(symbols) /\ Len(statements) <= Len(statements')
  BY <1>5, Lengths DEF x
<1>8. SymbolsOK(symbols, Len(types), Len(functions))
  BY DEF ModuleOK
<1>9. StatementsOK(statements', Len(symbols'), Len(blocks'), Len(exprs'))
  BY <1>5 DEF x, s, b, e
<1>10. Grows
  BY <1>6, <1>7, <1>8, <1>9, GrowsBy, Zenon
<1>11. QED
  BY <1>2, <1>5, <1>10 DEF x
-----------------------------------------------------------------------------
(* What an action finds.                                                   *)
LEMMA CalledFacts ==
    ASSUME BuilderInv, call # Null
    PROVE  /\ ModuleOK /\ stack # << >> /\ Top \in FramesNow /\ WellFormed(call)
           /\ call \in NodesFor(Wants(Top)) /\ returned = Invalid
           /\ call.node \in {"Var", "ExprStat", "Return", "OtherStatement"}
                => Wants(Top) = "statement"
           /\ call.node = "StatBlock" => Wants(Top) \in {"block", "statement"}
           /\ call.node \in {"Assign", "Condition", "Expr", "ExprTerm", "Literal", "VarAccess",
                             "FuncCall", "OtherValue", "OtherInitializer"}
                => Wants(Top) = "expr"
<1>1. ModuleOK /\ stack # << >> /\ call \in NodesFor(Wants(Top)) /\ returned = Invalid
  BY DEF BuilderInv, ControlOK
<1>2. Top \in FramesNow
  BY <1>1, TopFacts DEF BuilderInv
<1>3. WellFormed(call) /\ Wants(Top) \in {"block", "statement", "expr"}
  BY <1>1, NodesAreNodes
<1>4. Wants(Top) = "block" => call.node = "StatBlock"
  BY <1>1, <1>3 DEF NodesFor, BlockNodes, NodesOf
<1>5. Wants(Top) = "statement" =>
          call.node \in {"StatBlock", "Var", "ExprStat", "Return", "OtherStatement"}
  BY <1>1, <1>3 DEF NodesFor, StatementNodes, NodesOf
<1>6. Wants(Top) = "expr" =>
          call.node \in {"Assign", "Condition", "Expr", "ExprTerm", "Literal", "VarAccess",
                         "FuncCall", "OtherValue", "OtherInitializer"}
  BY <1>1, <1>3 DEF NodesFor, AssignNodes, ConditionNodes, ExprNodes, TermNodes, ValueNodes, NodesOf
<1>7. QED
  BY <1>1, <1>2, <1>3, <1>4, <1>5, <1>6

LEMMA AtFacts ==
    ASSUME BuilderInv, NEW point, At(point)
    PROVE  /\ ModuleOK /\ stack # << >> /\ call = Null /\ Top.at = point /\ Top \in FramesNow
           /\ Top \in Frames(Len(types), Len(symbols), Len(functions), Len(statements), Len(exprs))
           /\ Settled(Top, returned, Len(blocks), Len(statements), Len(exprs))
BY TopFacts DEF BuilderInv, ControlOK, At, FramesNow

LEMMA ExprSort ==
    /\ AssignNodes \subseteq NodesFor("expr") /\ ConditionNodes \subseteq NodesFor("expr")
    /\ ExprNodes \subseteq NodesFor("expr") /\ TermNodes \subseteq NodesFor("expr")
    /\ ValueNodes \subseteq NodesFor("expr")
    /\ \A n \in InitNodes \cup RhsNodes : n # Null => n \in NodesFor("expr")
    /\ \A n \in NodesFor("expr") \cup NodesFor("statement") \cup NodesFor("block") : n # Null
<1>1. /\ AssignNodes \subseteq NodesFor("expr") /\ ConditionNodes \subseteq NodesFor("expr")
      /\ ExprNodes \subseteq NodesFor("expr") /\ TermNodes \subseteq NodesFor("expr")
      /\ ValueNodes \subseteq NodesFor("expr")
  BY DEF NodesFor
<1>2. \A n \in InitNodes \cup RhsNodes : n # Null => n \in NodesFor("expr")
  BY DEF NodesFor, InitNodes, RhsNodes, NodesOf, AssignNodes
<1>3. QED
  BY <1>1, <1>2, NodesAreNodes

LEMMA CalledIs ==
    ASSUME NEW kind, Called(kind), kind # "nullptr"
    PROVE  call.node = kind /\ call # Null
BY DEF Called, Null

LEMMA BuildAssignKeeps ==
    ASSUME BuilderInv, BuildAssign PROVE BuilderInv'
<1>1. call.node = "Assign" /\ call # Null
  BY DEF BuildAssign, Called, Null
<1>2. /\ ModuleOK /\ Wants(Top) = "expr" /\ returned = Invalid
      /\ call.condition \in ConditionNodes /\ call.rhs \in RhsNodes
      /\ call.rhs # Null => call.op \in Ops
  BY <1>1, CalledFacts DEF WellFormed, Ops
<1>3. Grows
  BY <1>2, Stays DEF BuildAssign, ModuleOK
<1>4. call.condition \in NodesFor("expr") /\ call.condition # Null
  BY <1>2, ExprSort
<1>5. CASE call.rhs = Null
  <2>1. call' = call.condition /\ stack' = stack /\ returned' = returned
    BY <1>5 DEF BuildAssign, TailCall
  <2>2. QED
    BY <1>1, <1>2, <1>3, <1>4, <2>1, TailKeeps DEF BuilderInv, Grows
<1>6. CASE call.rhs # Null
  <2> DEFINE fr == [at |-> "lhs", op |-> call.op, rhs |-> call.rhs]
  <2>1. CallFrom(fr, call.condition)
    BY <1>6 DEF BuildAssign
  <2>2. fr \in LhsFrames
    BY <1>2, <1>6 DEF LhsFrames, RhsNodes
  <2>3. Gives(fr) = "expr" /\ Wants(fr) = "expr"
    BY DEF Gives, Wants
  <2> HIDE DEF fr
  <2>4. fr \in FramesNow' /\ Waits(fr, call.condition)
    BY <1>4, <2>2, <2>3, Zenon DEF FramesNow, Frames, Waits
  <2>5. QED
    BY <1>1, <1>2, <1>3, <2>1, <2>3, <2>4, PushKeeps DEF BuilderInv, Grows
<1>7. QED
  BY <1>5, <1>6

LEMMA BuildRhsKeeps ==
    ASSUME BuilderInv, BuildRhs PROVE BuilderInv'
<1>1. /\ ModuleOK /\ stack # << >> /\ Top.at = "lhs" /\ Top \in LhsFrames
      /\ returned \in 1..Len(exprs)
  BY AtFacts, FramesAt DEF BuildRhs, Settled, Wants, IdsFor
<1>2. Grows
  BY <1>1, Stays DEF BuildRhs, ModuleOK
<1> DEFINE fr == [at |-> "rhs", op |-> Top.op, lhs |-> returned]
<1>3. Resume(fr, Top.rhs)
  BY DEF BuildRhs
<1>4. Top.rhs \in NodesFor("expr") /\ Top.rhs # Null /\ Top.op \in Ops
  BY <1>1, ExprSort DEF LhsFrames
<1>5. fr \in RhsFrames(Len(exprs'))
  BY <1>1, <1>4 DEF RhsFrames, BuildRhs, arena
<1>6. Gives(fr) = "expr" /\ Wants(fr) = "expr" /\ Gives(Top) = "expr"
  BY <1>1 DEF Gives, Wants
<1> HIDE DEF fr
<1>7. fr \in FramesNow'
  BY <1>5, Zenon DEF FramesNow, Frames
<1>8. Waits(fr, Top.rhs)
  BY <1>4, <1>6 DEF Waits
<1>9. QED
  BY <1>1, <1>2, <1>3, <1>6, <1>7, <1>8, ResumeKeeps DEF BuilderInv, Grows

(* An expression has been built, and its id is returned.                   *)
LEMMA LeaveExpr ==
    ASSUME BuilderInv, AddsExpr, diags' \subseteq Reports,
           ExprsOK(exprs', Len(types), Len(symbols), Len(functions)), Len(exprs) <= Len(exprs'),
           NEW point \in {"rhs", "ternary", "operands", "arguments"}, At(point),
           NEW id \in 1..Len(exprs'), Leave(id)
    PROVE  BuilderInv'
<1>1. ModuleOK /\ stack # << >> /\ call = Null /\ Top.at = point
  BY AtFacts
<1>2. Grows
  BY <1>1, ExprAdded
<1>3. id \in IdsFor(Gives(Top), Len(blocks)', Len(statements)', Len(exprs)')
  BY <1>1 DEF Gives, IdsFor
<1>4. Top.at \notin {"script", "parameters", "body"}
  BY <1>1
<1>5. QED
  BY <1>1, <1>2, <1>3, <1>4, LeaveKeeps DEF BuilderInv, Grows

LEMMA ReturnExpr ==
    ASSUME BuilderInv, AddsExpr, diags' \subseteq Reports,
           ExprsOK(exprs', Len(types), Len(symbols), Len(functions)), Len(exprs) <= Len(exprs'),
           call # Null, Wants(Top) = "expr",
           NEW id \in 1..Len(exprs'), Return(id)
    PROVE  BuilderInv'
<1>1. Grows
  BY ExprAdded DEF BuilderInv
<1>2. id \in IdsFor(Wants(Top), Len(blocks)', Len(statements)', Len(exprs)')
  BY DEF IdsFor
<1>3. QED
  BY <1>1, <1>2, ReturnKeeps DEF BuilderInv, Grows

LEMMA ExprTypes ==
    ASSUME ModuleOK, NEW id \in 1..Len(exprs)
    PROVE  exprs[id].type \in 1..Len(types)
BY DEF ModuleOK, ExprsOK, ExprOK

LEMMA RhsFound ==
    ASSUME BuilderInv, At("rhs")
    PROVE  /\ ModuleOK /\ Top \in RhsFrames(Len(exprs))
           /\ returned \in 1..Len(exprs) /\ Top.lhs \in 1..Len(exprs) /\ Top.op \in Ops
           /\ Len(exprs) \in Nat
           /\ ExprsOK(exprs, Len(types), Len(symbols), Len(functions)) /\ diags \subseteq Reports
<1>1. /\ ModuleOK /\ Top \in RhsFrames(Len(exprs)) /\ returned \in 1..Len(exprs)
  BY AtFacts, FramesAt DEF Settled, Wants, IdsFor
<1>2. QED
  BY <1>1, Lengths DEF RhsFrames, ModuleOK

LEMMA AssignKeeps ==
    ASSUME BuilderInv, Assign PROVE BuilderInv'
<1>1. At("rhs")
  BY DEF Assign
<1> DEFINE target == exprs[Top.lhs].type
           cast == WithCast(returned, target)
           kids == <<Top.lhs, CastTo(returned, target)>>
<1>2. target \in 1..Len(types)
  BY <1>1, RhsFound, ExprTypes
<1>3. /\ ExprsOK(cast, Len(types), Len(symbols), Len(functions)) /\ Len(cast) \in Nat
      /\ Len(exprs) <= Len(cast) /\ CastTo(returned, target) \in 1..Len(cast)
  BY <1>1, <1>2, RhsFound, CastOK
<1>4. Top.lhs \in 1..Len(cast)
  BY <1>1, <1>3, RhsFound
<1>5. kids \in Seq(1..Len(cast)) /\ <<"=">> \in Seq(Texts) /\ Invalid \in Nat
  BY <1>3, <1>4 DEF Texts, Invalid
<1>6. /\ exprs' = Append(cast, Expr("Assign", target, kids, Invalid, <<"=">>))
      /\ Leave(Len(cast) + 1) /\ AddsExpr /\ diags' = diags
  BY DEF Assign, Assignment
<1> HIDE DEF target, cast, kids
<1>7. ExprOK(Expr("Assign", target, kids, Invalid, <<"=">>), Len(cast) + 1,
             Len(types), Len(symbols), Len(functions))
  BY <1>1, <1>2, <1>3, <1>5, RhsFound, Lengths, ExprIs
<1>8. /\ ExprsOK(exprs', Len(types), Len(symbols), Len(functions))
      /\ Len(exprs') = Len(cast) + 1 /\ Len(exprs) <= Len(exprs')
      /\ Len(cast) + 1 \in 1..Len(exprs') /\ diags' \subseteq Reports
  BY <1>1, <1>3, <1>6, <1>7, RhsFound, AppendExpr
<1>9. QED
  BY <1>1, <1>6, <1>8, LeaveExpr

LEMMA AppendTwice ==
    ASSUME NEW S, NEW xs \in Seq(S), NEW a, NEW b, Append(Append(xs, a), b) \in Seq(S)
    PROVE  xs \o <<a, b>> = Append(Append(xs, a), b)
<1> DEFINE one == Append(xs, a)
           two == Append(one, b)
<1>1. /\ Len(one) = Len(xs) + 1 /\ \A i \in 1..Len(xs) : one[i] = xs[i]
      /\ one[Len(xs) + 1] = a
  OBVIOUS
<1>2. /\ Len(two) = Len(xs) + 2 /\ \A i \in 1..Len(xs) : two[i] = xs[i]
      /\ two[Len(xs) + 1] = a /\ two[Len(xs) + 2] = b
  OBVIOUS
<1>3. QED
  BY <1>2

LEMMA CompoundAssignKeeps ==
    ASSUME BuilderInv, CompoundAssign PROVE BuilderInv'
<1>1. At("rhs") /\ Top.op \in Compounds
  BY DEF CompoundAssign
<1> DEFINE target == exprs[Top.lhs].type
           value == Expr("Binary", target, <<Top.lhs, returned>>, Invalid, <<OperatorOf(Top.op)>>)
           xs == Append(exprs, value)
           kids == <<Top.lhs, Len(exprs) + 1>>

<1>2. target \in 1..Len(types)
  BY <1>1, RhsFound, ExprTypes
<1>3. /\ <<Top.lhs, returned>> \in Seq(1..Len(exprs)) /\ <<OperatorOf(Top.op)>> \in Seq(Texts)
      /\ <<"=">> \in Seq(Texts) /\ Invalid \in Nat /\ Len(exprs) <= Len(exprs)
  BY <1>1, RhsFound DEF Texts, Invalid
<1>4. ExprsOK(xs, Len(types), Len(symbols), Len(functions)) /\ Len(xs) = Len(exprs) + 1
  <2>1. ExprOK(value, Len(exprs) + 1, Len(types), Len(symbols), Len(functions))
    BY <1>1, <1>2, <1>3, RhsFound, Lengths, ExprIs
  <2>2. QED
    BY <1>1, <2>1, RhsFound, AppendExpr
<1>5. kids \in Seq(1..Len(xs)) /\ Len(exprs) <= Len(xs)
  BY <1>1, <1>4, RhsFound
<1>6. /\ exprs' = exprs \o <<value, Expr("Assign", target, kids, Invalid, <<"=">>)>>
      /\ Leave(Len(exprs) + 2) /\ AddsExpr /\ diags' = diags
  BY DEF CompoundAssign, Assignment
<1> DEFINE last == Expr("Assign", target, kids, Invalid, <<"=">>)
<1>7. exprs \in Seq(ExprEntry)
  BY <1>1, RhsFound DEF ExprsOK
<1>8. ExprsOK(Append(xs, last), Len(types), Len(symbols), Len(functions))
      /\ Len(Append(xs, last)) = Len(xs) + 1
  <2>1. Len(xs) \in Nat
    BY <1>1, <1>4, RhsFound
  <2>2. ExprOK(last, Len(xs) + 1, Len(types), Len(symbols), Len(functions))
    BY <1>1, <1>2, <1>3, <1>5, <2>1, RhsFound, Lengths, ExprIs
  <2> HIDE DEF last, xs
  <2>3. QED
    BY <1>4, <2>2, AppendExpr
<1>9. Append(xs, last) \in Seq(ExprEntry) /\ xs \in Seq(ExprEntry)
  BY <1>4, <1>8 DEF ExprsOK
<1> HIDE DEF value, last
<1>10. exprs' = Append(xs, last)
  BY <1>6, <1>7, <1>9, AppendTwice DEF last
<1> HIDE DEF xs
<1>11. ExprsOK(exprs', Len(types), Len(symbols), Len(functions)) /\ Len(exprs') = Len(exprs) + 1 + 1
  BY <1>4, <1>8, <1>10
<1>12. Len(exprs) \in Nat /\ diags' \subseteq Reports
  BY <1>1, <1>6, RhsFound
<1>13. Len(exprs) + 2 \in 1..Len(exprs') /\ Len(exprs) <= Len(exprs')
  BY <1>11, <1>12
<1>14. QED
  BY <1>1, <1>6, <1>11, <1>12, <1>13, LeaveExpr

LEMMA BuildConditionKeeps ==
    ASSUME BuilderInv, BuildCondition PROVE BuilderInv'
<1>1. call.node = "Condition" /\ call # Null
  BY DEF BuildCondition, Called, Null
<1>2. /\ ModuleOK /\ Wants(Top) = "expr" /\ returned = Invalid
      /\ call.expr \in NodesFor("expr") /\ call.expr # Null
  BY <1>1, CalledFacts, ExprSort DEF WellFormed
<1>3. Grows
  BY <1>2, Stays DEF BuildCondition, ModuleOK
<1>4. CASE call.thenExpr = Null
  <2>1. call' = call.expr /\ stack' = stack /\ returned' = returned
    BY <1>4 DEF BuildCondition, TailCall
  <2>2. QED
    BY <1>1, <1>2, <1>3, <2>1, TailKeeps DEF BuilderInv, Grows
<1>5. CASE call.thenExpr # Null
  <2> DEFINE fr == [at |-> "ternary"]
  <2>1. CallFrom(fr, call.expr)
    BY <1>5 DEF BuildCondition
  <2>2. fr \in PlainFrames /\ Gives(fr) = "expr" /\ Wants(fr) = "expr"
    BY DEF PlainFrames, Gives, Wants
  <2> HIDE DEF fr
  <2>3. fr \in FramesNow' /\ Waits(fr, call.expr)
    BY <1>2, <2>2, Zenon DEF FramesNow, Frames, Waits
  <2>4. QED
    BY <1>1, <1>2, <1>3, <2>1, <2>2, <2>3, PushKeeps DEF BuilderInv, Grows
<1>6. QED
  BY <1>4, <1>5

LEMMA EndTernaryKeeps ==
    ASSUME BuilderInv, EndTernary PROVE BuilderInv'
<1>1. /\ At("ternary") /\ AddsExpr /\ Leave(Len(exprs) + 1)
      /\ exprs' = Append(exprs, ErrorExpr)
      /\ diags' = diags \cup {"ternary '?:' not yet supported"}
  BY DEF EndTernary, MakeErrorExpr, Report
<1>2. ModuleOK /\ Len(exprs) \in Nat /\ diags' \subseteq Reports
  BY <1>1, AtFacts, Lengths DEF ModuleOK, Reports
<1>3. /\ ExprsOK(exprs', Len(types), Len(symbols), Len(functions))
      /\ Len(exprs') = Len(exprs) + 1
  BY <1>1, <1>2, ErrorExprOK
<1>4. Len(exprs) + 1 \in 1..Len(exprs') /\ Len(exprs) <= Len(exprs')
  BY <1>2, <1>3
<1>5. QED
  BY <1>1, <1>2, <1>3, <1>4, LeaveExpr

LEMMA BuildExprKeeps ==
    ASSUME BuilderInv, BuildExpr PROVE BuilderInv'
<1>1. call.node = "Expr" /\ call # Null
  BY CalledIs DEF BuildExpr
<1>2. /\ ModuleOK /\ Wants(Top) = "expr" /\ returned = Invalid
      /\ call.first \in NodesFor("expr") /\ call.first # Null /\ call.rest \in Seq(OpTerms)
  BY <1>1, CalledFacts, ExprSort DEF WellFormed, OpTerms
<1>3. Grows
  BY <1>2, Stays DEF BuildExpr, ModuleOK
<1>4. CASE call.rest = << >>
  <2>1. call' = call.first /\ stack' = stack /\ returned' = returned
    BY <1>4 DEF BuildExpr, TailCall
  <2>2. QED
    BY <1>1, <1>2, <1>3, <2>1, TailKeeps DEF BuilderInv, Grows
<1>5. CASE call.rest # << >>
  <2> DEFINE fr == [at |-> "operands", acc |-> Invalid, op |-> "", rest |-> call.rest]
  <2>1. CallFrom(fr, call.first)
    BY <1>5 DEF BuildExpr
  <2>2. fr \in FirstOperandFrames /\ Gives(fr) = "expr" /\ Wants(fr) = "expr"
    BY <1>2 DEF FirstOperandFrames, Gives, Wants
  <2> HIDE DEF fr
  <2>3. fr \in FramesNow' /\ Waits(fr, call.first)
    BY <1>2, <2>2, Zenon DEF FramesNow, Frames, Waits
  <2>4. QED
    BY <1>1, <1>2, <1>3, <2>1, <2>2, <2>3, PushKeeps DEF BuilderInv, Grows
<1>6. QED
  BY <1>4, <1>5

LEMMA TakeOperandKeeps ==
    ASSUME BuilderInv, TakeOperand PROVE BuilderInv'
<1>1. /\ At("operands") /\ AddsExpr /\ diags' = diags
  BY DEF TakeOperand
<1>2. /\ ModuleOK /\ stack # << >> /\ Top.at = "operands" /\ returned \in 1..Len(exprs)
      /\ Top \in FirstOperandFrames \cup OperandFrames(Len(exprs))
  BY <1>1, AtFacts, FramesAt DEF Settled, Wants, IdsFor
<1>3. /\ Len(exprs) \in Nat /\ ExprsOK(exprs, Len(types), Len(symbols), Len(functions))
      /\ diags' \subseteq Reports
  BY <1>1, <1>2, Lengths DEF ModuleOK
<1> DEFINE acc == IF Top.op = "" THEN returned ELSE Len(exprs) + 1
           fr == [at |-> "operands", acc |-> acc, op |-> Head(Top.rest).op, rest |-> Tail(Top.rest)]
<1>4. /\ ExprsOK(exprs', Len(types), Len(symbols), Len(functions))
      /\ Len(exprs) <= Len(exprs') /\ acc \in 1..Len(exprs')
  <2>1. CASE Top.op = ""
    <3>1. exprs' = exprs /\ acc = returned
      BY <2>1 DEF TakeOperand
    <3> HIDE DEF acc
    <3>2. QED
      BY <1>2, <1>3, <3>1
  <2>2. CASE Top.op # ""
    <3> DEFINE type == IF Top.op \in ComparisonOps THEN BuiltinType("bool") ELSE exprs[Top.acc].type
               e == Expr("Binary", type, <<Top.acc, returned>>, Invalid, <<Top.op>>)
    <3>1. Top.acc \in 1..Len(exprs) /\ Top.op \in STRING
      BY <1>2, <2>2 DEF FirstOperandFrames, OperandFrames
    <3>2. BuiltinType("bool") \in 1..Len(types)
      <4>1. Len(types) >= 17 /\ Len(types) \in Nat /\ BuiltinType("bool") \in 1..17
        BY <1>2, BuiltinTypes, Lengths DEF ModuleOK
      <4>2. QED
        BY <4>1
    <3>3. type \in 1..Len(types)
      BY <1>2, <3>1, <3>2, ExprTypes
    <3>4. <<Top.acc, returned>> \in Seq(1..Len(exprs)) /\ <<Top.op>> \in Seq(Texts) /\ Invalid \in Nat
      BY <1>2, <3>1 DEF Texts, Invalid
    <3> HIDE DEF type
    <3>5. ExprOK(e, Len(exprs) + 1, Len(types), Len(symbols), Len(functions))
      BY <1>2, <1>3, <3>3, <3>4, Lengths, ExprIs
    <3>6. exprs' = Append(exprs, e)
      BY <2>2 DEF TakeOperand, type
    <3> HIDE DEF e
    <3>7. /\ ExprsOK(exprs', Len(types), Len(symbols), Len(functions))
          /\ Len(exprs') = Len(exprs) + 1
      BY <1>3, <3>5, <3>6, AppendExpr
    <3>8. acc = Len(exprs) + 1
      BY <2>2
    <3> HIDE DEF acc
    <3>9. QED
      BY <1>3, <3>7, <3>8
  <2>3. QED
    BY <2>1, <2>2
<1>5. CASE Top.rest = << >>
  <2>1. Leave(acc)
    BY <1>5 DEF TakeOperand
  <2> HIDE DEF acc
  <2>2. QED
    BY <1>1, <1>3, <1>4, <2>1, LeaveExpr
<1>6. CASE Top.rest # << >>
  <2>1. Resume(fr, Head(Top.rest).term)
    BY <1>6 DEF TakeOperand
  <2>2. Top.rest \in Seq(OpTerms)
    BY <1>2 DEF FirstOperandFrames, OperandFrames
  <2>3. Head(Top.rest) \in OpTerms /\ Tail(Top.rest) \in Seq(OpTerms)
    BY <1>6, <2>2
  <2> HIDE DEF acc
  <2>4. fr \in OperandFrames(Len(exprs'))
    BY <1>4, <2>3 DEF OperandFrames, OpTerms
  <2>5. Head(Top.rest).term \in NodesFor("expr") /\ Head(Top.rest).term # Null
    BY <2>3, ExprSort DEF OpTerms
  <2>6. Gives(fr) = "expr" /\ Wants(fr) = "expr" /\ Gives(Top) = "expr" /\ fr.at = "operands"
    BY <1>2 DEF Gives, Wants
  <2> HIDE DEF fr
  <2>7. fr \in FramesNow' /\ Waits(fr, Head(Top.rest).term)
    BY <2>4, <2>5, <2>6, Zenon DEF FramesNow, Frames, Waits
  <2>8. Grows
    BY <1>1, <1>2, <1>3, <1>4, ExprAdded
  <2>9. QED
    BY <1>2, <2>1, <2>6, <2>7, <2>8, ResumeKeeps DEF BuilderInv, Grows
<1>7. QED
  BY <1>5, <1>6

LEMMA BuildExprTermKeeps ==
    ASSUME BuilderInv, BuildExprTerm PROVE BuilderInv'
<1>1. call.node = "ExprTerm" /\ call # Null
  BY CalledIs DEF BuildExprTerm
<1>2. /\ ModuleOK /\ Wants(Top) = "expr" /\ returned = Invalid
      /\ call.value \in NodesFor("expr") /\ call.value # Null
  BY <1>1, CalledFacts, ExprSort DEF WellFormed
<1>3. diags' \subseteq Reports
  BY <1>2 DEF BuildExprTerm, Report, ModuleOK, Reports
<1>4. Grows
  BY <1>2, <1>3, Stays DEF BuildExprTerm
<1>5. call' = call.value /\ stack' = stack /\ returned' = returned
  BY DEF BuildExprTerm, TailCall
<1>6. QED
  BY <1>1, <1>2, <1>4, <1>5, TailKeeps DEF BuilderInv, Grows

LEMMA ReturnErrorExpr ==
    ASSUME BuilderInv, call # Null, Wants(Top) = "expr", AddsExpr,
           NEW what \in Reports, MakeErrorExpr(what), Return(Len(exprs) + 1)
    PROVE  BuilderInv'
<1>1. ModuleOK /\ Len(exprs) \in Nat /\ diags' \subseteq Reports
  BY Lengths DEF BuilderInv, ModuleOK, MakeErrorExpr, Report
<1>2. /\ ExprsOK(exprs', Len(types), Len(symbols), Len(functions))
      /\ Len(exprs') = Len(exprs) + 1
  BY <1>1, ErrorExprOK DEF MakeErrorExpr
<1>3. Len(exprs) + 1 \in 1..Len(exprs') /\ Len(exprs) <= Len(exprs')
  BY <1>1, <1>2
<1>4. QED
  BY <1>1, <1>2, <1>3, ReturnExpr

LEMMA ReturnValue ==
    ASSUME BuilderInv, call # Null, Wants(Top) = "expr", AddsExpr, diags' = diags,
           NEW e, ExprOK(e, Len(exprs) + 1, Len(types), Len(symbols), Len(functions)),
           exprs' = Append(exprs, e), Return(Len(exprs) + 1)
    PROVE  BuilderInv'
<1>1. /\ ModuleOK /\ Len(exprs) \in Nat /\ diags' \subseteq Reports
      /\ ExprsOK(exprs, Len(types), Len(symbols), Len(functions))
  BY Lengths DEF BuilderInv, ModuleOK
<1>2. /\ ExprsOK(exprs', Len(types), Len(symbols), Len(functions))
      /\ Len(exprs') = Len(exprs) + 1
  BY <1>1, AppendExpr
<1>3. Len(exprs) + 1 \in 1..Len(exprs') /\ Len(exprs) <= Len(exprs')
  BY <1>1, <1>2
<1>4. QED
  BY <1>1, <1>2, <1>3, ReturnExpr

LEMMA BuildOtherValueKeeps ==
    ASSUME BuilderInv, BuildOtherValue PROVE BuilderInv'
<1>1. call.node = "OtherValue" /\ call # Null
  BY CalledIs DEF BuildOtherValue
<1>2. Wants(Top) = "expr"
  BY <1>1, CalledFacts
<1>3. "expression not yet supported" \in Reports
  BY DEF Reports
<1>4. QED
  BY <1>1, <1>2, <1>3, ReturnErrorExpr DEF BuildOtherValue

LEMMA BuildLiteralKeeps ==
    ASSUME BuilderInv, BuildLiteral PROVE BuilderInv'
<1>1. call.node = "Literal" /\ call # Null
  BY CalledIs DEF BuildLiteral
<1>2. ModuleOK /\ Wants(Top) = "expr" /\ call.text \in Seq(STRING)
  BY <1>1, CalledFacts DEF WellFormed
<1>3. AddsExpr /\ Return(Len(exprs) + 1)
  BY DEF BuildLiteral
<1> DEFINE type == LiteralType(call.text)
           e == Expr("Literal", type, << >>, Invalid, call.text)
<1>4. CASE type = errorType
  <2>1. MakeErrorExpr("unrecognized literal") /\ "unrecognized literal" \in Reports
    BY <1>4 DEF BuildLiteral, Reports
  <2>2. QED
    BY <1>1, <1>2, <1>3, <2>1, ReturnErrorExpr
<1>5. CASE type # errorType
  <2>1. exprs' = Append(exprs, e) /\ diags' = diags
    BY <1>5 DEF BuildLiteral
  <2>2. type \in 1..17 /\ Len(types) >= 17 /\ Len(types) \in Nat
    BY <1>2, LiteralTypes, BuiltinTypes, Lengths DEF ModuleOK
  <2> HIDE DEF type
  <2>3. type \in 1..Len(types)
    BY <2>2
  <2>4. << >> \in Seq(1..Len(exprs)) /\ Invalid \in Nat /\ call.text \in Seq(Texts)
    BY <1>2 DEF Texts, Invalid
  <2>5. ExprOK(e, Len(exprs) + 1, Len(types), Len(symbols), Len(functions))
    BY <1>2, <2>3, <2>4, Lengths, ExprIs
  <2> HIDE DEF e
  <2>6. QED
    BY <1>1, <1>2, <1>3, <2>1, <2>5, ReturnValue
<1>6. QED
  BY <1>4, <1>5

LEMMA MaxIsMaximum ==
    ASSUME NEW n \in Nat, NEW S \in SUBSET (1..n), S # {}
    PROVE  Max(S) \in S /\ \A y \in S : y <= Max(S)
<1> DEFINE T == {n - x : x \in S}
<1>1. T \in SUBSET Nat /\ T # {}
  <2>1. ASSUME NEW x \in S PROVE n - x \in Nat
    <3>1. x \in 1..n
      OBVIOUS
    <3>2. QED
      BY <3>1
  <2>2. QED
    BY <2>1
<1>2. PICK low \in T : \A y \in T : <<y, low>> \notin OpToRel(<, Nat)
  BY <1>1, NatLessThanWellFounded, WFMin, Zenon
<1>3. PICK x \in S : low = n - x
  BY <1>2
<1>4. \A y \in S : x >= y
  <2>1. SUFFICES ASSUME NEW y \in S PROVE x >= y
    OBVIOUS
  <2>2. n - y \in T /\ low \in Nat /\ n - y \in Nat
    BY <1>1, <1>2
  <2>3. ~(n - y < low)
    BY <1>2, <2>2, Zenon DEF OpToRel
  <2>4. x \in 1..n /\ y \in 1..n
    OBVIOUS
  <2>5. QED
    BY <1>3, <2>3, <2>4
<1>5. QED
  BY <1>4 DEF Max

LEMMA LookupFinds ==
    ASSUME ModuleOK, NEW name
    PROVE  Lookup(name) \in 0..Len(symbols)
<1> DEFINE found == {d \in 1..Len(scopes) : name \in DOMAIN scopes[d]}
<1>1. scopes \in Seq(Scope(Len(symbols))) /\ Len(scopes) \in Nat /\ Len(symbols) \in Nat
  BY Lengths DEF ModuleOK
<1>2. CASE found = {}
  BY <1>1, <1>2 DEF Lookup, Invalid
<1>3. CASE found # {}
  <2>1. Max(found) \in found
    BY <1>1, <1>3, MaxIsMaximum
  <2>2. Max(found) \in 1..Len(scopes) /\ name \in DOMAIN scopes[Max(found)]
    BY <2>1
  <2>3. Lookup(name) = scopes[Max(found)][name]
    BY <1>3 DEF Lookup
  <2> HIDE DEF found
  <2>4. scopes[Max(found)] \in Scope(Len(symbols))
    BY <1>1, <2>2
  <2>5. PICK names \in SUBSET STRING : scopes[Max(found)] \in [names -> 1..Len(symbols)]
    BY <2>4 DEF Scope
  <2>6. scopes[Max(found)][name] \in 1..Len(symbols)
    BY <2>2, <2>5
  <2>7. QED
    BY <1>1, <2>3, <2>6
<1>4. QED
  BY <1>2, <1>3

LEMMA SymbolTypes ==
    ASSUME ModuleOK, NEW id \in 1..Len(symbols)
    PROVE  /\ symbols[id].type \in 1..Len(types)
           /\ symbols[id].kind = "Function" => symbols[id].function \in 1..Len(functions)
BY DEF ModuleOK, SymbolsOK, SymbolOK

LEMMA BuildVarAccessKeeps ==
    ASSUME BuilderInv, BuildVarAccess PROVE BuilderInv'
<1>1. call.node = "VarAccess" /\ call # Null
  BY CalledIs DEF BuildVarAccess
<1>2. ModuleOK /\ Wants(Top) = "expr"
  BY <1>1, CalledFacts
<1>3. AddsExpr /\ Return(Len(exprs) + 1)
  BY DEF BuildVarAccess
<1> DEFINE id == Lookup(call.name)
           e == Expr("SymbolRef", symbols[id].type, << >>, id, << >>)
<1>4. CASE id = Invalid
  <2>1. MakeErrorExpr("unresolved name") /\ "unresolved name" \in Reports
    BY <1>4 DEF BuildVarAccess, Reports
  <2>2. QED
    BY <1>1, <1>2, <1>3, <2>1, ReturnErrorExpr
<1>5. CASE id # Invalid
  <2>1. exprs' = Append(exprs, e) /\ diags' = diags
    BY <1>5 DEF BuildVarAccess
  <2>2. id \in 0..Len(symbols)
    BY <1>2, LookupFinds
  <2> HIDE DEF id
  <2>3. id \in 1..Len(symbols) /\ id \in Nat
    BY <1>2, <1>5, <2>2, Lengths DEF Invalid
  <2>4. symbols[id].type \in 1..Len(types)
    BY <1>2, <2>3, SymbolTypes
  <2>5. << >> \in Seq(1..Len(exprs)) /\ << >> \in Seq(Texts)
    OBVIOUS
  <2>6. ExprOK(e, Len(exprs) + 1, Len(types), Len(symbols), Len(functions))
    BY <1>2, <2>3, <2>4, <2>5, Lengths, ExprIs
  <2> HIDE DEF e
  <2>7. QED
    BY <1>1, <1>2, <1>3, <2>1, <2>6, ReturnValue
<1>6. QED
  BY <1>4, <1>5

LEMMA ArgumentsFound ==
    ASSUME BuilderInv, At("arguments")
    PROVE  /\ ModuleOK /\ stack # << >> /\ call = Null /\ Top.at = "arguments"
           /\ Top.function \in 0..Len(functions) /\ Top.rest \in Seq(RhsNodes)
           /\ Top.args \in Seq(1..Len(exprs))
           /\ returned \in 0..Len(exprs) /\ Len(exprs) \in Nat
           /\ ExprsOK(exprs, Len(types), Len(symbols), Len(functions)) /\ diags \subseteq Reports
<1>1. /\ ModuleOK /\ stack # << >> /\ call = Null /\ Top.at = "arguments"
      /\ Top \in ArgumentFrames(Len(functions), Len(exprs))
      /\ Settled(Top, returned, Len(blocks), Len(statements), Len(exprs))
  BY AtFacts, FramesAt
<1>2. Wants(Top) = "expr"
  BY <1>1 DEF Wants
<1>3. returned \in 0..Len(exprs)
  BY <1>1, <1>2, Lengths DEF Settled, IdsFor, Invalid
<1>4. QED
  BY <1>1, <1>3, Lengths DEF ArgumentFrames, ModuleOK

LEMMA BuildFuncCallKeeps ==
    ASSUME BuilderInv, BuildFuncCall PROVE BuilderInv'
<1>1. call.node = "FuncCall" /\ call # Null
  BY CalledIs DEF BuildFuncCall
<1>2. ModuleOK /\ Wants(Top) = "expr" /\ call.args \in Seq(RhsNodes)
  BY <1>1, CalledFacts DEF WellFormed
<1> DEFINE f == Callee(call.name)
           fr == [at |-> "arguments", function |-> f, rest |-> call.args, args |-> << >>]
<1>3. /\ CallFrom(fr, Null) /\ UNCHANGED <<script, arena, scopes, currentFunction>>
      /\ diags' = diags \/ diags' = diags \cup {"unresolved function"}
  BY DEF BuildFuncCall, Report
<1>4. diags' \subseteq Reports
  BY <1>2, <1>3 DEF ModuleOK, Reports
<1>5. Grows
  BY <1>2, <1>3, <1>4, Stays
<1>6. f \in 0..Len(functions)
  <2>1. Lookup(call.name) \in 0..Len(symbols) /\ Len(symbols) \in Nat /\ Len(functions) \in Nat
    BY <1>2, LookupFinds, Lengths
  <2>2. QED
    BY <1>2, <2>1, SymbolTypes DEF Callee, Invalid
<1>7. functions' = functions
  BY <1>3 DEF arena
<1> HIDE DEF f
<1>8. fr \in ArgumentFrames(Len(functions'), Len(exprs'))
  BY <1>2, <1>6, <1>7 DEF ArgumentFrames
<1>9. Gives(fr) = "expr" /\ fr.at = "arguments"
  BY DEF Gives
<1> HIDE DEF fr
<1>10. fr \in FramesNow' /\ Waits(fr, Null)
  BY <1>8, <1>9, Zenon DEF FramesNow, Frames, Waits
<1>11. QED
  BY <1>1, <1>2, <1>3, <1>5, <1>9, <1>10, PushKeeps DEF BuilderInv, Grows

LEMMA ResumeArguments ==
    ASSUME BuilderInv, At("arguments"), AddsExpr, diags' = diags,
           ExprsOK(exprs', Len(types), Len(symbols), Len(functions)), Len(exprs) <= Len(exprs'),
           NEW args \in Seq(1..Len(exprs')), NEW rest \in Seq(RhsNodes),
           NEW node \in RhsNodes, NEW fr,
           fr = [at |-> "arguments", function |-> Top.function, rest |-> rest, args |-> args],
           Resume(fr, node)
    PROVE  BuilderInv'
<1>1. ModuleOK /\ stack # << >> /\ Top.at = "arguments" /\ Top.function \in 0..Len(functions)
      /\ diags \subseteq Reports
  BY ArgumentsFound
<1>2. Grows
  BY <1>1, ExprAdded
<1>3. fr \in ArgumentFrames(Len(functions'), Len(exprs'))
  BY <1>1 DEF ArgumentFrames, AddsExpr
<1>4. fr.at = "arguments" /\ Gives(fr) = "expr" /\ Wants(fr) = "expr" /\ Gives(Top) = "expr"
  BY <1>1 DEF Gives, Wants
<1>5. fr \in FramesNow'
  BY <1>3, Zenon DEF FramesNow, Frames
<1>6. Waits(fr, node)
  BY <1>4, ExprSort DEF Waits
<1>7. QED
  BY <1>1, <1>2, <1>4, <1>5, <1>6, ResumeKeeps DEF BuilderInv, Grows

LEMMA ArgumentFrameIs ==
    ASSUME BuilderInv, At("arguments"), NEW rest, NEW args
    PROVE  /\ [Top EXCEPT !.rest = rest] =
                  [at |-> "arguments", function |-> Top.function, rest |-> rest, args |-> Top.args]
           /\ [Top EXCEPT !.args = args] =
                  [at |-> "arguments", function |-> Top.function, rest |-> Top.rest, args |-> args]
<1>1. Top \in ArgumentFrames(Len(functions), Len(exprs))
  BY AtFacts, FramesAt
<1>2. PICK f \in 0..Len(functions), r \in Seq(RhsNodes), a \in Seq(1..Len(exprs)) :
          Top = [at |-> "arguments", function |-> f, rest |-> r, args |-> a]
  BY <1>1, Zenon DEF ArgumentFrames
<1>3. Top.function = f /\ Top.rest = r /\ Top.args = a
  BY <1>2
<1>4. [Top EXCEPT !.rest = rest] =
          [at |-> "arguments", function |-> f, rest |-> rest, args |-> a]
  BY <1>2
<1>5. [Top EXCEPT !.args = args] =
          [at |-> "arguments", function |-> f, rest |-> r, args |-> args]
  BY <1>2
<1>6. QED
  BY <1>3, <1>4, <1>5

LEMMA NextArgumentKeeps ==
    ASSUME BuilderInv, NextArgument PROVE BuilderInv'
<1>1. /\ At("arguments") /\ Top.rest # << >> /\ AddsExpr /\ diags' = diags
  BY DEF NextArgument
<1>2. /\ ModuleOK /\ Top.rest \in Seq(RhsNodes) /\ Top.args \in Seq(1..Len(exprs))
      /\ Len(exprs) \in Nat /\ ExprsOK(exprs, Len(types), Len(symbols), Len(functions))
      /\ Head(Top.rest) \in RhsNodes /\ Tail(Top.rest) \in Seq(RhsNodes)
  BY <1>1, ArgumentsFound
<1>3. CASE Head(Top.rest) = Null
  <2> DEFINE args == Append(Top.args, Len(exprs) + 1)
             fr == [at |-> "arguments", function |-> Top.function, rest |-> Tail(Top.rest),
                    args |-> args]
  <2>1. exprs' = Append(exprs, ErrorExpr) /\ Resume(fr, Null) /\ Null \in RhsNodes
    BY <1>3 DEF NextArgument, RhsNodes
  <2>2. /\ ExprsOK(exprs', Len(types), Len(symbols), Len(functions))
        /\ Len(exprs') = Len(exprs) + 1
    BY <1>2, <2>1, ErrorExprOK
  <2>3. Top.args \in Seq(1..Len(exprs')) /\ Len(exprs) <= Len(exprs')
        /\ Len(exprs) + 1 \in 1..Len(exprs')
    BY <1>2, <2>2, SeqOfMore
  <2>4. args \in Seq(1..Len(exprs'))
    BY <2>3
  <2> HIDE DEF args
  <2>5. QED
    BY <1>1, <1>2, <2>1, <2>2, <2>3, <2>4, ResumeArguments
<1>4. CASE Head(Top.rest) # Null
  <2> DEFINE fr == [Top EXCEPT !.rest = Tail(@)]
  <2>1. exprs' = exprs /\ Resume(fr, Head(Top.rest)) /\ Len(exprs) <= Len(exprs')
    BY <1>2, <1>4 DEF NextArgument
  <2>2. fr = [at |-> "arguments", function |-> Top.function, rest |-> Tail(Top.rest),
              args |-> Top.args]
    BY <1>1, ArgumentFrameIs
  <2> HIDE DEF fr
  <2>3. QED
    BY <1>1, <1>2, <2>1, <2>2, ResumeArguments
<1>5. QED
  BY <1>3, <1>4

LEMMA FunctionTypes ==
    ASSUME ModuleOK, NEW f \in 1..Len(functions)
    PROVE  /\ functions[f].returnType \in 1..Len(types)
           /\ \A k \in DOMAIN functions[f].parameters :
                 functions[f].parameters[k].type \in 1..Len(types)
<1>1. FunctionOK(functions[f], Len(types), Len(symbols), Len(blocks))
  BY DEF ModuleOK, FunctionsOK
<1>2. functions[f].parameters \in Seq(ParameterEntry)
  BY <1>1 DEF FunctionOK, FunctionEntry
<1>3. QED
  BY <1>1, <1>2 DEF FunctionOK, ParameterOK

LEMMA TakeArgumentKeeps ==
    ASSUME BuilderInv, TakeArgument PROVE BuilderInv'
<1>1. /\ At("arguments") /\ returned # Invalid /\ AddsExpr /\ diags' = diags
  BY DEF TakeArgument
<1>2. /\ ModuleOK /\ Top.rest \in Seq(RhsNodes) /\ Top.args \in Seq(1..Len(exprs))
      /\ Len(exprs) \in Nat /\ ExprsOK(exprs, Len(types), Len(symbols), Len(functions))
      /\ returned \in 1..Len(exprs) /\ Top.function \in 0..Len(functions)
  BY <1>1, ArgumentsFound DEF Invalid
<1> DEFINE f == Top.function
           index == Len(Top.args) + 1
           known == f # Invalid /\ index \in DOMAIN functions[f].parameters
           target == functions[f].parameters[index].type
           id == IF known THEN CastTo(returned, target) ELSE returned
           args == Append(Top.args, id)
           fr == [Top EXCEPT !.args = Append(@, id)]
<1>3. /\ exprs' = IF known THEN WithCast(returned, target) ELSE exprs
      /\ Resume(fr, Null)
  BY DEF TakeArgument
<1>4. /\ ExprsOK(exprs', Len(types), Len(symbols), Len(functions))
      /\ Len(exprs) <= Len(exprs') /\ Len(exprs') \in Nat /\ id \in 1..Len(exprs')
  <2>1. CASE known
    <3>1. f \in 1..Len(functions)
      BY <1>2, <2>1, Lengths DEF Invalid
    <3>2. target \in 1..Len(types)
      BY <1>2, <2>1, <3>1, FunctionTypes
    <3>3. exprs' = WithCast(returned, target) /\ id = CastTo(returned, target)
      BY <1>3, <2>1
    <3> HIDE DEF target, id
    <3>4. QED
      BY <1>2, <3>2, <3>3, CastOK
  <2>2. CASE ~known
    <3>1. exprs' = exprs /\ id = returned
      BY <1>3, <2>2
    <3> HIDE DEF id
    <3>2. QED
      BY <1>2, <3>1
  <2>3. QED
    BY <2>1, <2>2
<1> HIDE DEF id
<1>5. Top.args \in Seq(1..Len(exprs'))
  BY <1>2, <1>4, SeqOfMore
<1>6. args \in Seq(1..Len(exprs')) /\ Null \in RhsNodes
  BY <1>4, <1>5 DEF RhsNodes
<1>7. fr = [at |-> "arguments", function |-> Top.function, rest |-> Top.rest, args |-> args]
  BY <1>1, ArgumentFrameIs
<1> HIDE DEF fr, args, known, target
<1>8. QED
  BY <1>1, <1>2, <1>3, <1>4, <1>6, <1>7, ResumeArguments

LEMMA EndFuncCallKeeps ==
    ASSUME BuilderInv, EndFuncCall PROVE BuilderInv'
<1>1. /\ At("arguments") /\ AddsExpr /\ diags' = diags /\ Leave(Len(exprs) + 1)
  BY DEF EndFuncCall
<1>2. /\ ModuleOK /\ Top.args \in Seq(1..Len(exprs)) /\ Top.function \in 0..Len(functions)
      /\ Len(exprs) \in Nat /\ ExprsOK(exprs, Len(types), Len(symbols), Len(functions))
      /\ diags' \subseteq Reports
  BY <1>1, ArgumentsFound
<1> DEFINE f == Top.function
           type == IF f = Invalid THEN errorType ELSE functions[f].returnType
           e == Expr("Call", type, Top.args, f, << >>)
<1>3. exprs' = Append(exprs, e)
  BY DEF EndFuncCall
<1>4. type \in 1..Len(types)
  <2>1. CASE f = Invalid
    <3>1. Len(types) >= 17 /\ errorType \in 1..17 /\ Len(types) \in Nat
      BY <1>2, BuiltinTypes, Lengths DEF ModuleOK
    <3>2. QED
      BY <2>1, <3>1
  <2>2. CASE f # Invalid
    <3>1. f \in 1..Len(functions)
      BY <1>2, <2>2, Lengths DEF Invalid
    <3>2. QED
      BY <1>2, <2>2, <3>1, FunctionTypes
  <2>3. QED
    BY <2>1, <2>2
<1> HIDE DEF type
<1>5. << >> \in Seq(Texts) /\ f \in Nat
  BY <1>2, Lengths
<1>6. ExprOK(e, Len(exprs) + 1, Len(types), Len(symbols), Len(functions))
  BY <1>2, <1>4, <1>5, Lengths, ExprIs
<1> HIDE DEF e
<1>7. /\ ExprsOK(exprs', Len(types), Len(symbols), Len(functions)) /\ Len(exprs') = Len(exprs) + 1
  BY <1>2, <1>3, <1>6, AppendExpr
<1>8. Len(exprs) + 1 \in 1..Len(exprs') /\ Len(exprs) <= Len(exprs')
  BY <1>2, <1>7
<1>9. QED
  BY <1>1, <1>2, <1>7, <1>8, LeaveExpr
-----------------------------------------------------------------------------
(* Scopes, and the statements.                                             *)
LEMMA NoNamesOK ==
    ASSUME NEW n PROVE NoNames \in Scope(n)
<1>1. NoNames \in [{} -> 1..n] /\ {} \in SUBSET STRING
  BY DEF NoNames
<1>2. QED
  BY <1>1, Zenon DEF Scope

LEMMA PushedOK ==
    ASSUME NEW n \in Nat, scopes \in Seq(Scope(n))
    PROVE  Pushed \in Seq(Scope(n))
BY NoNamesOK DEF Pushed

LEMMA PoppedOK ==
    ASSUME NEW S, scopes \in Seq(S)
    PROVE  Popped \in Seq(S)
<1>1. CASE Len(scopes) = 0
  BY <1>1 DEF Popped
<1>2. CASE Len(scopes) # 0
  BY <1>2, AllButLast DEF Popped
<1>3. QED
  BY <1>1, <1>2

LEMMA DeclaredOK ==
    ASSUME NEW n \in Nat, scopes \in Seq(Scope(n)), Len(scopes) >= 1,
           NEW name \in STRING, NEW id \in 1..n
    PROVE  Declared(name, id) \in Seq(Scope(n)) /\ Len(Declared(name, id)) = Len(scopes)
<1> DEFINE last == scopes[Len(scopes)]
           new == [m \in DOMAIN last \cup {name} |-> IF m = name THEN id ELSE last[m]]
<1>1. last \in Scope(n)
  OBVIOUS
<1> HIDE DEF last
<1>2. PICK names \in SUBSET STRING : last \in [names -> 1..n]
  BY <1>1, Zenon DEF Scope
<1>3. new \in [names \cup {name} -> 1..n] /\ names \cup {name} \in SUBSET STRING
  BY <1>2
<1>4. new \in Scope(n)
  BY <1>3, Zenon DEF Scope
<1>5. Declared(name, id) = [scopes EXCEPT ![Len(scopes)] = new]
  BY Zenon DEF Declared, last
<1> HIDE DEF new
<1>6. Len(scopes) \in 1..Len(scopes)
  OBVIOUS
<1>7. [scopes EXCEPT ![Len(scopes)] = new] \in Seq(Scope(n))
  BY <1>4, <1>6, ExceptSeq, Zenon
<1>8. Len([scopes EXCEPT ![Len(scopes)] = new]) = Len(scopes)
  BY <1>4, <1>6, ExceptSeq
<1>9. QED
  BY <1>5, <1>7, <1>8

LEMMA TakenOK ==
    ASSUME BuilderInv, NEW point \in {"statements", "declarators"}, At(point)
    PROVE  /\ ModuleOK /\ stack # << >> /\ call = Null /\ Top.at = point
           /\ Taken \in Seq(1..Len(statements)) /\ Len(statements) \in Nat
           /\ returned \in 0..Len(statements)
           /\ point = "declarators" => returned \in 1..Len(statements) \/ Top.rest # << >>
<1>1. /\ ModuleOK /\ stack # << >> /\ call = Null /\ Top.at = point
      /\ Settled(Top, returned, Len(blocks), Len(statements), Len(exprs))
      /\ point = "statements" => Top \in StatementFrames(Len(statements))
      /\ point = "declarators" => Top \in DeclaratorFrames(Len(types), Len(statements))
  BY AtFacts, FramesAt
<1>2. Wants(Top) \in {"statement", "declaration"}
  BY <1>1 DEF Wants
<1>3. /\ Len(statements) \in Nat /\ returned \in 0..Len(statements)
      /\ point = "declarators" => returned \in 1..Len(statements) \/ Top.rest # << >>
  BY <1>1, <1>2, Lengths DEF Settled, IdsFor, Invalid
<1>4. Top.statements \in Seq(1..Len(statements))
  BY <1>1 DEF StatementFrames, DeclaratorFrames
<1>5. Taken \in Seq(1..Len(statements))
  <2>1. CASE returned = Invalid
    BY <1>4, <2>1 DEF Taken
  <2>2. CASE returned # Invalid
    <3>1. returned \in 1..Len(statements) /\ Taken = Append(Top.statements, returned)
      BY <1>3, <2>2 DEF Taken, Invalid
    <3>2. QED
      BY <1>4, <3>1
  <2>3. QED
    BY <2>1, <2>2
<1>6. QED
  BY <1>1, <1>3, <1>5

LEMMA LeaveStatement ==
    ASSUME BuilderInv, Grows, NEW point, At(point),
           Gives(Top) \in {"statement", "declaration"},
           NEW id \in 1..Len(statements'), Leave(id)
    PROVE  BuilderInv'
<1>1. stack # << >> /\ call = Null
  BY AtFacts
<1>2. id \in IdsFor(Gives(Top), Len(blocks)', Len(statements)', Len(exprs)')
  BY DEF IdsFor
<1>3. Top.at \notin {"script", "parameters", "body"}
  BY DEF Gives
<1>4. QED
  BY <1>1, <1>2, <1>3, LeaveKeeps DEF BuilderInv, Grows

LEMMA BuildStatBlockKeeps ==
    ASSUME BuilderInv, BuildStatBlock PROVE BuilderInv'
<1>1. call.node = "StatBlock" /\ call # Null
  BY CalledIs DEF BuildStatBlock
<1>2. /\ ModuleOK /\ Wants(Top) \in {"block", "statement"} /\ Top \in FramesNow
      /\ call.statements \in Seq(StatementNodes)
  BY <1>1, CalledFacts DEF WellFormed
<1> DEFINE fr == [at |-> "statements", rest |-> call.statements, statements |-> << >>,
                  isBody |-> Top.at = "body"]
<1>3. /\ CallFrom(fr, Null) /\ scopes' = Pushed
      /\ UNCHANGED <<script, arena, diags, currentFunction>>
  BY DEF BuildStatBlock
<1>4. Grows
  <2>1. scopes' \in Seq(Scope(Len(symbols)))
    BY <1>2, <1>3, PushedOK, Lengths DEF ModuleOK
  <2>2. /\ Len(symbols) <= Len(symbols) /\ Len(blocks) <= Len(blocks)
        /\ Len(statements) <= Len(statements) /\ Len(exprs) <= Len(exprs)
    BY <1>2, Lengths
  <2>3. QED
    BY <1>2, <1>3, <2>1, <2>2, GrowsBy, Zenon DEF ModuleOK, arena
<1>5. fr \in StatementFrames(Len(statements'))
  BY <1>2 DEF StatementFrames
<1>6. Gives(fr) = Wants(Top)
  <2>1. Gives(fr) = IF Top.at = "body" THEN "block" ELSE "statement"
    BY DEF Gives
  <2>2. Wants(Top) = IF Top.at = "body" THEN "block" ELSE "statement"
    BY <1>2 DEF Wants
  <2>3. QED
    BY <2>1, <2>2
<1>7. fr.at = "statements"
  OBVIOUS
<1> HIDE DEF fr
<1>8. fr \in FramesNow' /\ Waits(fr, Null)
  BY <1>5, <1>7, Zenon DEF FramesNow, Frames, Waits
<1>9. QED
  BY <1>1, <1>3, <1>4, <1>6, <1>8, PushKeeps DEF BuilderInv, Grows

LEMMA NextStatementKeeps ==
    ASSUME BuilderInv, NextStatement PROVE BuilderInv'
<1>1. At("statements") /\ Top.rest # << >>
  BY DEF NextStatement
<1>2. /\ ModuleOK /\ stack # << >> /\ Top.at = "statements"
      /\ Taken \in Seq(1..Len(statements))
  BY <1>1, TakenOK
<1>3. Top \in StatementFrames(Len(statements))
  BY <1>1, AtFacts, FramesAt
<1>4. /\ Top.isBody \in BOOLEAN /\ Top.rest \in Seq(StatementNodes)
      /\ Head(Top.rest) \in StatementNodes /\ Tail(Top.rest) \in Seq(StatementNodes)
  BY <1>1, <1>3 DEF StatementFrames
<1> DEFINE fr == [at |-> "statements", rest |-> Tail(Top.rest), statements |-> Taken,
                  isBody |-> Top.isBody]
<1>5. Resume(fr, Head(Top.rest)) /\ UNCHANGED <<script, arena, diags, scopes, currentFunction>>
  BY DEF NextStatement
<1>6. Grows
  BY <1>2, <1>5, Stays DEF ModuleOK
<1>7. fr \in StatementFrames(Len(statements'))
  BY <1>2, <1>4, <1>5 DEF StatementFrames, arena
<1>8. Gives(fr) = Gives(Top) /\ Wants(fr) = "statement"
  BY <1>2 DEF Gives, Wants
<1> HIDE DEF fr
<1>9. Head(Top.rest) \in NodesFor("statement")
  BY <1>4 DEF NodesFor
<1>10. fr \in FramesNow' /\ Waits(fr, Head(Top.rest))
  BY <1>7, <1>8, <1>9, ExprSort, Zenon DEF FramesNow, Frames, Waits
<1>11. QED
  BY <1>2, <1>5, <1>6, <1>8, <1>10, ResumeKeeps DEF BuilderInv, Grows

(* A statement, or a block, has been added.                                *)
LEMMA BlockStatement ==
    ASSUME BuilderInv, UNCHANGED <<script, types, symbols, functions, exprs, diags, currentFunction>>,
           scopes' \in Seq(Scope(Len(symbols))),
           NEW taken \in Seq(1..Len(statements)), blocks' = Append(blocks, taken),
           statements' = Append(statements, Statement("Block", << >>, Len(blocks) + 1))
    PROVE  Grows /\ Len(statements) + 1 \in 1..Len(statements')
<1>1. /\ ModuleOK /\ Len(blocks) \in Nat /\ Len(exprs) \in Nat /\ diags' \subseteq Reports
      /\ blocks \in Seq(Seq(1..Len(statements)))
  BY Lengths DEF BuilderInv, ModuleOK
<1>2. /\ blocks' \in Seq(Seq(1..Len(statements))) /\ Len(blocks') = Len(blocks) + 1
      /\ Len(blocks) + 1 \in Nat /\ Len(blocks) + 1 \in 1..Len(blocks')
      /\ Len(blocks) <= Len(blocks') /\ Len(exprs) <= Len(exprs') /\ << >> \in Seq(1..Len(exprs'))
  BY <1>1
<1>3. ExprsOK(exprs', Len(types), Len(symbols), Len(functions))
  BY <1>1 DEF ModuleOK
<1>4. Grows /\ Len(statements') = Len(statements) + 1 /\ Len(statements) \in Nat
  BY <1>1, <1>2, <1>3, StatementAdded, Zenon
<1>5. QED
  BY <1>4

LEMMA CloseBlockKeeps ==
    ASSUME BuilderInv, CloseBlock PROVE BuilderInv'
<1>1. /\ At("statements") /\ blocks' = Append(blocks, Taken) /\ scopes' = Popped
      /\ UNCHANGED <<script, types, symbols, functions, exprs, diags, currentFunction>>
  BY DEF CloseBlock
<1>2. /\ ModuleOK /\ stack # << >> /\ call = Null /\ Top.at = "statements"
      /\ Taken \in Seq(1..Len(statements)) /\ Len(statements) \in Nat
  BY <1>1, TakenOK
<1>3. scopes' \in Seq(Scope(Len(symbols)))
  BY <1>1, <1>2, PoppedOK DEF ModuleOK
<1>4. CASE Top.isBody
  <2>1. Leave(Len(blocks) + 1) /\ statements' = statements
    BY <1>4 DEF CloseBlock
  <2>2. /\ blocks' \in Seq(Seq(1..Len(statements'))) /\ Len(blocks') = Len(blocks) + 1
        /\ Len(blocks) \in Nat
    BY <1>1, <1>2, <2>1, Lengths DEF ModuleOK
  <2>3. /\ Len(symbols) <= Len(symbols) /\ Len(blocks) <= Len(blocks')
        /\ Len(statements) <= Len(statements) /\ Len(exprs) <= Len(exprs)
        /\ UpTo(Len(symbols), Len(symbols)) /\ UpTo(Len(blocks), Len(blocks'))
        /\ UpTo(Len(exprs), Len(exprs))
    BY <1>2, <2>2, Lengths DEF UpTo
  <2>4. StatementsOK(statements, Len(symbols), Len(blocks'), Len(exprs))
    BY <1>2, <2>3, StatementsStay DEF ModuleOK
  <2>5. Grows
    BY <1>1, <1>2, <1>3, <2>1, <2>2, <2>3, <2>4, GrowsBy, Zenon DEF ModuleOK
  <2>6. Len(blocks) + 1 \in IdsFor(Gives(Top), Len(blocks)', Len(statements)', Len(exprs)')
    BY <1>2, <1>4, <2>2 DEF Gives, IdsFor
  <2>7. Top.at \notin {"script", "parameters", "body"}
    BY <1>2
  <2>8. QED
    BY <1>2, <2>1, <2>5, <2>6, <2>7, LeaveKeeps DEF BuilderInv, Grows
<1>5. CASE ~Top.isBody
  <2>1. /\ Leave(Len(statements) + 1)
        /\ statements' = Append(statements, Statement("Block", << >>, Len(blocks) + 1))
    BY <1>5 DEF CloseBlock
  <2>2. Grows /\ Len(statements) + 1 \in 1..Len(statements')
    BY <1>1, <1>2, <1>3, <2>1, BlockStatement
  <2>3. Gives(Top) = "statement"
    BY <1>2, <1>5 DEF Gives
  <2>4. QED
    BY <1>1, <2>1, <2>2, <2>3, LeaveStatement
<1>6. QED
  BY <1>4, <1>5

LEMMA BuildOtherStatementKeeps ==
    ASSUME BuilderInv, BuildOtherStatement PROVE BuilderInv'
<1>1. call.node = "OtherStatement" /\ call # Null
  BY CalledIs DEF BuildOtherStatement
<1>2. ModuleOK /\ Wants(Top) = "statement"
  BY <1>1, CalledFacts
<1>3. /\ UNCHANGED <<script, types, symbols, functions, currentFunction>>
      /\ statements' = Append(statements, Statement("Error", << >>, Invalid))
      /\ Return(Len(statements) + 1)
  BY DEF BuildOtherStatement
<1>4. /\ blocks' = blocks /\ exprs' = exprs /\ scopes' = scopes
       /\ diags' = diags \cup {"statement kind not yet supported"}
  BY DEF BuildOtherStatement, Report
<1>5. /\ diags' \subseteq Reports /\ scopes' \in Seq(Scope(Len(symbols)))
      /\ blocks' \in Seq(Seq(1..Len(statements)))
      /\ ExprsOK(exprs', Len(types), Len(symbols), Len(functions))
      /\ Len(exprs) <= Len(exprs') /\ Len(blocks) <= Len(blocks')
      /\ << >> \in Seq(1..Len(exprs')) /\ Invalid \in Nat
  <2>1. diags' \subseteq Reports
    BY <1>2, <1>4 DEF ModuleOK, Reports
  <2>2. Len(exprs) <= Len(exprs') /\ Len(blocks) <= Len(blocks')
    <3>1. Len(exprs) <= Len(exprs) /\ Len(blocks) <= Len(blocks)
      BY <1>2, Lengths
    <3>2. QED
      BY <1>4, <3>1, Zenon
  <2>3. /\ scopes' \in Seq(Scope(Len(symbols))) /\ blocks' \in Seq(Seq(1..Len(statements)))
        /\ ExprsOK(exprs', Len(types), Len(symbols), Len(functions))
    BY <1>2, <1>4 DEF ModuleOK
  <2>4. << >> \in Seq(1..Len(exprs')) /\ Invalid \in Nat
    BY DEF Invalid
  <2>5. QED
    BY <2>1, <2>2, <2>3, <2>4
<1>6. Grows /\ Len(statements') = Len(statements) + 1 /\ Len(statements) \in Nat
  BY <1>2, <1>3, <1>5, StatementAdded
<1>7. Len(statements) + 1 \in IdsFor(Wants(Top), Len(blocks)', Len(statements)', Len(exprs)')
  BY <1>2, <1>6 DEF IdsFor
<1>8. QED
  BY <1>1, <1>3, <1>6, <1>7, ReturnKeeps DEF BuilderInv, Grows

LEMMA BuildVarDeclKeeps ==
    ASSUME BuilderInv, BuildVarDecl PROVE BuilderInv'
<1>1. call.node = "Var" /\ call # Null
  BY CalledIs DEF BuildVarDecl
<1>2. /\ ModuleOK /\ Wants(Top) = "statement"
      /\ call.decls # << >> /\ call.decls \in Seq(Decls)
  BY <1>1, CalledFacts DEF WellFormed, Decls
<1> DEFINE type == TypeOf(call.type)
           fr == [at |-> "declarators", rest |-> call.decls, statements |-> << >>, type |-> type]
<1>3. /\ CallFrom(fr, Null) /\ UNCHANGED <<script, arena, scopes, currentFunction>>
      /\ diags' = diags \cup TypeReports({call.type})
  BY DEF BuildVarDecl
<1>4. diags' \subseteq Reports
  BY <1>2, <1>3, ReportsAreStrings DEF ModuleOK
<1>5. Grows
  BY <1>2, <1>3, <1>4, Stays
<1>6. type \in 1..Len(types') /\ types' = types
  <2>1. type \in 1..17 /\ Len(types) >= 17 /\ Len(types) \in Nat
    BY <1>2, TypesOfNodes, BuiltinTypes, Lengths DEF ModuleOK
  <2>2. types' = types
    BY <1>3 DEF arena
  <2> HIDE DEF type
  <2>3. QED
    BY <2>1, <2>2
<1> HIDE DEF type
<1>7. fr \in DeclaratorFrames(Len(types'), Len(statements'))
  BY <1>2, <1>6 DEF DeclaratorFrames
<1>8. Gives(fr) = "statement" /\ fr.at = "declarators" /\ fr.rest # << >>
  BY <1>2 DEF Gives
<1> HIDE DEF fr
<1>9. fr \in FramesNow' /\ Waits(fr, Null)
  BY <1>7, <1>8, Zenon DEF FramesNow, Frames, Waits
<1>10. QED
  BY <1>1, <1>2, <1>3, <1>5, <1>8, <1>9, PushKeeps DEF BuilderInv, Grows

(* A frame is updated, and a function without a call of its own entered.   *)
LEMMA EnterKeeps ==
    ASSUME BuilderInv, Grows, stack # << >>,
           Top.at \notin {"script", "parameters", "body"},
           NEW loop \in FramesNow', NEW fr \in FramesNow', NEW node,
           stack' = Below \o <<loop, fr>>, call' = node, returned' = Invalid,
           Gives(loop) = Gives(Top), Gives(fr) = Wants(loop), Waits(fr, node)
    PROVE  StackOK' /\ ContextOK' /\ ControlOK' /\ PendingOK'
<1>1. /\ stack \in Seq(FramesNow) /\ Linked(stack) /\ Len(stack) \in Nat /\ Len(stack) >= 3
      /\ Below \in Seq(FramesNow) /\ Len(Below) = Len(stack) - 1
      /\ \A i \in 1..Len(Below) : Below[i] = stack[i]
      /\ Top \in FramesNow
  BY TopFacts DEF BuilderInv, StackOK
<1>2. stack \in Seq(FramesNow') /\ Below \in Seq(FramesNow')
  BY <1>1, FramesGrow
<1>3. Gives(Top) # "end"
  BY <1>1, FramesAt DEF FramesNow, Gives
<1>4. loop.at # "script"
  BY <1>3 DEF Gives
<1> DEFINE one == Append(Below, loop)
<1>5. one \in Seq(FramesNow') /\ Linked(one)
  BY <1>1, <1>2, <1>4, LinkedReplace DEF Top
<1>6. Len(one) = Len(stack) /\ one[Len(one)] = loop /\ one[2] = stack[2] /\ one # << >>
  BY <1>1, <1>2
<1> HIDE DEF one
<1>7. Append(one, fr) \in Seq(FramesNow') /\ Linked(Append(one, fr))
  BY <1>5, <1>6, LinkedPush
<1>8. stack' = Append(one, fr)
  BY <1>2, <1>7, AppendTwice DEF one
<1>9. StackOK'
  BY <1>7, <1>8 DEF StackOK
<1>10. Len(stack') = Len(stack) + 1 /\ stack'[Len(stack')] = fr /\ stack'[2] = stack[2]
  BY <1>1, <1>5, <1>6, <1>8
<1>11. ContextOK' /\ PendingOK'
  BY <1>1, <1>10, FunctionStays
<1>12. Top' = fr /\ stack' # << >>
  BY <1>1, <1>10, EmptySeq DEF Top
<1>13. ControlOK'
  BY <1>12, Zenon DEF ControlOK, Waits, Settled
<1>14. QED
  BY <1>9, <1>11, <1>13

LEMMA NextDeclaratorKeeps ==
    ASSUME BuilderInv, Len(scopes) >= 1, NextDeclarator PROVE BuilderInv'
<1>1. At("declarators") /\ Top.rest # << >>
  BY DEF NextDeclarator
<1>2. /\ ModuleOK /\ stack # << >> /\ Top.at = "declarators"
      /\ Taken \in Seq(1..Len(statements))
  BY <1>1, TakenOK
<1>3. Top \in DeclaratorFrames(Len(types), Len(statements))
  BY <1>1, AtFacts, FramesAt
<1>4. /\ Top.type \in 1..Len(types) /\ Top.rest \in Seq(Decls)
      /\ Head(Top.rest) \in Decls /\ Tail(Top.rest) \in Seq(Decls)
  BY <1>1, <1>3 DEF DeclaratorFrames
<1> DEFINE decl == Head(Top.rest)
           id == Len(symbols) + 1
           loop == [at |-> "declarators", rest |-> Tail(Top.rest), statements |-> Taken,
                    type |-> Top.type]
           fr == [at |-> "initializer", symbol |-> id, type |-> Top.type]
           symbol == Symbol("LocalVar", decl.name, Top.type, Invalid)
<1>5. /\ symbols' = Append(symbols, symbol) /\ scopes' = Declared(decl.name, id)
      /\ stack' = Below \o <<loop, fr>> /\ call' = decl.init /\ returned' = Invalid
      /\ UNCHANGED <<script, types, functions, blocks, statements, exprs, diags, currentFunction>>
  BY DEF NextDeclarator, DeclareSymbol
<1>6. decl.name \in STRING /\ decl.init \in InitNodes
  BY <1>4 DEF Decls
<1>7. /\ Len(types) \in Nat /\ Len(symbols) \in Nat /\ Len(functions) \in Nat
      /\ Len(blocks) \in Nat /\ Len(statements) \in Nat /\ Len(exprs) \in Nat
  BY <1>2, Lengths
<1>8. /\ SymbolsOK(symbols', Len(types), Len(functions)) /\ Len(symbols') = Len(symbols) + 1
  <2>1. SymbolOK(symbol, Len(types), Len(functions))
    BY <1>4, <1>6, <1>7 DEF SymbolOK, SymbolEntry, Symbol, Ids, Invalid
  <2>2. SymbolsOK(symbols, Len(types), Len(functions))
    BY <1>2 DEF ModuleOK
  <2> HIDE DEF symbol
  <2>3. QED
    BY <1>5, <2>1, <2>2, AppendSymbol
<1>9. scopes' \in Seq(Scope(Len(symbols')))
  <2>1. scopes \in Seq(Scope(Len(symbols')))
    BY <1>2, <1>7, <1>8, ScopesStay DEF ModuleOK
  <2>2. Len(symbols') \in Nat /\ id \in 1..Len(symbols')
    BY <1>7, <1>8
  <2> HIDE DEF id, decl
  <2>3. QED
    BY <1>5, <1>6, <2>1, <2>2, DeclaredOK
<1>10. Grows
  <2>1. /\ UpTo(Len(symbols), Len(symbols')) /\ UpTo(Len(blocks), Len(blocks))
        /\ UpTo(Len(exprs), Len(exprs)) /\ UpTo(Len(types), Len(types))
        /\ UpTo(Len(functions), Len(functions))
        /\ Len(symbols) <= Len(symbols') /\ Len(blocks) <= Len(blocks)
        /\ Len(statements) <= Len(statements) /\ Len(exprs) <= Len(exprs)
    BY <1>7, <1>8 DEF UpTo
  <2>2. StatementsOK(statements, Len(symbols'), Len(blocks), Len(exprs))
    BY <1>2, <2>1, StatementsStay DEF ModuleOK
  <2>3. ExprsOK(exprs, Len(types), Len(symbols'), Len(functions))
    BY <1>2, <2>1, ExprsStay DEF ModuleOK
  <2>4. blocks \in Seq(Seq(1..Len(statements))) /\ diags \subseteq Reports
    BY <1>2 DEF ModuleOK
  <2> HIDE DEF decl, id, loop, fr, symbol
  <2>5. QED
    BY <1>2, <1>5, <1>8, <1>9, <2>1, <2>2, <2>3, <2>4, GrowsBy, Zenon
<1>11. loop \in DeclaratorFrames(Len(types'), Len(statements'))
  BY <1>2, <1>4, <1>5 DEF DeclaratorFrames
<1>12. fr \in InitializerFrames(Len(types'), Len(symbols'))
  BY <1>4, <1>5, <1>7, <1>8 DEF InitializerFrames
<1>13. /\ Gives(loop) = Gives(Top) /\ Gives(fr) = Wants(loop)
       /\ fr.at = "initializer" /\ Wants(fr) = "expr"
  BY <1>2 DEF Gives, Wants
<1> HIDE DEF loop, fr, decl
<1>14. loop \in FramesNow' /\ fr \in FramesNow'
  BY <1>11, <1>12, Zenon DEF FramesNow, Frames
<1>15. Waits(fr, decl.init)
  BY <1>6, <1>13, ExprSort DEF Waits
<1>16. Top.at \notin {"script", "parameters", "body"}
  BY <1>2
<1>17. QED
  BY <1>2, <1>5, <1>10, <1>13, <1>14, <1>15, <1>16, EnterKeeps, Zenon DEF BuilderInv, Grows

LEMMA BuildOtherInitializerKeeps ==
    ASSUME BuilderInv, BuildOtherInitializer PROVE BuilderInv'
<1>1. call.node = "OtherInitializer" /\ call # Null
  BY CalledIs DEF BuildOtherInitializer
<1>2. Wants(Top) = "expr"
  BY <1>1, CalledFacts
<1>3. "var initializer kind not yet supported" \in Reports
  BY DEF Reports
<1>4. /\ AddsExpr /\ MakeErrorExpr("var initializer kind not yet supported")
      /\ Return(Len(exprs) + 1)
  BY DEF BuildOtherInitializer, AddsExpr, MakeErrorExpr
<1>5. QED
  BY <1>1, <1>2, <1>3, <1>4, ReturnErrorExpr

(* A statement with at most one expression, which may have been converted. *)
LEMMA SimpleStatement ==
    ASSUME BuilderInv, UNCHANGED <<script, types, symbols, functions, blocks, diags, scopes,
                                   currentFunction>>,
           NEW kind \in {"VarDecl", "Expr", "Return"}, NEW ref \in Nat,
           kind = "VarDecl" => ref \in 1..Len(symbols),
           NEW kids \in Seq(1..Len(exprs')),
           ExprsOK(exprs', Len(types), Len(symbols), Len(functions)), Len(exprs) <= Len(exprs'),
           statements' = Append(statements, Statement(kind, kids, ref))
    PROVE  Grows /\ Len(statements) + 1 \in 1..Len(statements')
<1>1. /\ ModuleOK /\ Len(blocks) <= Len(blocks')
      /\ diags' \subseteq Reports /\ scopes' \in Seq(Scope(Len(symbols)))
      /\ blocks' \in Seq(Seq(1..Len(statements)))
  BY Lengths DEF BuilderInv, ModuleOK
<1>2. kind = "Block" => ref \in 1..Len(blocks')
  OBVIOUS
<1>3. Grows /\ Len(statements') = Len(statements) + 1 /\ Len(statements) \in Nat
  BY <1>1, <1>2, StatementAdded
<1>4. QED
  BY <1>3

LEMMA InitializeKeeps ==
    ASSUME BuilderInv, Initialize PROVE BuilderInv'
<1>1. /\ At("initializer") /\ Leave(Len(statements) + 1)
      /\ UNCHANGED <<script, types, symbols, functions, blocks, diags, scopes, currentFunction>>
  BY DEF Initialize
<1>2. /\ ModuleOK /\ Top.at = "initializer" /\ Top \in InitializerFrames(Len(types), Len(symbols))
      /\ Settled(Top, returned, Len(blocks), Len(statements), Len(exprs))
  BY <1>1, AtFacts, FramesAt
<1>3. /\ Top.symbol \in 1..Len(symbols) /\ Top.type \in 1..Len(types)
      /\ Top.symbol \in Nat /\ returned \in 0..Len(exprs)
      /\ Gives(Top) = "declaration"
  BY <1>2, Lengths DEF InitializerFrames, Settled, Wants, IdsFor, Invalid, Gives
<1>4. PICK kids \in Seq(1..Len(exprs')) :
          /\ ExprsOK(exprs', Len(types), Len(symbols), Len(functions))
          /\ Len(exprs) <= Len(exprs')
          /\ statements' = Append(statements, VarDecl(Top.symbol, kids))
  <2>1. CASE returned = Invalid
    <3>1. exprs' = exprs /\ statements' = Append(statements, VarDecl(Top.symbol, << >>))
      BY <2>1 DEF Initialize
    <3>2. Len(exprs) <= Len(exprs') /\ ExprsOK(exprs', Len(types), Len(symbols), Len(functions))
      BY <1>2, <3>1, Lengths DEF ModuleOK
    <3>3. << >> \in Seq(1..Len(exprs'))
      OBVIOUS
    <3>4. QED
      BY <3>1, <3>2, <3>3
  <2>2. CASE returned # Invalid
    <3> DEFINE id == CastTo(returned, Top.type)
    <3>1. /\ exprs' = WithCast(returned, Top.type)
          /\ statements' = Append(statements, VarDecl(Top.symbol, <<id>>))
      BY <2>2 DEF Initialize
    <3>2. returned \in 1..Len(exprs)
      BY <1>2, <1>3, <2>2, Lengths DEF Invalid
    <3>3. /\ ExprsOK(exprs', Len(types), Len(symbols), Len(functions))
          /\ Len(exprs) <= Len(exprs') /\ id \in 1..Len(exprs')
      BY <1>2, <1>3, <3>1, <3>2, CastOK
    <3> HIDE DEF id
    <3>4. <<id>> \in Seq(1..Len(exprs'))
      BY <3>3
    <3>5. QED
      BY <3>1, <3>3, <3>4
  <2>3. QED
    BY <2>1, <2>2
<1>5. Grows /\ Len(statements) + 1 \in 1..Len(statements')
  BY <1>1, <1>3, <1>4, SimpleStatement DEF VarDecl
<1>6. QED
  BY <1>1, <1>3, <1>5, LeaveStatement

LEMMA EndVarDeclKeeps ==
    ASSUME BuilderInv, EndVarDecl PROVE BuilderInv'
<1>1. /\ At("declarators") /\ Top.rest = << >>
      /\ UNCHANGED <<script, types, symbols, functions, exprs, diags, scopes, currentFunction>>
  BY DEF EndVarDecl
<1>2. /\ ModuleOK /\ Top.at = "declarators" /\ Taken \in Seq(1..Len(statements))
      /\ returned \in 1..Len(statements) /\ Len(statements) \in Nat
  BY <1>1, TakenOK
<1>3. Gives(Top) = "statement"
  BY <1>2 DEF Gives
<1>4. CASE Len(Taken) = 1
  <2>1. Leave(returned) /\ UNCHANGED <<script, arena, diags, scopes, currentFunction>>
    BY <1>1, <1>4 DEF EndVarDecl, arena
  <2>2. Grows /\ returned \in 1..Len(statements')
    BY <1>2, <2>1, Stays DEF ModuleOK, arena
  <2>3. QED
    BY <1>1, <1>3, <2>1, <2>2, LeaveStatement
<1>5. CASE Len(Taken) # 1
  <2>1. /\ blocks' = Append(blocks, Taken) /\ Leave(Len(statements) + 1)
        /\ statements' = Append(statements, Statement("Block", << >>, Len(blocks) + 1))
    BY <1>5 DEF EndVarDecl
  <2>2. scopes' \in Seq(Scope(Len(symbols)))
    BY <1>1, <1>2 DEF ModuleOK
  <2>3. Grows /\ Len(statements) + 1 \in 1..Len(statements')
    BY <1>1, <1>2, <2>1, <2>2, BlockStatement
  <2>4. QED
    BY <1>1, <1>3, <2>1, <2>3, LeaveStatement
<1>6. QED
  BY <1>4, <1>5

(* A statement of which only the expression is called.                     *)
LEMMA EnterStatement ==
    ASSUME BuilderInv, call # Null, Wants(Top) = "statement",
           NEW at \in {"exprStat", "return"}, NEW node \in RhsNodes,
           CallFrom([at |-> at], node), UNCHANGED <<script, arena, diags, scopes, currentFunction>>
    PROVE  BuilderInv'
<1> DEFINE fr == [at |-> at]
<1>1. Grows
  BY Stays DEF BuilderInv, ModuleOK
<1>2. fr \in PlainFrames /\ Gives(fr) = "statement" /\ Wants(fr) = "expr" /\ fr.at = at
  BY DEF PlainFrames, Gives, Wants
<1>3. CallFrom(fr, node)
  OBVIOUS
<1> HIDE DEF fr
<1>4. fr \in FramesNow'
  BY <1>2, Zenon DEF FramesNow, Frames
<1>5. Waits(fr, node)
  BY <1>2, ExprSort DEF Waits
<1>6. QED
  BY <1>1, <1>2, <1>3, <1>4, <1>5, PushKeeps DEF BuilderInv, Grows

LEMMA BuildExprStatKeeps ==
    ASSUME BuilderInv, BuildExprStat PROVE BuilderInv'
<1>1. call.node = "ExprStat" /\ call # Null
  BY CalledIs DEF BuildExprStat
<1>2. Wants(Top) = "statement" /\ call.assign \in RhsNodes
  BY <1>1, CalledFacts DEF WellFormed
<1>3. QED
  BY <1>1, <1>2, EnterStatement DEF BuildExprStat

LEMMA BuildReturnKeeps ==
    ASSUME BuilderInv, BuildReturn PROVE BuilderInv'
<1>1. call.node = "Return" /\ call # Null
  BY CalledIs DEF BuildReturn
<1>2. Wants(Top) = "statement" /\ call.value \in RhsNodes
  BY <1>1, CalledFacts DEF WellFormed
<1>3. QED
  BY <1>1, <1>2, EnterStatement DEF BuildReturn

LEMMA ExprReturned ==
    ASSUME BuilderInv, NEW point \in {"exprStat", "return"}, At(point)
    PROVE  /\ ModuleOK /\ Gives(Top) = "statement" /\ returned \in 0..Len(exprs)
           /\ Len(exprs) \in Nat /\ ExprsOK(exprs, Len(types), Len(symbols), Len(functions))
           /\ Len(stack) >= 3
<1>1. /\ ModuleOK /\ stack # << >> /\ Top.at = point
      /\ Settled(Top, returned, Len(blocks), Len(statements), Len(exprs))
  BY AtFacts
<1>2. returned \in 0..Len(exprs) /\ Gives(Top) = "statement" /\ Len(exprs) \in Nat
  BY <1>1, Lengths DEF Settled, Wants, IdsFor, Invalid, Gives
<1>3. QED
  BY <1>1, <1>2, TopFacts DEF BuilderInv, ModuleOK

LEMMA EndExprStatKeeps ==
    ASSUME BuilderInv, EndExprStat PROVE BuilderInv'
<1> DEFINE kids == IF returned = Invalid THEN << >> ELSE <<returned>>
<1>1. /\ At("exprStat") /\ Leave(Len(statements) + 1)
      /\ UNCHANGED <<script, types, symbols, functions, blocks, diags, scopes, currentFunction>>
      /\ exprs' = exprs /\ statements' = Append(statements, Statement("Expr", kids, Invalid))
  BY DEF EndExprStat
<1>2. /\ Gives(Top) = "statement" /\ returned \in 0..Len(exprs) /\ Len(exprs) \in Nat
      /\ ExprsOK(exprs, Len(types), Len(symbols), Len(functions))
  BY <1>1, ExprReturned
<1>3. kids \in Seq(1..Len(exprs'))
  <2>1. CASE returned = Invalid
    BY <2>1
  <2>2. CASE returned # Invalid
    <3>1. returned \in 1..Len(exprs') /\ kids = <<returned>>
      BY <1>1, <1>2, <2>2 DEF Invalid
    <3> HIDE DEF kids
    <3>2. QED
      BY <3>1
  <2>3. QED
    BY <2>1, <2>2
<1>4. Invalid \in Nat /\ Len(exprs) <= Len(exprs')
  BY <1>1, <1>2 DEF Invalid
<1> HIDE DEF kids
<1>5. Grows /\ Len(statements) + 1 \in 1..Len(statements')
  BY <1>1, <1>2, <1>3, <1>4, SimpleStatement
<1>6. QED
  BY <1>1, <1>2, <1>5, LeaveStatement

LEMMA ExpectedFound ==
    ASSUME BuilderInv, At("return") PROVE Expected \in 1..Len(types)
<1>1. ModuleOK /\ Len(stack) >= 3
  BY ExprReturned
<1>2. currentFunction = stack[2].function
  BY <1>1 DEF BuilderInv, ContextOK
<1>3. stack \in Seq(FramesNow) /\ Linked(stack)
  BY DEF BuilderInv, StackOK
<1>4. stack[2].at \in {"parameters", "body"} /\ stack[2] \in FramesNow
  BY <1>1, <1>3, Levels
<1>5. stack[2] \in ParameterFrames(Len(functions)) \cup BodyFrames(Len(functions))
  BY <1>4, FramesAt DEF FramesNow
<1>6. stack[2].function \in 1..Len(functions)
  BY <1>5 DEF ParameterFrames, BodyFrames
<1>7. QED
  BY <1>1, <1>2, <1>6, FunctionTypes DEF Expected

LEMMA EndReturnKeeps ==
    ASSUME BuilderInv, EndReturn PROVE BuilderInv'
<1>1. /\ At("return") /\ Leave(Len(statements) + 1)
      /\ UNCHANGED <<script, types, symbols, functions, blocks, diags, scopes, currentFunction>>
  BY DEF EndReturn
<1>2. /\ ModuleOK /\ Gives(Top) = "statement" /\ returned \in 0..Len(exprs) /\ Len(exprs) \in Nat
      /\ ExprsOK(exprs, Len(types), Len(symbols), Len(functions)) /\ Len(stack) >= 3
  BY <1>1, ExprReturned
<1>3. Expected \in 1..Len(types)
  BY <1>1, ExpectedFound
<1>4. PICK kids \in Seq(1..Len(exprs')) :
          /\ ExprsOK(exprs', Len(types), Len(symbols), Len(functions))
          /\ Len(exprs) <= Len(exprs')
          /\ statements' = Append(statements, Statement("Return", kids, Invalid))
  <2>1. CASE returned = Invalid
    <3>1. exprs' = exprs /\ statements' = Append(statements, Statement("Return", << >>, Invalid))
      BY <2>1 DEF EndReturn
    <3>2. Len(exprs) <= Len(exprs') /\ << >> \in Seq(1..Len(exprs'))
      BY <1>2, <3>1
    <3>3. QED
      BY <1>2, <3>1, <3>2
  <2>2. CASE returned # Invalid
    <3> DEFINE id == CastTo(returned, Expected)
    <3>1. /\ exprs' = WithCast(returned, Expected)
          /\ statements' = Append(statements, Statement("Return", <<id>>, Invalid))
      BY <2>2 DEF EndReturn
    <3>2. returned \in 1..Len(exprs)
      BY <1>2, <2>2 DEF Invalid
    <3>3. /\ ExprsOK(exprs', Len(types), Len(symbols), Len(functions))
          /\ Len(exprs) <= Len(exprs') /\ id \in 1..Len(exprs')
      BY <1>2, <1>3, <3>1, <3>2, CastOK
    <3> HIDE DEF id
    <3>4. <<id>> \in Seq(1..Len(exprs'))
      BY <3>3
    <3>5. QED
      BY <3>1, <3>3, <3>4
  <2>3. QED
    BY <2>1, <2>2
<1>5. Grows /\ Len(statements) + 1 \in 1..Len(statements')
  <2>1. Invalid \in Nat
    BY DEF Invalid
  <2>2. QED
    BY <1>1, <1>4, <2>1, SimpleStatement
<1>6. QED
  BY <1>1, <1>2, <1>5, LeaveStatement
-----------------------------------------------------------------------------
(* The script and its functions: the stack is not higher than two.         *)
LEMMA ScriptFound ==
    ASSUME BuilderInv, At("script")
    PROVE  /\ ModuleOK /\ call = Null /\ returned = Invalid /\ currentFunction = Invalid
           /\ Below = << >> /\ Len(stack) = 1 /\ Top \in ScriptFrames /\ Top.next \in Nat \ {0}
           /\ stack[1] = Top
           /\ [Top EXCEPT !.next = @ + 1] \in ScriptFrames
<1>1. /\ ModuleOK /\ stack # << >> /\ call = Null /\ Top.at = "script"
      /\ Settled(Top, returned, Len(blocks), Len(statements), Len(exprs))
      /\ Top \in ScriptFrames
  BY AtFacts, FramesAt
<1>2. stack \in Seq(FramesNow) /\ Linked(stack)
  BY DEF BuilderInv, StackOK
<1>3. /\ Len(stack) \in Nat \ {0} /\ Len(Below) = Len(stack) - 1 /\ Below \in Seq(FramesNow)
  BY <1>1, TopFacts DEF BuilderInv
<1>4. Len(stack) = 1
  BY <1>1, <1>2, <1>3, Levels DEF Top
<1>5. Below = << >> /\ stack[1] = Top
  BY <1>3, <1>4, EmptySeq DEF Top
<1>6. Wants(Top) = "nothing"
  BY <1>1 DEF Wants
<1>7. returned = Invalid
  BY <1>1, <1>6 DEF Settled, IdsFor
<1>8. currentFunction = Invalid
  BY <1>4 DEF BuilderInv, ContextOK
<1>9. /\ Top.next \in Nat \ {0} /\ [Top EXCEPT !.next = @ + 1] \in ScriptFrames
  <2>1. PICK n \in Ids : Top = [at |-> "script", next |-> n]
    BY <1>1 DEF ScriptFrames
  <2>2. [Top EXCEPT !.next = n + 1] = [at |-> "script", next |-> n + 1] /\ Top.next = n
    BY <2>1
  <2>3. n \in Nat \ {0} /\ n + 1 \in Ids
    BY <2>1 DEF Ids, Invalid
  <2>4. QED
    BY <2>2, <2>3 DEF ScriptFrames
<1>10. QED
  BY <1>1, <1>4, <1>5, <1>7, <1>8, <1>9

LEMMA ScriptStack ==
    ASSUME NEW fr \in ScriptFrames, stack' = <<fr>>, call' = Null, returned' = Invalid,
           currentFunction' = Invalid
    PROVE  StackOK' /\ ContextOK' /\ ControlOK' /\ PendingOK'
<1>1. fr \in FramesNow' /\ fr.at = "script"
  BY DEF FramesNow, Frames, ScriptFrames
<1>2. stack' \in Seq(FramesNow') /\ Len(stack') = 1 /\ stack'[1] = fr /\ Top' = fr
  BY <1>1 DEF Top
<1>3. StackOK'
  BY <1>1, <1>2 DEF StackOK, Linked
<1>4. ContextOK' /\ PendingOK'
  BY <1>2 DEF ContextOK, PendingOK
<1>5. ControlOK'
  BY <1>1, <1>2, EmptySeq DEF ControlOK, Settled
<1>6. QED
  BY <1>3, <1>4, <1>5

LEMMA FunctionStack ==
    ASSUME NEW caller \in ScriptFrames, NEW fr \in FramesNow', stack' = <<caller, fr>>,
           fr.at \in {"parameters", "body"}, currentFunction' = fr.function,
           Waits(fr, call'), returned' = Invalid
    PROVE  StackOK' /\ ContextOK' /\ ControlOK' /\ Len(stack') = 2 /\ stack'[2] = fr
<1>1. caller \in FramesNow' /\ caller.at = "script"
  BY DEF FramesNow, Frames, ScriptFrames
<1>2. /\ stack' \in Seq(FramesNow') /\ Len(stack') = 2 /\ stack'[1] = caller
      /\ stack'[2] = fr /\ Top' = fr
  BY <1>1 DEF Top
<1>3. Gives(fr) = "nothing" /\ Wants(caller) = "nothing"
  BY <1>1 DEF Gives, Wants
<1>4. StackOK'
  BY <1>1, <1>2, <1>3 DEF StackOK, Linked
<1>5. ContextOK'
  BY <1>2 DEF ContextOK
<1>6. stack' # << >>
  BY <1>2, EmptySeq
<1>7. ControlOK'
  BY <1>2, <1>6, Zenon DEF ControlOK, Waits, Settled
<1>8. QED
  BY <1>2, <1>4, <1>5, <1>7

LEMMA ShortAppend ==
    ASSUME NEW a, NEW b
    PROVE  Append(<< >>, a) = <<a>> /\ Append(<<a>>, b) = <<a, b>>
<1> DEFINE x == Append(<<a>>, b)
           y == <<a, b>>
<1>1. <<a>> \in Seq({a, b}) /\ y \in Seq({a, b})
  OBVIOUS
<1>2. x \in Seq({a, b})
  BY <1>1
<1>3. Len(x) = 2 /\ x[1] = a /\ x[2] = b /\ Len(y) = 2 /\ y[1] = a /\ y[2] = b
  OBVIOUS
<1> HIDE DEF x, y
<1>4. \A i \in 1..Len(x) : x[i] = y[i]
  BY <1>3
<1>5. x = y
  BY <1>1, <1>2, <1>3, <1>4, SeqEqual
<1>6. Append(<< >>, a) = <<a>>
  OBVIOUS
<1>7. QED
  BY <1>5, <1>6 DEF x, y

PendingAt(next, g) ==
    /\ g.body = Invalid
    /\ \A k \in DOMAIN g.parameters : k >= next => g.parameters[k].symbol = Invalid

LEMMA ParameterStays ==
    ASSUME NEW p, NEW t, NEW s, ParameterOK(p, t, s), NEW s2, UpTo(s, s2)
    PROVE  ParameterOK(p, t, s2)
BY DEF ParameterOK, UpTo

LEMMA ParameterStack ==
    ASSUME ModuleOK', NEW caller \in ScriptFrames, NEW fr \in FramesNow',
           stack' = <<caller, fr>>, fr.at = "parameters",
           NEW f, fr.function = f, currentFunction' = f, call' = Null, returned' = Invalid,
           NEW next, fr.next = next, PendingAt(next, functions'[f])
    PROVE  BuilderInv'
<1>1. Waits(fr, call')
  BY DEF Waits
<1>2. StackOK' /\ ContextOK' /\ ControlOK' /\ Len(stack') = 2 /\ stack'[2] = fr
  BY <1>1, FunctionStack
<1>3. PendingOK'
  BY <1>2 DEF PendingOK, PendingAt
<1>4. QED
  BY <1>2, <1>3 DEF BuilderInv

Replaces(hs, gs, f, g) == f \in 1..Len(gs) /\ hs = [gs EXCEPT ![f] = g]

LEMMA FunctionReplaced ==
    ASSUME NEW hs, NEW gs, NEW f, NEW g, Replaces(hs, gs, f, g),
           NEW t, NEW s, NEW b, FunctionsOK(gs, t, s, b), FunctionOK(g, t, s, b)
    PROVE  FunctionsOK(hs, t, s, b) /\ hs[f] = g /\ Len(hs) = Len(gs)
<1>1. gs \in Seq(FunctionEntry) /\ g \in FunctionEntry
  BY DEF FunctionsOK, FunctionOK
<1>2. /\ hs \in Seq(FunctionEntry) /\ Len(hs) = Len(gs) /\ hs[f] = g
      /\ \A i \in 1..Len(gs) : i # f => hs[i] = gs[i]
  BY <1>1 DEF Replaces
<1>3. FunctionsOK(hs, t, s, b)
  BY <1>2 DEF FunctionsOK
<1>4. QED
  BY <1>2, <1>3

LEMMA BuildOtherChildKeeps ==
    ASSUME BuilderInv, BuildOtherChild PROVE BuilderInv'
<1> DEFINE fr == [Top EXCEPT !.next = @ + 1]
<1>1. /\ At("script") /\ Resume(fr, Null) /\ UNCHANGED <<script, arena, scopes, currentFunction>>
      /\ diags' = diags \cup {"top-level node kind not yet supported"}
  BY DEF BuildOtherChild, Report
<1>2. /\ ModuleOK /\ currentFunction = Invalid /\ Below = << >> /\ fr \in ScriptFrames
  BY <1>1, ScriptFound
<1>3. diags' \subseteq Reports
  BY <1>1, <1>2 DEF ModuleOK, Reports
<1>4. Grows
  BY <1>1, <1>2, <1>3, Stays
<1> HIDE DEF fr
<1>5. stack' = <<fr>> /\ call' = Null /\ returned' = Invalid /\ currentFunction' = Invalid
  BY <1>1, <1>2, ShortAppend DEF Resume
<1>6. QED
  BY <1>2, <1>4, <1>5, ScriptStack DEF BuilderInv, Grows

LEMMA EndScriptKeeps ==
    ASSUME BuilderInv, EndScript PROVE BuilderInv'
<1>1. /\ At("script") /\ Leave(Invalid)
      /\ UNCHANGED <<script, arena, diags, scopes, currentFunction>>
  BY DEF EndScript
<1>2. ModuleOK /\ currentFunction = Invalid /\ Below = << >> /\ call = Null
  BY <1>1, ScriptFound
<1>3. Grows
  BY <1>1, <1>2, Stays DEF ModuleOK
<1>4. stack' = << >> /\ call' = Null /\ returned' = Invalid /\ currentFunction' = Invalid
  BY <1>1, <1>2 DEF Leave
<1>5. StackOK' /\ ContextOK' /\ ControlOK' /\ PendingOK'
  BY <1>4 DEF StackOK, Linked, ContextOK, ControlOK, PendingOK
<1>6. QED
  BY <1>3, <1>5 DEF BuilderInv, Grows

LEMMA FunctionFound ==
    ASSUME BuilderInv, NEW point \in {"parameters", "body"}, At(point)
    PROVE  /\ ModuleOK /\ call = Null /\ Top.at = point
           /\ Top \in IF point = "parameters" THEN ParameterFrames(Len(functions))
                                              ELSE BodyFrames(Len(functions))
           /\ Top.function \in 1..Len(functions) /\ currentFunction = Top.function
           /\ Top.prev = Invalid
           /\ Settled(Top, returned, Len(blocks), Len(statements), Len(exprs))
           /\ stack[2] = Top /\ stack[1] \in ScriptFrames /\ Below = <<stack[1]>>
           /\ Len(stack) = 2
<1>1. /\ ModuleOK /\ stack # << >> /\ call = Null /\ Top.at = point
      /\ Settled(Top, returned, Len(blocks), Len(statements), Len(exprs))
      /\ Top \in IF point = "parameters" THEN ParameterFrames(Len(functions))
                                         ELSE BodyFrames(Len(functions))
  BY AtFacts, FramesAt
<1>2. stack \in Seq(FramesNow) /\ Linked(stack)
  BY DEF BuilderInv, StackOK
<1>3. /\ Len(stack) \in Nat \ {0} /\ Len(Below) = Len(stack) - 1 /\ Below \in Seq(FramesNow)
      /\ \A i \in 1..Len(Below) : Below[i] = stack[i]
  BY <1>1, TopFacts DEF BuilderInv
<1>4. Len(stack) = 2
  BY <1>1, <1>2, <1>3, Levels DEF Top
<1>5. stack[2] = Top /\ Below = <<stack[1]>>
  BY <1>3, <1>4 DEF Top
<1>6. stack[1] \in ScriptFrames
  BY <1>2, <1>4, FramesAt DEF Linked, FramesNow
<1>7. currentFunction = Top.function
  BY <1>4, <1>5 DEF BuilderInv, ContextOK
<1>8. Top.function \in 1..Len(functions) /\ Top.prev = Invalid
  BY <1>1 DEF ParameterFrames, BodyFrames
<1>9. QED
  BY <1>1, <1>4, <1>5, <1>6, <1>7, <1>8

LEMMA BuildBodyKeeps ==
    ASSUME BuilderInv, BuildBody PROVE BuilderInv'
<1> DEFINE fr == [at |-> "body", function |-> Top.function, prev |-> Top.prev]
<1>1. /\ At("parameters") /\ Resume(fr, Top.body)
      /\ UNCHANGED <<script, arena, diags, scopes, currentFunction>>
  BY DEF BuildBody
<1>2. /\ ModuleOK /\ Top \in ParameterFrames(Len(functions)) /\ currentFunction = Top.function
      /\ Top.function \in 1..Len(functions) /\ Top.prev = Invalid
      /\ stack[2] = Top /\ stack[1] \in ScriptFrames /\ Below = <<stack[1]>> /\ Len(stack) = 2
  BY <1>1, FunctionFound
<1>3. Grows
  BY <1>1, <1>2, Stays DEF ModuleOK
<1>4. stack' = <<stack[1], fr>> /\ call' = Top.body /\ returned' = Invalid
  BY <1>1, <1>2, ShortAppend DEF Resume
<1>5. functions' = functions /\ currentFunction' = currentFunction
  BY <1>1 DEF arena
<1>6. /\ fr \in BodyFrames(Len(functions')) /\ fr.at = "body" /\ fr.function = Top.function
      /\ Wants(fr) = "block"
  BY <1>2, <1>5 DEF BodyFrames, Wants
<1>7. Top.body \in NodesFor("block")
  BY <1>2 DEF ParameterFrames, NodesFor
<1> HIDE DEF fr
<1>8. fr \in FramesNow'
  BY <1>6, Zenon DEF FramesNow, Frames
<1>9. Waits(fr, call')
  BY <1>4, <1>6, <1>7, ExprSort DEF Waits
<1>10. StackOK' /\ ContextOK' /\ ControlOK' /\ Len(stack') = 2 /\ stack'[2] = fr
  BY <1>2, <1>4, <1>5, <1>6, <1>8, <1>9, FunctionStack
<1>11. PendingOK'
  BY <1>2, <1>5, <1>6, <1>10 DEF BuilderInv, PendingOK
<1>12. QED
  BY <1>3, <1>10, <1>11 DEF BuilderInv, Grows

LEMMA DeclareParameterKeeps ==
    ASSUME BuilderInv, Len(scopes) >= 1, DeclareParameter PROVE BuilderInv'
<1> DEFINE f == Top.function
           k == Top.next
           parameters == functions[f].parameters
           p == parameters[k]
           id == Len(symbols) + 1
           fr == [Top EXCEPT !.next = @ + 1]
<1>1. /\ At("parameters") /\ k \in DOMAIN parameters /\ Resume(fr, Null)
      /\ UNCHANGED <<script, types, blocks, statements, exprs, diags, currentFunction>>
  BY DEF DeclareParameter
<1>2. /\ ModuleOK /\ Top \in ParameterFrames(Len(functions)) /\ currentFunction = f
      /\ f \in 1..Len(functions) /\ Top.prev = Invalid
      /\ stack[2] = Top /\ stack[1] \in ScriptFrames /\ Below = <<stack[1]>> /\ Len(stack) = 2
  BY <1>1, FunctionFound
<1>3. stack' = <<stack[1], fr>> /\ call' = Null /\ returned' = Invalid
  BY <1>1, <1>2, ShortAppend DEF Resume
<1>4. /\ fr \in ParameterFrames(Len(functions)) /\ fr.at = "parameters" /\ fr.function = f
      /\ fr.next = k + 1 /\ k \in Nat
  <2>1. PICK n \in Ids, b \in BlockNodes : Top = [at |-> "parameters", function |-> f,
            next |-> n, body |-> b, prev |-> Invalid]
    BY <1>2 DEF ParameterFrames
  <2>2. fr = [at |-> "parameters", function |-> f, next |-> n + 1, body |-> b, prev |-> Invalid]
        /\ k = n
    BY <2>1
  <2>3. n + 1 \in Ids /\ n \in Nat
    BY <2>1 DEF Ids, Invalid
  <2>4. QED
    BY <1>2, <2>1, <2>2, <2>3 DEF ParameterFrames
<1>5. /\ Len(types) \in Nat /\ Len(symbols) \in Nat /\ Len(functions) \in Nat
      /\ Len(blocks) \in Nat /\ Len(statements) \in Nat /\ Len(exprs) \in Nat
  BY <1>2, Lengths
<1>6. /\ functions[f] \in FunctionEntry
      /\ FunctionOK(functions[f], Len(types), Len(symbols), Len(blocks))
  BY <1>2 DEF ModuleOK, FunctionsOK, FunctionOK
<1>7. parameters \in Seq(ParameterEntry)
  BY <1>6 DEF FunctionEntry
<1>8. /\ ParameterOK(p, Len(types), Len(symbols)) /\ p.name \in STRING /\ p \in ParameterEntry
      /\ p.type \in 1..Len(types) /\ DOMAIN parameters = 1..Len(parameters)
      /\ k \in 1..Len(parameters)
  <2>1. DOMAIN parameters = 1..Len(parameters)
    BY <1>7
  <2>2. k \in 1..Len(parameters)
    BY <1>1, <2>1
  <2>3. ParameterOK(p, Len(types), Len(symbols))
    BY <1>6, <2>2 DEF FunctionOK
  <2> HIDE DEF p
  <2>4. QED
    BY <2>1, <2>2, <2>3 DEF ParameterOK, ParameterEntry
<1>9. PendingAt(k, functions[f])
  BY <1>1, <1>2 DEF BuilderInv, PendingOK, PendingAt, At
<1> HIDE DEF fr
<1>10. CASE p.name = ""
  <2>1. symbols' = symbols /\ functions' = functions /\ scopes' = scopes
    BY <1>10 DEF DeclareParameter
  <2>2. Grows
    BY <1>1, <1>2, <2>1, Stays DEF ModuleOK, arena
  <2>3. fr \in FramesNow'
    BY <1>4, <2>1, Zenon DEF FramesNow, Frames
  <2>4. PendingAt(k + 1, functions'[f])
    BY <1>4, <1>7, <1>9, <2>1 DEF PendingAt
  <2>5. QED
    BY <1>2, <1>3, <1>4, <2>1, <2>2, <2>3, <2>4, ParameterStack, <1>1 DEF Grows
<1>11. CASE p.name # ""
  <2> DEFINE symbol == Symbol("Parameter", p.name, p.type, Invalid)
             g == [functions[f] EXCEPT !.parameters[k].symbol = id]
  <2>1. /\ symbols' = Append(symbols, symbol) /\ scopes' = Declared(p.name, id)
        /\ functions' = [functions EXCEPT ![f] = g]
    BY <1>11 DEF DeclareParameter
  <2>2. SymbolsOK(symbols', Len(types), Len(functions)) /\ Len(symbols') = Len(symbols) + 1
    <3> HIDE DEF p
    <3>1. SymbolOK(symbol, Len(types), Len(functions))
      BY <1>5, <1>8 DEF SymbolOK, SymbolEntry, Symbol, Ids, Invalid
    <3>2. SymbolsOK(symbols, Len(types), Len(functions))
      BY <1>2 DEF ModuleOK
    <3> HIDE DEF symbol
    <3>3. QED
      BY <2>1, <3>1, <3>2, AppendSymbol
  <2>3. scopes' \in Seq(Scope(Len(symbols')))
    <3>1. Len(symbols') \in Nat /\ Len(symbols) <= Len(symbols') /\ id \in 1..Len(symbols')
      BY <1>5, <2>2
    <3>2. scopes \in Seq(Scope(Len(symbols')))
      BY <1>2, <1>5, <3>1, ScopesStay DEF ModuleOK
    <3> HIDE DEF id, p
    <3>3. QED
      BY <1>8, <2>1, <3>1, <3>2, DeclaredOK
  <2>4. /\ FunctionOK(g, Len(types), Len(symbols'), Len(blocks))
        /\ g.parameters \in Seq(ParameterEntry)
        /\ \A j \in DOMAIN g.parameters :
              j # k => g.parameters[j].symbol = parameters[j].symbol
        /\ Len(g.parameters) = Len(parameters) /\ g.body = functions[f].body
    <3> DEFINE q == [p EXCEPT !.symbol = id]
               ps == [parameters EXCEPT ![k] = q]
    <3>1. g = [functions[f] EXCEPT !.parameters = ps]
      OBVIOUS
    <3>2. q \in ParameterEntry /\ q.type = p.type /\ q.symbol = id
      <4> HIDE DEF p
      <4>1. id \in Nat
        BY <1>5
      <4> HIDE DEF id
      <4>2. QED
        BY <1>8, <4>1 DEF ParameterEntry
    <3> HIDE DEF q
    <3>3. /\ ps \in Seq(ParameterEntry) /\ Len(ps) = Len(parameters) /\ ps[k] = q
          /\ \A j \in 1..Len(parameters) : j # k => ps[j] = parameters[j]
      <4> HIDE DEF p, q
      <4>1. parameters \in Seq(ParameterEntry) /\ k \in 1..Len(parameters)
        BY <1>7, <1>8
      <4>2. QED
        BY <3>2, <4>1
    <3> HIDE DEF ps, g
    <3>8. ParameterOK(q, Len(types), Len(symbols'))
      <4>1. id \in 0..Len(symbols')
        BY <1>5, <2>2
      <4> HIDE DEF id, p
      <4>2. QED
        BY <1>8, <3>2, <4>1 DEF ParameterOK
    <3>4. /\ g \in FunctionEntry /\ g.parameters = ps
          /\ g.returnType = functions[f].returnType /\ g.body = functions[f].body
          /\ g.symbol = functions[f].symbol /\ g.functionType = functions[f].functionType
      BY <1>6, <3>1, <3>3 DEF FunctionEntry
    <3>5. \A j \in 1..Len(ps) : ParameterOK(ps[j], Len(types), Len(symbols'))
      <4>1. SUFFICES ASSUME NEW j \in 1..Len(ps)
                     PROVE  ParameterOK(ps[j], Len(types), Len(symbols'))
        OBVIOUS
      <4>2. CASE j = k
        BY <3>3, <3>8, <4>2
      <4>3. CASE j # k
        <5>1. ps[j] = parameters[j] /\ j \in 1..Len(parameters)
          BY <3>3, <4>3
        <5>2. ParameterOK(parameters[j], Len(types), Len(symbols))
          BY <1>6, <5>1 DEF FunctionOK
        <5>3. UpTo(Len(symbols), Len(symbols'))
          BY <1>5, <2>2 DEF UpTo
        <5>4. QED
          BY <5>1, <5>2, <5>3, ParameterStays
      <4>4. QED
        BY <4>2, <4>3
    <3>6. FunctionOK(g, Len(types), Len(symbols'), Len(blocks))
      BY <1>5, <1>6, <2>2, <3>4, <3>5, SMTT(30) DEF FunctionOK
    <3>7. QED
      BY <3>3, <3>4, <3>6
  <2> HIDE DEF g, symbol
  <2>5. FunctionsOK(functions', Len(types), Len(symbols'), Len(blocks)) /\ functions'[f] = g
        /\ Len(functions') = Len(functions)
    <3>1. /\ UpTo(Len(symbols), Len(symbols')) /\ UpTo(Len(blocks), Len(blocks))
          /\ UpTo(Len(types), Len(types))
      BY <1>5, <2>2 DEF UpTo
    <3>2. FunctionsOK(functions, Len(types), Len(symbols'), Len(blocks))
      BY <1>2, <1>5, <3>1, FunctionsStay DEF ModuleOK
    <3>3. Replaces(functions', functions, f, g)
      BY <1>2, <2>1 DEF Replaces
    <3> HIDE DEF f
    <3>4. QED
      BY <2>4, <3>2, <3>3, FunctionReplaced
  <2>6. ModuleOK'
    <3>1. /\ UpTo(Len(symbols), Len(symbols')) /\ UpTo(Len(blocks), Len(blocks))
          /\ UpTo(Len(exprs), Len(exprs)) /\ UpTo(Len(types), Len(types))
          /\ UpTo(Len(functions), Len(functions))
      BY <1>5, <2>2 DEF UpTo
    <3>2. StatementsOK(statements, Len(symbols'), Len(blocks), Len(exprs))
      BY <1>2, <3>1, StatementsStay DEF ModuleOK
    <3>3. ExprsOK(exprs, Len(types), Len(symbols'), Len(functions))
      BY <1>2, <3>1, ExprsStay DEF ModuleOK
    <3> HIDE DEF id, p, parameters, f, k
    <3>4. QED
      BY <1>1, <1>2, <2>2, <2>3, <2>5, <3>2, <3>3 DEF ModuleOK
  <2>7. fr \in FramesNow'
    BY <1>4, <2>5, Zenon DEF FramesNow, Frames
  <2>8. PendingAt(k + 1, functions'[f])
    <3>1. DOMAIN g.parameters = 1..Len(parameters)
      BY <2>4
    <3>2. g.body = Invalid
      BY <1>9, <2>4 DEF PendingAt
    <3>3. SUFFICES ASSUME NEW j \in 1..Len(parameters), j >= k + 1
                   PROVE  g.parameters[j].symbol = Invalid
      BY <2>5, <3>1, <3>2, Zenon DEF PendingAt
    <3>4. j # k /\ j >= k
      BY <1>4, <3>3
    <3>5. parameters[j].symbol = Invalid
      BY <1>8, <1>9, <3>4 DEF PendingAt
    <3>6. QED
      BY <2>4, <3>1, <3>4, <3>5
  <2>9. QED
    BY <1>1, <1>2, <1>3, <1>4, <2>6, <2>7, <2>8, ParameterStack
<1>12. QED
  BY <1>10, <1>11

LEMMA EndFunctionKeeps ==
    ASSUME BuilderInv, EndFunction PROVE BuilderInv'
<1> DEFINE f == Top.function
           g == [functions[f] EXCEPT !.body = returned]
<1>1. /\ At("body") /\ functions' = [functions EXCEPT ![f] = g]
      /\ scopes' = Popped /\ currentFunction' = Top.prev /\ Leave(Invalid)
      /\ UNCHANGED <<script, types, symbols, blocks, statements, exprs, diags>>
  BY DEF EndFunction
<1>2. /\ ModuleOK /\ Top.at = "body" /\ call = Null
      /\ f \in 1..Len(functions) /\ Top.prev = Invalid
      /\ Settled(Top, returned, Len(blocks), Len(statements), Len(exprs))
      /\ stack[1] \in ScriptFrames /\ Below = <<stack[1]>>
  BY <1>1, FunctionFound
<1>3. returned \in 1..Len(blocks) /\ Len(blocks) \in Nat
  BY <1>2, Lengths DEF Settled, Wants, IdsFor
<1>4. /\ functions[f] \in FunctionEntry
      /\ FunctionOK(functions[f], Len(types), Len(symbols), Len(blocks))
  BY <1>2 DEF ModuleOK, FunctionsOK, FunctionOK
<1>5. /\ g \in FunctionEntry /\ g.body = returned
      /\ g.returnType = functions[f].returnType /\ g.parameters = functions[f].parameters
      /\ g.symbol = functions[f].symbol /\ g.functionType = functions[f].functionType
  BY <1>3, <1>4 DEF FunctionEntry
<1> HIDE DEF g
<1>6. FunctionOK(g, Len(types), Len(symbols), Len(blocks))
  BY <1>3, <1>4, <1>5 DEF FunctionOK
<1>7. FunctionsOK(functions', Len(types), Len(symbols), Len(blocks))
      /\ Len(functions') = Len(functions)
  <2>1. FunctionsOK(functions, Len(types), Len(symbols), Len(blocks))
    BY <1>2 DEF ModuleOK
  <2>2. Replaces(functions', functions, f, g)
    BY <1>1, <1>2 DEF Replaces
  <2> HIDE DEF f
  <2>3. QED
    BY <1>6, <2>1, <2>2, FunctionReplaced
<1>8. ModuleOK'
  <2>1. scopes' \in Seq(Scope(Len(symbols)))
    BY <1>1, <1>2, PoppedOK DEF ModuleOK
  <2> HIDE DEF f
  <2>2. QED
    BY <1>1, <1>2, <1>7, <2>1 DEF ModuleOK
<1>9. stack' = <<stack[1]>> /\ call' = Null /\ returned' = Invalid /\ currentFunction' = Invalid
  BY <1>1, <1>2 DEF Leave
<1>10. QED
  BY <1>2, <1>8, <1>9, ScriptStack DEF BuilderInv

LEMMA BuildFunctionKeeps ==
    ASSUME BuilderInv, Len(scopes) >= 1, BuildFunction PROVE BuilderInv'
<1> DEFINE n == script[Top.next]
           returnType == IF n.returnType = Null THEN voidType ELSE TypeOf(n.returnType)
           parameters == [i \in DOMAIN n.params |->
                            [name |-> n.params[i].name, type |-> TypeOf(n.params[i].type),
                             symbol |-> Invalid]]
           symbol == Len(symbols) + 1
           id == Len(functions) + 1
           caller == [Top EXCEPT !.next = @ + 1]
           type == [name |-> n.name, returnType |-> returnType]
           y == Symbol("Function", n.name, Len(types) + 1, id)
           g == Function(n.name, returnType, parameters, symbol)
           fr == [at |-> "parameters", function |-> id, next |-> 1, body |-> n.body,
                  prev |-> currentFunction]
<1>1. /\ At("script") /\ Top.next <= Len(script) /\ n.node = "Func"
      /\ types' = Append(types, type) /\ symbols' = Append(symbols, y)
      /\ functions' = Append(functions, g)
      /\ UNCHANGED <<script, blocks, statements, exprs, call, returned>>
  BY DEF BuildFunction
<1>2. PICK ts : diags' = diags \cup TypeReports(ts)
  BY DEF BuildFunction
<1>3. /\ ModuleOK /\ call = Null /\ returned = Invalid /\ currentFunction = Invalid
      /\ Below = << >> /\ caller \in ScriptFrames /\ Top.next \in Nat \ {0}
  BY <1>1, ScriptFound
<1>4. /\ n.name \in STRING /\ n.params \in Seq(ParameterNode)
      /\ n.body \in BodyNodes
  <2>1. script \in Seq(ChildNodes) /\ Top.next \in 1..Len(script)
    BY <1>1, <1>3 DEF ModuleOK
  <2>2. n \in Nodes
    BY <2>1 DEF ChildNodes, NodesOf
  <2> HIDE DEF n
  <2>3. QED
    BY <1>1, <2>2, NodesAssumption DEF WellFormed
<1>5. /\ Len(types) \in Nat /\ Len(symbols) \in Nat /\ Len(functions) \in Nat
      /\ Len(blocks) \in Nat /\ Len(statements) \in Nat /\ Len(exprs) \in Nat
      /\ Len(types) >= 17
  BY <1>3, Lengths, BuiltinTypes DEF ModuleOK
<1>6. returnType \in 1..17
  BY BuiltinTypes, TypesOfNodes
<1> HIDE DEF n, caller
<1>7. /\ parameters \in Seq(ParameterEntry)
      /\ \A i \in DOMAIN parameters :
            parameters[i].type \in 1..17 /\ parameters[i].symbol = Invalid
      /\ DOMAIN parameters = 1..Len(parameters)
  <2> DEFINE ps == n.params
  <2>1. \A i \in 1..Len(ps) : TypeOf(ps[i].type) \in Ids
    <3>1. 1..17 \subseteq Ids
      BY DEF Ids, Invalid
    <3>2. QED
      BY <3>1, TypesOfNodes, Zenon
  <2>2. DOMAIN ps = 1..Len(ps) /\ Len(ps) \in Nat /\ \A i \in 1..Len(ps) : ps[i].name \in STRING
    <3>1. ps \in Seq(ParameterNode)
      BY <1>4
    <3> HIDE DEF ps
    <3>2. DOMAIN ps = 1..Len(ps) /\ Len(ps) \in Nat
      BY <3>1
    <3>3. \A i \in 1..Len(ps) : ps[i] \in ParameterNode
      BY <3>1, ElementOfSeq
    <3>4. QED
      BY <3>2, <3>3 DEF ParameterNode
  <2>3. \A i \in 1..Len(n.params) :
            [name |-> n.params[i].name, type |-> TypeOf(n.params[i].type), symbol |-> Invalid]
                \in ParameterEntry
    BY <2>1, <2>2 DEF ParameterEntry, Invalid
  <2>4. parameters \in [1..Len(n.params) -> ParameterEntry]
    BY <2>2, <2>3, Zenon
  <2>5. \A i \in 1..Len(n.params) :
            parameters[i].type \in 1..17 /\ parameters[i].symbol = Invalid
    BY <2>2, TypesOfNodes
  <2>6. DOMAIN parameters = 1..Len(n.params)
    BY <2>2
  <2> HIDE DEF parameters
  <2>7. parameters \in Seq(ParameterEntry) /\ DOMAIN parameters = 1..Len(parameters)
    <3> HIDE DEF ps
    <3>1. Len(ps) \in Nat /\ parameters \in [1..Len(ps) -> ParameterEntry]
      BY <2>2, <2>4 DEF ps
    <3>2. QED
      BY <3>1
  <2>8. QED
    BY <2>5, <2>6, <2>7, Zenon
<1> HIDE DEF returnType, parameters
<1>8. types' \in Seq(TypeEntry) /\ Len(types') = Len(types) + 1
  <2>1. type \in TypeEntry
    BY <1>4, <1>6 DEF TypeEntry, Texts
  <2> HIDE DEF type
  <2>2. QED
    BY <1>1, <1>3, <2>1 DEF ModuleOK
<1>9. Len(functions') = Len(functions) + 1 /\ functions'[id] = g
  <2>1. functions \in Seq(FunctionEntry)
    BY <1>3 DEF ModuleOK, FunctionsOK
  <2> HIDE DEF g
  <2>2. QED
    BY <1>1, <2>1
<1>10. SymbolsOK(symbols', Len(types'), Len(functions')) /\ Len(symbols') = Len(symbols) + 1
  <2>1. UpTo(Len(types), Len(types')) /\ UpTo(Len(functions), Len(functions'))
    BY <1>5, <1>8, <1>9 DEF UpTo
  <2>2. SymbolsOK(symbols, Len(types'), Len(functions'))
    BY <1>3, <2>1, SymbolsStay DEF ModuleOK
  <2>3. SymbolOK(y, Len(types'), Len(functions'))
    BY <1>4, <1>5, <1>8, <1>9 DEF SymbolOK, SymbolEntry, Symbol, Ids, Invalid
  <2> HIDE DEF y
  <2>4. QED
    BY <1>1, <2>2, <2>3, AppendSymbol
<1>11. FunctionsOK(functions', Len(types'), Len(symbols'), Len(blocks))
  <2>1. /\ UpTo(Len(types), Len(types')) /\ UpTo(Len(symbols), Len(symbols'))
        /\ UpTo(Len(blocks), Len(blocks))
    BY <1>5, <1>8, <1>10 DEF UpTo
  <2>2. FunctionsOK(functions, Len(types'), Len(symbols'), Len(blocks))
    BY <1>3, <2>1, FunctionsStay DEF ModuleOK
  <2>3. /\ returnType \in 1..Len(types') /\ Len(types) + 1 \in 1..Len(types')
        /\ symbol \in 1..Len(symbols') /\ Invalid \in 0..Len(blocks)
        /\ returnType \in Ids /\ Len(types) + 1 \in Ids /\ symbol \in Ids /\ Invalid \in Nat
    BY <1>5, <1>6, <1>8, <1>10 DEF Ids, Invalid
  <2>4. \A k \in 1..Len(parameters) : ParameterOK(parameters[k], Len(types'), Len(symbols'))
    <3>4. Len(types') \in Nat /\ Len(types') >= 17 /\ Len(symbols') \in Nat
      BY <1>5, <1>8, <1>10
    <3>1. 1..17 \subseteq 1..Len(types') /\ Invalid \in 0..Len(symbols')
      BY <3>4 DEF Invalid
    <3>2. \A k \in 1..Len(parameters) : parameters[k] \in ParameterEntry
      BY <1>7
    <3>3. QED
      BY <1>7, <3>1, <3>2, Zenon DEF ParameterOK
  <2> HIDE DEF symbol
  <2>5. FunctionOK(g, Len(types'), Len(symbols'), Len(blocks))
    BY <1>4, <1>7, <2>3, <2>4 DEF FunctionOK, FunctionEntry, Function
  <2> HIDE DEF g
  <2>6. QED
    BY <1>1, <2>2, <2>5, AppendFunction
<1>12. diags' \subseteq Reports
  BY <1>2, <1>3, ReportsAreStrings DEF ModuleOK
<1>13. /\ Declared(n.name, symbol) \in Seq(Scope(Len(symbols')))
  <2>1. Len(symbols') \in Nat /\ Len(symbols) <= Len(symbols') /\ symbol \in 1..Len(symbols')
    BY <1>5, <1>10
  <2>2. scopes \in Seq(Scope(Len(symbols')))
    BY <1>3, <1>5, <2>1, ScopesStay DEF ModuleOK
  <2> HIDE DEF symbol
  <2>3. QED
    BY <1>4, <2>1, <2>2, DeclaredOK
<1>14. ASSUME scopes' \in Seq(Scope(Len(symbols'))) PROVE ModuleOK'
  <2>1. /\ UpTo(Len(symbols), Len(symbols')) /\ UpTo(Len(blocks), Len(blocks))
        /\ UpTo(Len(exprs), Len(exprs)) /\ UpTo(Len(types), Len(types'))
        /\ UpTo(Len(functions), Len(functions'))
    BY <1>5, <1>8, <1>9, <1>10 DEF UpTo
  <2>2. StatementsOK(statements, Len(symbols'), Len(blocks), Len(exprs))
    BY <1>3, <2>1, StatementsStay DEF ModuleOK
  <2>3. ExprsOK(exprs, Len(types'), Len(symbols'), Len(functions'))
    BY <1>3, <2>1, ExprsStay DEF ModuleOK
  <2>4. Len(types') >= Len(Builtins)
    BY <1>5, <1>8, BuiltinTypes
  <2>5. /\ script' = script /\ blocks' = blocks /\ statements' = statements /\ exprs' = exprs
    BY <1>1
  <2> HIDE DEF type, y, g, symbol, id, fr
  <2>6. QED
    BY <1>3, <1>8, <1>10, <1>11, <1>12, <1>14, <2>2, <2>3, <2>4, <2>5, Zenon DEF ModuleOK
<1>15. CASE n.body = Null
  <2>1. /\ scopes' = Declared(n.name, symbol) /\ stack' = Append(Below, caller)
        /\ currentFunction' = currentFunction
    BY <1>15 DEF BuildFunction, n, caller
  <2>2. ModuleOK'
    BY <1>13, <1>14, <2>1
  <2>3. stack' = <<caller>> /\ call' = Null /\ returned' = Invalid /\ currentFunction' = Invalid
    BY <1>1, <1>3, <2>1, ShortAppend
  <2>4. QED
    BY <1>3, <2>2, <2>3, ScriptStack DEF BuilderInv
<1>16. CASE n.body # Null
  <2>1. /\ scopes' = Append(Declared(n.name, symbol), NoNames)
        /\ stack' = Below \o <<caller, fr>> /\ currentFunction' = id
    BY <1>16 DEF BuildFunction, n, caller
  <2>2. ModuleOK'
    <3>1. NoNames \in Scope(Len(symbols'))
      BY NoNamesOK
    <3>2. scopes' \in Seq(Scope(Len(symbols')))
      BY <1>13, <2>1, <3>1
    <3>3. QED
      BY <1>14, <3>2
  <2>3. /\ fr \in ParameterFrames(Len(functions')) /\ fr.at = "parameters"
        /\ fr.function = id /\ fr.next = 1
    BY <1>3, <1>4, <1>5, <1>9, <1>16 DEF ParameterFrames, BodyNodes, Ids, Invalid
  <2>4. PendingAt(1, functions'[id])
    BY <1>7, <1>9 DEF PendingAt, Function
  <2> HIDE DEF fr, id
  <2>5. fr \in FramesNow'
    BY <2>3, Zenon DEF FramesNow, Frames
  <2>6. stack' = <<caller, fr>>
    BY <1>3, <2>1
  <2>7. call' = Null /\ returned' = Invalid
    BY <1>1, <1>3
  <2>8. QED
    BY <1>3, <2>1, <2>2, <2>3, <2>4, <2>5, <2>6, <2>7, ParameterStack
<1>17. QED
  BY <1>15, <1>16

-----------------------------------------------------------------------------
(* The steps that declare a name need a scope to declare it in: here the   *)
(* scopes are counted.                                                     *)

(* The frames of functions that have opened a scope and not closed it yet. *)
Scoped == {"parameters", "body", "statements"}

Open(st) == {i \in 1..Len(st) : st[i].at \in Scoped}

Count(st) == Cardinality(Open(st))

Weight(fr) == IF fr.at \in Scoped THEN 1 ELSE 0

ScopesOK == Len(scopes) = 1 + Count(stack)

LEMMA CountTop ==
    ASSUME NEW S, NEW st \in Seq(S), NEW T, NEW below \in Seq(T), Len(st) = Len(below) + 1,
           \A i \in 1..Len(below) : st[i] = below[i]
    PROVE  /\ Count(below) \in Nat
           /\ Count(st) = Count(below) + Weight(st[Len(st)])
<1> DEFINE n == Len(below)
<1>1. n \in Nat /\ Len(st) = n + 1
  OBVIOUS
<1> HIDE DEF n
<1>2. IsFiniteSet(Open(below))
  <2>1. IsFiniteSet(1..n) /\ Open(below) \in SUBSET (1..n)
    BY <1>1, FS_Interval DEF Open, n
  <2>2. QED
    BY <2>1, FS_Subset
<1>3. n + 1 \notin Open(below)
  BY <1>1 DEF Open, n
<1>4. Open(st) = IF st[n + 1].at \in Scoped THEN Open(below) \cup {n + 1} ELSE Open(below)
  <2>1. 1..Len(st) = 1..n \cup {n + 1} /\ \A i \in 1..n : st[i] = below[i] /\ i # n + 1
    BY <1>1 DEF n
  <2>2. Open(below) = {i \in 1..n : st[i].at \in Scoped}
    BY <2>1 DEF Open, n
  <2>3. Open(st) = {i \in 1..n \cup {n + 1} : st[i].at \in Scoped}
    BY <2>1 DEF Open
  <2>4. QED
    BY <2>2, <2>3
<1>5. Cardinality(Open(below)) \in Nat
  BY <1>2, FS_CardinalityType
<1>6. Cardinality(Open(below) \cup {n + 1}) = Cardinality(Open(below)) + 1
  BY <1>2, <1>3, FS_AddElement
<1>7. QED
  BY <1>1, <1>4, <1>5, <1>6 DEF Count, Weight

LEMMA CountAppend ==
    ASSUME NEW S, NEW st \in Seq(S), NEW fr
    PROVE  Count(st) \in Nat /\ Count(Append(st, fr)) = Count(st) + Weight(fr)
<1>1. Append(st, fr) \in Seq(S \cup {fr}) /\ Len(Append(st, fr)) = Len(st) + 1
      /\ (\A i \in 1..Len(st) : Append(st, fr)[i] = st[i]) /\ Append(st, fr)[Len(st) + 1] = fr
  <2>1. st \in Seq(S \cup {fr}) /\ fr \in S \cup {fr}
    OBVIOUS
  <2>2. QED
    BY <2>1, AppendProperties
<1>2. QED
  BY <1>1, CountTop

(* What is on the stack below its top.                                     *)
LEMMA CountBelow ==
    ASSUME BuilderInv, stack # << >>
    PROVE  /\ Below \in Seq(FramesNow) /\ Count(Below) \in Nat
           /\ Count(stack) = Count(Below) + Weight(Top)
<1>1. /\ stack \in Seq(FramesNow) /\ Below \in Seq(FramesNow)
      /\ Len(stack) \in Nat \ {0} /\ Len(Below) = Len(stack) - 1
      /\ \A i \in 1..Len(Below) : Below[i] = stack[i]
  BY TopFacts DEF BuilderInv, StackOK
<1>2. Len(stack) = Len(Below) + 1
  BY <1>1
<1> HIDE DEF FramesNow
<1>3. QED
  BY <1>1, <1>2, CountTop DEF Top
-----------------------------------------------------------------------------
(* The kinds of step.                                                      *)
LEMMA ScopesSame ==
    ASSUME ScopesOK, stack' = stack, scopes' = scopes
    PROVE  ScopesOK'
BY DEF ScopesOK

LEMMA ScopesCall ==
    ASSUME BuilderInv, ScopesOK, stack # << >>, NEW fr, NEW node, CallFrom(fr, node),
           Len(scopes') = Len(scopes) + Weight(fr)
    PROVE  ScopesOK'
<1>1. stack \in Seq(FramesNow) /\ stack' = Append(stack, fr)
  BY DEF BuilderInv, StackOK, CallFrom
<1>2. Count(stack) \in Nat /\ Count(stack') = Count(stack) + Weight(fr)
  BY <1>1, CountAppend
<1>3. QED
  BY <1>2 DEF ScopesOK, Weight

LEMMA ScopesResume ==
    ASSUME BuilderInv, ScopesOK, stack # << >>, NEW fr, NEW node, Resume(fr, node),
           Len(scopes') = Len(scopes), fr.at \in Scoped <=> Top.at \in Scoped
    PROVE  ScopesOK'
<1>1. Below \in Seq(FramesNow) /\ Count(stack) = Count(Below) + Weight(Top)
  BY CountBelow
<1>2. stack' = Append(Below, fr)
  BY DEF Resume
<1>3. Count(stack') = Count(Below) + Weight(fr)
  BY <1>1, <1>2, CountAppend
<1>4. Weight(fr) = Weight(Top)
  BY DEF Weight
<1>5. QED
  BY <1>1, <1>3, <1>4 DEF ScopesOK

LEMMA ScopesLeave ==
    ASSUME BuilderInv, ScopesOK, stack # << >>, NEW id, Leave(id),
           Len(scopes') = Len(scopes) - Weight(Top)
    PROVE  ScopesOK'
<1>1. Count(Below) \in Nat /\ Count(stack) = Count(Below) + Weight(Top)
  BY CountBelow
<1>2. stack' = Below
  BY DEF Leave
<1>3. QED
  BY <1>1, <1>2 DEF ScopesOK, Weight

(* There is always a scope, and its number goes up and down by one.        *)
LEMMA ScopesCounted ==
    ASSUME BuilderInv, ScopesOK
    PROVE  /\ Len(scopes) \in Nat \ {0}
           /\ Len(Pushed) = Len(scopes) + 1 /\ Len(Popped) = Len(scopes) - 1
           /\ \A name, id : Len(Declared(name, id)) = Len(scopes)
<1>1. scopes \in Seq(Scope(Len(symbols))) /\ stack \in Seq(FramesNow)
  BY DEF BuilderInv, ModuleOK, StackOK
<1>2. Count(stack) \in Nat
  BY <1>1, CountAppend
<1>3. Len(scopes) \in Nat \ {0}
  BY <1>2 DEF ScopesOK
<1>4. Len(Pushed) = Len(scopes) + 1
  BY <1>1 DEF Pushed
<1>5. Len(Popped) = Len(scopes) - 1
  <2>1. Len(scopes) - 1 \in Nat /\ Len(scopes) - 1 < Len(scopes)
    BY <1>3
  <2>2. QED
    BY <1>1, <2>1, AllButLast DEF Popped
<1>6. \A name, id : Len(Declared(name, id)) = Len(scopes)
  BY <1>1 DEF Declared
<1>7. QED
  BY <1>3, <1>4, <1>5, <1>6
-----------------------------------------------------------------------------
(* The steps that leave the scopes alone.                                  *)
LEMMA StackOfCalled ==
    ASSUME BuilderInv, NEW kind, Called(kind), kind # "nullptr" PROVE stack # << >>
BY CalledIs, CalledFacts

LEMMA ReturnsKeepScopes ==
    ASSUME ScopesOK,
           \/ BuildOtherStatement \/ BuildOtherInitializer \/ BuildExprTerm
           \/ BuildOtherValue \/ BuildLiteral \/ BuildVarAccess
    PROVE  ScopesOK'
<1>1. stack' = stack /\ scopes' = scopes
  <2>1. CASE BuildOtherStatement
    BY <2>1 DEF BuildOtherStatement, Return
  <2>2. CASE BuildOtherInitializer
    BY <2>2 DEF BuildOtherInitializer, Return
  <2>3. CASE BuildExprTerm
    BY <2>3 DEF BuildExprTerm, TailCall
  <2>4. CASE BuildOtherValue
    BY <2>4 DEF BuildOtherValue, Return, AddsExpr
  <2>5. CASE BuildLiteral
    BY <2>5 DEF BuildLiteral, Return, AddsExpr
  <2>6. CASE BuildVarAccess
    BY <2>6 DEF BuildVarAccess, Return, AddsExpr
  <2>7. QED
    BY <2>1, <2>2, <2>3, <2>4, <2>5, <2>6
<1>2. QED
  BY <1>1, ScopesSame

LEMMA CallsKeepScopes ==
    ASSUME BuilderInv, ScopesOK,
           \/ BuildVarDecl \/ BuildExprStat \/ BuildReturn \/ BuildFuncCall
           \/ BuildAssign \/ BuildCondition \/ BuildExpr
    PROVE  ScopesOK'
<1>1. stack # << >>
  BY StackOfCalled DEF BuildVarDecl, BuildExprStat, BuildReturn, BuildFuncCall, BuildAssign,
                       BuildCondition, BuildExpr
<1>2. scopes' = scopes
  BY DEF BuildVarDecl, BuildExprStat, BuildReturn, BuildFuncCall, BuildAssign, BuildCondition,
         BuildExpr
<1>3. ASSUME NEW fr, NEW node, CallFrom(fr, node), fr.at \notin Scoped PROVE ScopesOK'
  <2>1. Len(scopes') = Len(scopes) + Weight(fr)
    <3>1. Weight(fr) = 0
      BY <1>3 DEF Weight
    <3>2. Len(scopes) \in Nat
      BY ScopesCounted
    <3>3. QED
      BY <1>2, <3>1, <3>2
  <2>2. QED
    BY <1>1, <1>3, <2>1, ScopesCall
<1>4. ASSUME NEW node, TailCall(node) PROVE ScopesOK'
  BY <1>2, <1>4, ScopesSame DEF TailCall
<1>5. CASE BuildVarDecl
  <2>1. PICK fr, node : CallFrom(fr, node) /\ fr.at = "declarators"
    BY <1>5 DEF BuildVarDecl
  <2>2. QED
    BY <1>3, <2>1 DEF Scoped
<1>6. CASE BuildExprStat
  <2>1. PICK fr, node : CallFrom(fr, node) /\ fr.at = "exprStat"
    BY <1>6 DEF BuildExprStat
  <2>2. QED
    BY <1>3, <2>1 DEF Scoped
<1>7. CASE BuildReturn
  <2>1. PICK fr, node : CallFrom(fr, node) /\ fr.at = "return"
    BY <1>7 DEF BuildReturn
  <2>2. QED
    BY <1>3, <2>1 DEF Scoped
<1>8. CASE BuildFuncCall
  <2> DEFINE fr == [at |-> "arguments", function |-> Callee(call.name), rest |-> call.args,
                    args |-> << >>]
  <2>1. CallFrom(fr, Null)
    BY <1>8 DEF BuildFuncCall
  <2>2. fr.at \notin Scoped
    BY DEF Scoped
  <2> HIDE DEF fr
  <2>3. QED
    BY <1>3, <2>1, <2>2
<1>9. CASE BuildAssign
  <2>1. CASE call.rhs = Null
    BY <1>4, <1>9, <2>1 DEF BuildAssign
  <2>2. CASE call.rhs # Null
    <3>1. PICK fr, node : CallFrom(fr, node) /\ fr.at = "lhs"
      BY <1>9, <2>2 DEF BuildAssign
    <3>2. QED
      BY <1>3, <3>1 DEF Scoped
  <2>3. QED
    BY <2>1, <2>2
<1>10. CASE BuildCondition
  <2>1. CASE call.thenExpr = Null
    BY <1>4, <1>10, <2>1 DEF BuildCondition
  <2>2. CASE call.thenExpr # Null
    <3>1. PICK fr, node : CallFrom(fr, node) /\ fr.at = "ternary"
      BY <1>10, <2>2 DEF BuildCondition
    <3>2. QED
      BY <1>3, <3>1 DEF Scoped
  <2>3. QED
    BY <2>1, <2>2
<1>11. CASE BuildExpr
  <2>1. CASE call.rest = << >>
    BY <1>4, <1>11, <2>1 DEF BuildExpr
  <2>2. CASE call.rest # << >>
    <3> DEFINE fr == [at |-> "operands", acc |-> Invalid, op |-> "", rest |-> call.rest]
    <3>1. CallFrom(fr, call.first)
      BY <1>11, <2>2 DEF BuildExpr
    <3>2. fr.at \notin Scoped
      BY DEF Scoped
    <3> HIDE DEF fr
    <3>3. QED
      BY <1>3, <3>1, <3>2
  <2>3. QED
    BY <2>1, <2>2
<1>12. QED
  BY <1>5, <1>6, <1>7, <1>8, <1>9, <1>10, <1>11

LEMMA LeavesKeepScopes ==
    ASSUME BuilderInv, ScopesOK,
           \/ Initialize \/ EndVarDecl \/ EndExprStat \/ EndReturn
           \/ Assign \/ CompoundAssign \/ EndTernary \/ EndFuncCall \/ EndScript
    PROVE  ScopesOK'
<1>1. stack # << >>
  BY DEF At, Initialize, EndVarDecl, EndExprStat, EndReturn, Assign, CompoundAssign, EndTernary,
         EndFuncCall, EndScript
<1>2. scopes' = scopes
  BY DEF AddsExpr, Initialize, EndVarDecl, EndExprStat, EndReturn, Assign, CompoundAssign,
         EndTernary, EndFuncCall, EndScript
<1>3. Top.at \notin Scoped
  BY DEF At, Scoped, Initialize, EndVarDecl, EndExprStat, EndReturn, Assign, CompoundAssign,
         EndTernary, EndFuncCall, EndScript
<1>4. \E id : Leave(id)
  <2>1. CASE Initialize
    BY <2>1 DEF Initialize
  <2>2. CASE EndVarDecl
    BY <2>2 DEF EndVarDecl
  <2>3. CASE EndExprStat
    BY <2>3 DEF EndExprStat
  <2>4. CASE EndReturn
    BY <2>4 DEF EndReturn
  <2>5. CASE Assign
    BY <2>5 DEF Assign
  <2>6. CASE CompoundAssign
    BY <2>6 DEF CompoundAssign
  <2>7. CASE EndTernary
    BY <2>7 DEF EndTernary
  <2>8. CASE EndFuncCall
    BY <2>8 DEF EndFuncCall
  <2>9. CASE EndScript
    BY <2>9 DEF EndScript
  <2>10. QED
    BY <2>1, <2>2, <2>3, <2>4, <2>5, <2>6, <2>7, <2>8, <2>9
<1>5. Len(scopes') = Len(scopes) - Weight(Top)
  BY <1>2, <1>3, ScopesCounted DEF Weight
<1>6. QED
  BY <1>1, <1>4, <1>5, ScopesLeave

LEMMA ResumesKeepScopes ==
    ASSUME BuilderInv, ScopesOK,
           \/ BuildOtherChild \/ BuildBody \/ NextStatement \/ BuildRhs
           \/ TakeOperand \/ NextArgument \/ TakeArgument
    PROVE  ScopesOK'
<1>1. scopes' = scopes
  BY DEF AddsExpr, BuildOtherChild, BuildBody, NextStatement, BuildRhs, TakeOperand, NextArgument,
         TakeArgument
<1>2. Len(scopes') = Len(scopes)
  BY <1>1
<1>3. ASSUME NEW fr, NEW node, Resume(fr, node), stack # << >>,
             fr.at \in Scoped <=> Top.at \in Scoped
      PROVE  ScopesOK'
  BY <1>2, <1>3, ScopesResume
<1>4. CASE BuildOtherChild
  <2> DEFINE fr == [Top EXCEPT !.next = @ + 1]
  <2>1. At("script") /\ Resume(fr, Null)
    BY <1>4 DEF BuildOtherChild
  <2>2. stack # << >> /\ Top.at = "script" /\ fr.at = "script"
    BY <2>1, ScriptFound DEF At, ScriptFrames
  <2> HIDE DEF fr
  <2>3. QED
    BY <1>3, <2>1, <2>2
<1>5. CASE BuildBody
  <2> DEFINE fr == [at |-> "body", function |-> Top.function, prev |-> Top.prev]
  <2>1. At("parameters") /\ Resume(fr, Top.body)
    BY <1>5 DEF BuildBody
  <2>2. stack # << >> /\ Top.at \in Scoped /\ fr.at \in Scoped
    BY <2>1 DEF At, Scoped
  <2> HIDE DEF fr
  <2>3. QED
    BY <1>3, <2>1, <2>2
<1>6. CASE NextStatement
  <2> DEFINE fr == [at |-> "statements", rest |-> Tail(Top.rest), statements |-> Taken,
                    isBody |-> Top.isBody]
  <2>1. At("statements") /\ Resume(fr, Head(Top.rest))
    BY <1>6 DEF NextStatement
  <2>2. stack # << >> /\ Top.at \in Scoped /\ fr.at \in Scoped
    BY <2>1 DEF At, Scoped
  <2> HIDE DEF fr
  <2>3. QED
    BY <1>3, <2>1, <2>2
<1>7. CASE BuildRhs
  <2> DEFINE fr == [at |-> "rhs", op |-> Top.op, lhs |-> returned]
  <2>1. At("lhs") /\ Resume(fr, Top.rhs)
    BY <1>7 DEF BuildRhs
  <2>2. stack # << >> /\ Top.at \notin Scoped /\ fr.at \notin Scoped
    BY <2>1 DEF At, Scoped
  <2> HIDE DEF fr
  <2>3. QED
    BY <1>3, <2>1, <2>2
<1>8. CASE TakeOperand
  <2> DEFINE acc == IF Top.op = "" THEN returned ELSE Len(exprs) + 1
             fr == [at |-> "operands", acc |-> acc, op |-> Head(Top.rest).op,
                    rest |-> Tail(Top.rest)]
  <2>1. /\ At("operands")
        /\ IF Top.rest = << >> THEN Leave(acc) ELSE Resume(fr, Head(Top.rest).term)
    BY <1>8 DEF TakeOperand
  <2>2. stack # << >> /\ Top.at \notin Scoped /\ fr.at \notin Scoped
    BY <2>1 DEF At, Scoped
  <2> HIDE DEF fr, acc
  <2>3. CASE Top.rest = << >>
    <3>1. Len(scopes') = Len(scopes) - Weight(Top)
      BY <1>2, <2>2, ScopesCounted DEF Weight
    <3>2. QED
      BY <2>1, <2>2, <2>3, <3>1, ScopesLeave
  <2>4. CASE Top.rest # << >>
    BY <1>3, <2>1, <2>2, <2>4
  <2>5. QED
    BY <2>3, <2>4
<1>9. CASE NextArgument
  <2>1. /\ At("arguments")
        /\ \/ Resume([at |-> "arguments", function |-> Top.function, rest |-> Tail(Top.rest),
                      args |-> Append(Top.args, Len(exprs) + 1)], Null)
           \/ Resume([Top EXCEPT !.rest = Tail(@)], Head(Top.rest))
    BY <1>9 DEF NextArgument
  <2>2. stack # << >> /\ Top.at \notin Scoped
    BY <2>1 DEF At, Scoped
  <2>3. ASSUME NEW rest, NEW args, NEW node,
               Resume([at |-> "arguments", function |-> Top.function, rest |-> rest,
                       args |-> args], node)
        PROVE  ScopesOK'
    <3> DEFINE fr == [at |-> "arguments", function |-> Top.function, rest |-> rest,
                      args |-> args]
    <3>1. fr.at \notin Scoped /\ Resume(fr, node)
      BY <2>3 DEF Scoped
    <3> HIDE DEF fr
    <3>2. QED
      BY <1>3, <2>2, <3>1
  <2>4. [Top EXCEPT !.rest = Tail(@)] =
            [at |-> "arguments", function |-> Top.function, rest |-> Tail(Top.rest),
             args |-> Top.args]
    BY <2>1, ArgumentFrameIs
  <2>5. QED
    BY <2>1, <2>3, <2>4
<1>10. CASE TakeArgument
  <2>1. At("arguments") /\ \E args : Resume([Top EXCEPT !.args = args], Null)
    BY <1>10 DEF TakeArgument
  <2>2. stack # << >> /\ Top.at \notin Scoped
    BY <2>1 DEF At, Scoped
  <2>3. PICK args : Resume([Top EXCEPT !.args = args], Null)
    BY <2>1
  <2> DEFINE fr == [at |-> "arguments", function |-> Top.function, rest |-> Top.rest,
                    args |-> args]
  <2>4. [Top EXCEPT !.args = args] = fr
    BY <2>1, ArgumentFrameIs
  <2>5. fr.at \notin Scoped /\ Resume(fr, Null)
    BY <2>3, <2>4 DEF Scoped
  <2> HIDE DEF fr
  <2>6. QED
    BY <1>3, <2>2, <2>5
<1>11. QED
  BY <1>4, <1>5, <1>6, <1>7, <1>8, <1>9, <1>10
-----------------------------------------------------------------------------
(* The steps that declare a name, and those that open or close a scope.    *)
LEMMA DeclareParameterScopes ==
    ASSUME BuilderInv, ScopesOK, DeclareParameter PROVE ScopesOK'
<1> DEFINE fr == [Top EXCEPT !.next = @ + 1]
<1>1. At("parameters") /\ Resume(fr, Null)
  BY DEF DeclareParameter
<1>2. Top \in ParameterFrames(Len(functions)) /\ Top.at = "parameters" /\ stack # << >>
  BY <1>1, AtFacts, FramesAt
<1>3. fr.at = "parameters"
  BY <1>2 DEF ParameterFrames
<1>4. Len(scopes') = Len(scopes)
  <2>1. \/ scopes' = scopes
        \/ \E name, id : scopes' = Declared(name, id)
    BY DEF DeclareParameter
  <2>2. QED
    BY <2>1, ScopesCounted
<1> HIDE DEF fr
<1>5. QED
  BY <1>1, <1>2, <1>3, <1>4, ScopesResume

LEMMA NextDeclaratorScopes ==
    ASSUME BuilderInv, ScopesOK, NextDeclarator PROVE ScopesOK'
<1>1. /\ At("declarators") /\ stack # << >> /\ Top.at = "declarators"
      /\ \E name, id : scopes' = Declared(name, id)
  BY DEF NextDeclarator, DeclareSymbol, At
<1>2. PICK a, b : stack' = Below \o <<a, b>> /\ a.at = "declarators" /\ b.at = "initializer"
  <2> DEFINE a == [at |-> "declarators", rest |-> Tail(Top.rest), statements |-> Taken,
                   type |-> Top.type]
             b == [at |-> "initializer", symbol |-> Len(symbols) + 1, type |-> Top.type]
  <2>1. stack' = Below \o <<a, b>>
    BY DEF NextDeclarator
  <2>2. a.at = "declarators" /\ b.at = "initializer"
    OBVIOUS
  <2> HIDE DEF a, b
  <2>3. QED
    BY <2>1, <2>2
<1>3. /\ Below \in Seq(FramesNow) /\ Count(Below) \in Nat
      /\ Count(stack) = Count(Below) + Weight(Top)
  BY <1>1, CountBelow
<1>4. Count(stack') = Count(Below) + Weight(a) + Weight(b)
  <2>1. Below \o <<a, b>> = Append(Append(Below, a), b)
    BY <1>3
  <2>2. Append(Below, a) \in Seq(FramesNow \cup {a})
    BY <1>3
  <2> HIDE DEF FramesNow
  <2>3. Count(Append(Below, a)) = Count(Below) + Weight(a)
    BY <1>3, CountAppend
  <2>4. Count(Append(Append(Below, a), b)) = Count(Append(Below, a)) + Weight(b)
    BY <2>2, CountAppend
  <2>5. QED
    BY <1>2, <2>1, <2>3, <2>4
<1>5. Weight(Top) = 0 /\ Weight(a) = 0 /\ Weight(b) = 0
  BY <1>1, <1>2 DEF Weight, Scoped
<1>6. Len(scopes') = Len(scopes)
  BY <1>1, ScopesCounted
<1>7. QED
  BY <1>3, <1>4, <1>5, <1>6 DEF ScopesOK

LEMMA BuildStatBlockScopes ==
    ASSUME BuilderInv, ScopesOK, BuildStatBlock PROVE ScopesOK'
<1> DEFINE fr == [at |-> "statements", rest |-> call.statements, statements |-> << >>,
                  isBody |-> Top.at = "body"]
<1>1. stack # << >> /\ scopes' = Pushed /\ CallFrom(fr, Null)
  BY StackOfCalled DEF BuildStatBlock
<1>2. Weight(fr) = 1
  BY DEF Weight, Scoped
<1> HIDE DEF fr
<1>3. Len(scopes') = Len(scopes) + Weight(fr)
  BY <1>1, <1>2, ScopesCounted
<1>4. QED
  BY <1>1, <1>3, ScopesCall

LEMMA ClosesKeepScopes ==
    ASSUME BuilderInv, ScopesOK, CloseBlock \/ EndFunction PROVE ScopesOK'
<1>1. stack # << >> /\ Top.at \in Scoped /\ scopes' = Popped
  BY DEF CloseBlock, EndFunction, At, Scoped
<1>2. PICK id : Leave(id)
  <2>1. CASE CloseBlock
    BY <2>1 DEF CloseBlock
  <2>2. CASE EndFunction
    BY <2>2 DEF EndFunction
  <2>3. QED
    BY <2>1, <2>2
<1>3. Len(scopes') = Len(scopes) - Weight(Top)
  BY <1>1, ScopesCounted DEF Weight
<1>4. QED
  BY <1>1, <1>2, <1>3, ScopesLeave

LEMMA BuildFunctionScopes ==
    ASSUME BuilderInv, ScopesOK, BuildFunction PROVE ScopesOK'
<1> DEFINE n == script[Top.next]
           caller == [Top EXCEPT !.next = @ + 1]
           id == Len(functions) + 1
           symbol == Len(symbols) + 1
           fr == [at |-> "parameters", function |-> id, next |-> 1, body |-> n.body,
                  prev |-> currentFunction]
<1>1. At("script")
  BY DEF BuildFunction
<1>2. /\ Below = << >> /\ stack # << >> /\ Top.at = "script" /\ caller.at = "script"
      /\ Below \in Seq(FramesNow) /\ Count(Below) \in Nat
      /\ Count(stack) = Count(Below) + Weight(Top)
  BY <1>1, ScriptFound, CountBelow DEF At, ScriptFrames
<1>3. /\ Len(scopes) \in Nat
      /\ \A name, i : Len(Declared(name, i)) = Len(scopes)
  BY ScopesCounted
<1>4. fr.at = "parameters"
  OBVIOUS
<1>5. Weight(Top) = 0 /\ Weight(caller) = 0 /\ Weight(fr) = 1
  BY <1>2, <1>4, Zenon DEF Weight, Scoped
<1>6. \/ stack' = Append(Below, caller) /\ scopes' = Declared(n.name, symbol)
      \/ /\ stack' = Below \o <<caller, fr>>
         /\ scopes' = Append(Declared(n.name, symbol), NoNames)
  BY DEF BuildFunction
<1> HIDE DEF caller, fr, n, id, symbol
<1>7. CASE stack' = Append(Below, caller) /\ scopes' = Declared(n.name, symbol)
  <2>1. Count(stack') = Count(Below) + Weight(caller)
    BY <1>2, <1>7, CountAppend
  <2>2. QED
    BY <1>2, <1>3, <1>5, <1>7, <2>1 DEF ScopesOK
<1>8. CASE /\ stack' = Below \o <<caller, fr>>
           /\ scopes' = Append(Declared(n.name, symbol), NoNames)
  <2>1. Below \o <<caller, fr>> = Append(Append(Below, caller), fr)
    BY <1>2, ShortAppend
  <2>2. Append(Below, caller) \in Seq(FramesNow \cup {caller})
    BY <1>2
  <2> HIDE DEF FramesNow
  <2>3. Count(Append(Below, caller)) = Count(Below) + Weight(caller)
    BY <1>2, CountAppend
  <2>4. Count(Append(Append(Below, caller), fr)) = Count(Append(Below, caller)) + Weight(fr)
    BY <2>2, CountAppend
  <2>5. scopes \in Seq(Scope(Len(symbols)))
    BY DEF BuilderInv, ModuleOK
  <2>6. Len(scopes') = Len(scopes) + 1
    BY <1>3, <1>8, <2>5 DEF Declared
  <2>7. Count(stack') = Count(Below) + Weight(caller) + Weight(fr)
    BY <1>8, <2>1, <2>3, <2>4, Zenon
  <2>8. QED
    BY <1>2, <1>3, <1>5, <2>6, <2>7 DEF ScopesOK
<1>9. QED
  BY <1>6, <1>7, <1>8
-----------------------------------------------------------------------------
(* Every step keeps both.                                                  *)
LEMMA TopLevelKeeps ==
    ASSUME BuilderInv, ScopesOK, BuildTopLevel PROVE BuilderInv' /\ ScopesOK'
<1>1. Len(scopes) >= 1
  BY ScopesCounted
<1>2. CASE BuildOtherChild
  BY <1>2, BuildOtherChildKeeps, ResumesKeepScopes
<1>3. CASE BuildFunction
  BY <1>1, <1>3, BuildFunctionKeeps, BuildFunctionScopes
<1>4. CASE DeclareParameter
  BY <1>1, <1>4, DeclareParameterKeeps, DeclareParameterScopes
<1>5. CASE BuildBody
  BY <1>5, BuildBodyKeeps, ResumesKeepScopes
<1>6. CASE EndFunction
  BY <1>6, EndFunctionKeeps, ClosesKeepScopes
<1>7. CASE EndScript
  BY <1>7, EndScriptKeeps, LeavesKeepScopes
<1>8. QED
  BY <1>2, <1>3, <1>4, <1>5, <1>6, <1>7 DEF BuildTopLevel

LEMMA StatementKeeps ==
    ASSUME BuilderInv, ScopesOK, BuildStatement PROVE BuilderInv' /\ ScopesOK'
<1>1. Len(scopes) >= 1
  BY ScopesCounted
<1>2. CASE BuildStatBlock
  BY <1>2, BuildStatBlockKeeps, BuildStatBlockScopes
<1>3. CASE NextStatement
  BY <1>3, NextStatementKeeps, ResumesKeepScopes
<1>4. CASE CloseBlock
  BY <1>4, CloseBlockKeeps, ClosesKeepScopes
<1>5. CASE BuildOtherStatement
  BY <1>5, BuildOtherStatementKeeps, ReturnsKeepScopes
<1>6. CASE BuildVarDecl
  BY <1>6, BuildVarDeclKeeps, CallsKeepScopes
<1>7. CASE NextDeclarator
  BY <1>1, <1>7, NextDeclaratorKeeps, NextDeclaratorScopes
<1>8. CASE BuildOtherInitializer
  BY <1>8, BuildOtherInitializerKeeps, ReturnsKeepScopes
<1>9. CASE Initialize
  BY <1>9, InitializeKeeps, LeavesKeepScopes
<1>10. CASE EndVarDecl
  BY <1>10, EndVarDeclKeeps, LeavesKeepScopes
<1>11. CASE BuildExprStat
  BY <1>11, BuildExprStatKeeps, CallsKeepScopes
<1>12. CASE EndExprStat
  BY <1>12, EndExprStatKeeps, LeavesKeepScopes
<1>13. CASE BuildReturn
  BY <1>13, BuildReturnKeeps, CallsKeepScopes
<1>14. CASE EndReturn
  BY <1>14, EndReturnKeeps, LeavesKeepScopes
<1>15. QED
  BY <1>2, <1>3, <1>4, <1>5, <1>6, <1>7, <1>8, <1>9, <1>10, <1>11, <1>12, <1>13, <1>14
     DEF BuildStatement

LEMMA ExpressionKeeps ==
    ASSUME BuilderInv, ScopesOK, BuildExpression PROVE BuilderInv' /\ ScopesOK'
<1>1. CASE BuildAssign
  BY <1>1, BuildAssignKeeps, CallsKeepScopes
<1>2. CASE BuildRhs
  BY <1>2, BuildRhsKeeps, ResumesKeepScopes
<1>3. CASE Assign
  BY <1>3, AssignKeeps, LeavesKeepScopes
<1>4. CASE CompoundAssign
  BY <1>4, CompoundAssignKeeps, LeavesKeepScopes
<1>5. CASE BuildCondition
  BY <1>5, BuildConditionKeeps, CallsKeepScopes
<1>6. CASE EndTernary
  BY <1>6, EndTernaryKeeps, LeavesKeepScopes
<1>7. CASE BuildExpr
  BY <1>7, BuildExprKeeps, CallsKeepScopes
<1>8. CASE TakeOperand
  BY <1>8, TakeOperandKeeps, ResumesKeepScopes
<1>9. CASE BuildExprTerm
  BY <1>9, BuildExprTermKeeps, ReturnsKeepScopes
<1>10. CASE BuildOtherValue
  BY <1>10, BuildOtherValueKeeps, ReturnsKeepScopes
<1>11. CASE BuildLiteral
  BY <1>11, BuildLiteralKeeps, ReturnsKeepScopes
<1>12. CASE BuildVarAccess
  BY <1>12, BuildVarAccessKeeps, ReturnsKeepScopes
<1>13. CASE BuildFuncCall
  BY <1>13, BuildFuncCallKeeps, CallsKeepScopes
<1>14. CASE NextArgument
  BY <1>14, NextArgumentKeeps, ResumesKeepScopes
<1>15. CASE TakeArgument
  BY <1>15, TakeArgumentKeeps, ResumesKeepScopes
<1>16. CASE EndFuncCall
  BY <1>16, EndFuncCallKeeps, LeavesKeepScopes
<1>17. QED
  BY <1>1, <1>2, <1>3, <1>4, <1>5, <1>6, <1>7, <1>8, <1>9, <1>10, <1>11, <1>12, <1>13, <1>14,
     <1>15, <1>16 DEF BuildExpression

LEMMA Stutters ==
    ASSUME BuilderInv, ScopesOK, UNCHANGED vars PROVE BuilderInv' /\ ScopesOK'
<1>1. /\ script' = script /\ types' = types /\ symbols' = symbols /\ functions' = functions
      /\ blocks' = blocks /\ statements' = statements /\ exprs' = exprs /\ diags' = diags
      /\ scopes' = scopes /\ currentFunction' = currentFunction /\ stack' = stack
      /\ call' = call /\ returned' = returned
  BY DEF vars, arena
<1>2. ModuleOK'
  BY <1>1 DEF BuilderInv, ModuleOK
<1>3. StackOK' /\ ContextOK' /\ PendingOK'
  BY <1>1 DEF BuilderInv, StackOK, FramesNow, ContextOK, PendingOK
<1>4. ControlOK'
  BY <1>1 DEF BuilderInv, ControlOK, Top
<1>5. QED
  BY <1>1, <1>2, <1>3, <1>4, ScopesSame DEF BuilderInv

LEMMA FunctionIsSeq ==
    ASSUME NEW S, NEW n \in Nat, NEW f \in [1..n -> S] PROVE f \in Seq(S) /\ Len(f) = n
OBVIOUS

LEMMA InitOK ==
    ASSUME Init PROVE BuilderInv /\ ScopesOK
<1> DEFINE fr == [at |-> "script", next |-> 1]
<1>1. /\ script \in Scripts /\ symbols = << >> /\ functions = << >> /\ blocks = << >>
      /\ statements = << >> /\ exprs = << >> /\ diags = {} /\ scopes = <<NoNames>>
      /\ currentFunction = Invalid /\ stack = <<fr>> /\ call = Null /\ returned = Invalid
      /\ types = [t \in 1..Len(Builtins) |-> [name |-> Builtins[t], returnType |-> Invalid]]
  BY DEF Init
<1>2. types \in Seq(TypeEntry) /\ Len(types) = 17
  <2>1. \A t \in 1..17 : [name |-> Builtins[t], returnType |-> Invalid] \in TypeEntry
    BY BuiltinTypes DEF TypeEntry, Texts, Invalid
  <2>2. types \in [1..17 -> TypeEntry]
    BY <1>1, <2>1, BuiltinTypes
  <2> HIDE DEF fr
  <2>3. QED
    BY <2>2, FunctionIsSeq
<1>3. /\ SymbolsOK(symbols, Len(types), Len(functions))
      /\ FunctionsOK(functions, Len(types), Len(symbols), Len(blocks))
      /\ blocks \in Seq(Seq(1..Len(statements)))
      /\ StatementsOK(statements, Len(symbols), Len(blocks), Len(exprs))
      /\ ExprsOK(exprs, Len(types), Len(symbols), Len(functions))
  BY <1>1 DEF SymbolsOK, FunctionsOK, StatementsOK, ExprsOK
<1>4. scopes \in Seq(Scope(Len(symbols))) /\ Len(scopes) = 1
  BY <1>1, NoNamesOK
<1>5. ModuleOK
  BY <1>1, <1>2, <1>3, <1>4, BuiltinTypes, NodesAssumption DEF ModuleOK
<1>6. fr \in ScriptFrames /\ fr.at = "script"
  BY DEF ScriptFrames, Ids, Invalid
<1> HIDE DEF fr
<1>7. fr \in FramesNow
  BY <1>6 DEF FramesNow, Frames
<1>8. stack \in Seq(FramesNow) /\ Len(stack) = 1 /\ stack[1] = fr /\ Top = fr /\ stack # << >>
  BY <1>1, <1>7 DEF Top
<1>9. StackOK /\ ContextOK /\ PendingOK
  BY <1>1, <1>6, <1>8 DEF StackOK, Linked, ContextOK, PendingOK
<1>10. ControlOK
  BY <1>1, <1>6, <1>8 DEF ControlOK, Settled
<1>11. Count(stack) = 0
  <2>1. stack[1].at \notin Scoped
    BY <1>6, <1>8 DEF Scoped
  <2>2. Open(stack) = {}
    BY <1>8, <2>1 DEF Open
  <2>3. QED
    BY <2>2, FS_EmptySet DEF Count
<1>12. QED
  BY <1>4, <1>5, <1>9, <1>10, <1>11 DEF BuilderInv, ScopesOK

(* The invariant: the module is well typed and closed under its ids, each  *)
(* function on the stack is called for what its caller waits for and finds *)
(* what it takes up, and there is a scope for each that has opened one.    *)
THEOREM BuilderInvariance == Spec => [](BuilderInv /\ ScopesOK)
<1>1. Init => BuilderInv /\ ScopesOK
  BY InitOK
<1>2. (BuilderInv /\ ScopesOK) /\ [Next]_vars => (BuilderInv /\ ScopesOK)'
  <2>1. SUFFICES ASSUME BuilderInv, ScopesOK, [Next]_vars PROVE BuilderInv' /\ ScopesOK'
    OBVIOUS
  <2>2. CASE BuildTopLevel
    BY <2>1, <2>2, TopLevelKeeps
  <2>3. CASE BuildStatement
    BY <2>1, <2>3, StatementKeeps
  <2>4. CASE BuildExpression
    BY <2>1, <2>4, ExpressionKeeps
  <2>5. CASE UNCHANGED vars
    BY <2>1, <2>5, Stutters
  <2>6. QED
    BY <2>1, <2>2, <2>3, <2>4, <2>5 DEF Next
<1>3. QED
  BY <1>1, <1>2, PTL DEF Spec
-----------------------------------------------------------------------------
LEMMA SeqIds ==
    ASSUME NEW n, NEW s \in Seq(1..n) PROVE s \in Seq(Ids) /\ \A k \in DOMAIN s : s[k] \in 1..n
<1>1. 1..n \subseteq Ids
  BY DEF Ids, Invalid
<1>2. \A k \in 1..Len(s) : s[k] \in 1..n
  BY ElementOfSeq
<1>3. DOMAIN s = 1..Len(s) /\ s \in [1..Len(s) -> Ids] /\ Len(s) \in Nat
  BY <1>1, <1>2
<1>4. QED
  BY <1>2, <1>3, FunctionIsSeq

(* The variables keep the types of sir.h and sir_builder_context.h.        *)
THEOREM BuilderTypeCorrect == Spec => []TypeOK
<1>1. BuilderInv => TypeOK
  <2>1. SUFFICES ASSUME BuilderInv PROVE TypeOK
    OBVIOUS
  <2>2. ModuleOK
    BY <2>1 DEF BuilderInv
  <2>3. types \in Seq([name : Texts, returnType : Nat]) /\ diags \subseteq Reports
    BY <2>2 DEF ModuleOK, TypeEntry
  <2>4. /\ symbols \in Seq(SymbolEntry) /\ functions \in Seq(FunctionEntry)
        /\ statements \in Seq(StatementEntry) /\ exprs \in Seq(ExprEntry)
    BY <2>2 DEF ModuleOK, SymbolsOK, FunctionsOK, StatementsOK, ExprsOK
  <2>5. blocks \in Seq(Seq(Ids))
    <3>1. blocks \in Seq(Seq(1..Len(statements)))
      BY <2>2 DEF ModuleOK
    <3>2. \A i \in 1..Len(blocks) : blocks[i] \in Seq(Ids)
      BY <3>1, ElementOfSeq, SeqIds
    <3>3. QED
      <4>1. DOMAIN blocks = 1..Len(blocks) /\ Len(blocks) \in Nat
        BY <3>1
      <4>2. blocks \in [1..Len(blocks) -> Seq(Ids)]
        BY <3>1, <3>2, <4>1
      <4>3. QED
        BY <4>1, <4>2, FunctionIsSeq
  <2>6. currentFunction \in 0..Len(functions)
    <3>1. Len(functions) \in Nat
      BY <2>2, Lengths
    <3>2. CASE Len(stack) >= 2
      <4>1. stack \in Seq(FramesNow) /\ Linked(stack)
        BY <2>1 DEF BuilderInv, StackOK
      <4>2. stack[2] \in FramesNow /\ stack[2].at \in {"parameters", "body"}
        BY <3>2, <4>1, Levels
      <4>3. stack[2].function \in 1..Len(functions)
        BY <4>2, FramesAt DEF FramesNow, ParameterFrames, BodyFrames
      <4>4. QED
        BY <2>1, <3>1, <3>2, <4>3 DEF BuilderInv, ContextOK
    <3>3. CASE ~(Len(stack) >= 2)
      BY <2>1, <3>1, <3>3 DEF BuilderInv, ContextOK, Invalid
    <3>4. QED
      BY <3>2, <3>3
  <2>7. returned \in Nat
    <3>1. Settled(Top, returned, Len(blocks), Len(statements), Len(exprs)) => returned \in Nat
      BY <2>2, Lengths DEF Settled, IdsFor, Invalid
    <3>2. QED
      BY <2>1, <3>1 DEF BuilderInv, ControlOK, Invalid
  <2>8. QED
    BY <2>3, <2>4, <2>5, <2>6, <2>7 DEF TypeOK
<1>2. QED
  BY <1>1, BuilderInvariance, PTL

(* No id in the module dangles, in no state of the build, and the operands *)
(* of an expression come before it.                                        *)
THEOREM BuiltRefsExist == Spec => []RefsExist
<1>1. BuilderInv => RefsExist
  <2>1. SUFFICES ASSUME BuilderInv PROVE RefsExist
    OBVIOUS
  <2>2. ModuleOK
    BY <2>1 DEF BuilderInv
  <2>3. DOMAIN types = 1..Len(types) /\ DOMAIN symbols = 1..Len(symbols)
        /\ DOMAIN functions = 1..Len(functions) /\ DOMAIN blocks = 1..Len(blocks)
        /\ DOMAIN statements = 1..Len(statements) /\ DOMAIN exprs = 1..Len(exprs)
        /\ DOMAIN scopes = 1..Len(scopes)
    BY <2>2 DEF ModuleOK, SymbolsOK, FunctionsOK, StatementsOK, ExprsOK
  <2>4. \A i \in DOMAIN symbols :
           /\ symbols[i].type \in DOMAIN types
           /\ symbols[i].kind = "Function" => symbols[i].function \in DOMAIN functions
    BY <2>2, <2>3 DEF ModuleOK, SymbolsOK, SymbolOK
  <2>5. ASSUME NEW i \in DOMAIN functions
        PROVE  /\ {functions[i].returnType, functions[i].functionType} \subseteq DOMAIN types
               /\ functions[i].symbol \in DOMAIN symbols
               /\ functions[i].body \in 0..Len(blocks)
               /\ \A k \in DOMAIN functions[i].parameters :
                     /\ functions[i].parameters[k].type \in DOMAIN types
                     /\ functions[i].parameters[k].symbol \in 0..Len(symbols)
    <3>1. FunctionOK(functions[i], Len(types), Len(symbols), Len(blocks))
      BY <2>2, <2>3 DEF ModuleOK, FunctionsOK
    <3>2. DOMAIN functions[i].parameters = 1..Len(functions[i].parameters)
      BY <3>1 DEF FunctionOK, FunctionEntry
    <3>3. QED
      BY <2>3, <3>1, <3>2 DEF FunctionOK, ParameterOK
  <2>6. \A i \in DOMAIN blocks : \A k \in DOMAIN blocks[i] : blocks[i][k] \in DOMAIN statements
    <3>1. \A i \in DOMAIN blocks : blocks[i] \in Seq(1..Len(statements))
      BY <2>2, <2>3, ElementOfSeq DEF ModuleOK
    <3>2. QED
      BY <2>3, <3>1, SeqIds
  <2>7. ASSUME NEW i \in DOMAIN statements
        PROVE  /\ \A k \in DOMAIN statements[i].kids : statements[i].kids[k] \in DOMAIN exprs
               /\ statements[i].kind = "VarDecl" => statements[i].ref \in DOMAIN symbols
               /\ statements[i].kind = "Block" => statements[i].ref \in DOMAIN blocks
    <3>1. StatementOK(statements[i], Len(symbols), Len(blocks), Len(exprs))
      BY <2>2, <2>3 DEF ModuleOK, StatementsOK
    <3>2. QED
      BY <2>3, <3>1, SeqIds DEF StatementOK
  <2>8. ASSUME NEW i \in DOMAIN exprs
        PROVE  /\ exprs[i].type \in DOMAIN types
               /\ \A k \in DOMAIN exprs[i].kids : exprs[i].kids[k] \in 1..(i - 1)
               /\ exprs[i].kind = "SymbolRef" => exprs[i].ref \in DOMAIN symbols
               /\ exprs[i].kind = "Call" => exprs[i].ref \in 0..Len(functions)
    <3>1. ExprOK(exprs[i], i, Len(types), Len(symbols), Len(functions))
      BY <2>2, <2>3 DEF ModuleOK, ExprsOK
    <3>2. \A k \in DOMAIN exprs[i].kids : exprs[i].kids[k] \in 1..(i - 1)
      BY <3>1, SeqIds DEF ExprOK
    <3>3. QED
      BY <2>3, <3>1, <3>2 DEF ExprOK
  <2>9. ASSUME NEW d \in DOMAIN scopes, NEW n \in DOMAIN scopes[d]
        PROVE  scopes[d][n] \in DOMAIN symbols
    <3>1. scopes[d] \in Scope(Len(symbols))
      BY <2>2, <2>3, ElementOfSeq DEF ModuleOK
    <3>2. PICK names \in SUBSET STRING : scopes[d] \in [names -> 1..Len(symbols)]
      BY <3>1, Zenon DEF Scope
    <3>3. QED
      BY <2>3, <3>2
  <2>10. QED
    BY <2>4, <2>5, <2>6, <2>7, <2>8, <2>9 DEF RefsExist
<1>2. QED
  BY <1>1, BuilderInvariance, PTL

(* The scopes are those of the running functions and blocks, and a return  *)
(* statement is converted for the function it stands in.                   *)
THEOREM BuiltScopesMatchCalls == Spec => []ScopesMatchCalls
<1>1. BuilderInv /\ ScopesOK => ScopesMatchCalls
  <2>1. SUFFICES ASSUME BuilderInv, ScopesOK PROVE ScopesMatchCalls
    OBVIOUS
  <2> DEFINE open == {i \in 1..Len(stack) : stack[i].at \in {"parameters", "body", "statements"}}
             within == {i \in open : stack[i].at # "statements"}
  <2>2. Len(scopes) = 1 + Cardinality(open)
    BY <2>1 DEF ScopesOK, Count, Open, Scoped
  <2>3. stack \in Seq(FramesNow) /\ Linked(stack) /\ Len(stack) \in Nat
    BY <2>1 DEF BuilderInv, StackOK
  <2>4. /\ Len(stack) >= 2 => stack[2].at \in {"parameters", "body"}
        /\ \A i \in 1..Len(stack) : stack[i].at \in {"parameters", "body"} => i = 2
    BY <2>3, Levels
  <2>5. \A i \in within : i \in 1..Len(stack) /\ stack[i].at \in {"parameters", "body"}
    OBVIOUS
  <2>6. within = IF Len(stack) >= 2 THEN {2} ELSE {}
    <3>1. CASE Len(stack) >= 2
      <4>1. 2 \in within
        BY <2>3, <2>4, <3>1
      <4> HIDE DEF within
      <4>2. QED
        BY <2>4, <2>5, <3>1, <4>1
    <3>2. CASE ~(Len(stack) >= 2)
      <4> HIDE DEF within
      <4>1. \A i \in within : i = 2 /\ 2 \in 1..Len(stack)
        BY <2>4, <2>5
      <4>2. QED
        BY <2>3, <3>2, <4>1
    <3>3. QED
      BY <3>1, <3>2
  <2> HIDE DEF within
  <2>7. Max({2}) = 2
    <3>1. {2} \in SUBSET (1..2) /\ {2} # {} /\ 2 \in Nat
      OBVIOUS
    <3>2. Max({2}) \in {2}
      BY <3>1, MaxIsMaximum
    <3>3. QED
      BY <3>2
  <2>8. currentFunction = IF within = {} THEN Invalid ELSE stack[Max(within)].function
    BY <2>1, <2>6, <2>7 DEF BuilderInv, ContextOK
  <2>9. QED
    BY <2>2, <2>8 DEF ScopesMatchCalls, within
<1>2. QED
  BY <1>1, BuilderInvariance, PTL
-----------------------------------------------------------------------------
(* How a step may extend a sequence of the module.                         *)
Extends(t, s) ==
    \/ t = s
    \/ \E x : t = Append(s, x)
    \/ \E x, y : t = Append(Append(s, x), y)
    \/ \E x, y : t = s \o <<x, y>>

LEMMA ExtendsIsPrefix ==
    ASSUME NEW S, NEW s \in Seq(S), NEW t, Extends(t, s) PROVE IsPrefixOf(s, t)
<1>1. CASE t = s
  BY <1>1 DEF IsPrefixOf
<1>2. ASSUME NEW x, t = Append(s, x) PROVE IsPrefixOf(s, t)
  BY <1>2 DEF IsPrefixOf
<1>3. ASSUME NEW x, NEW y, t = Append(Append(s, x), y) PROVE IsPrefixOf(s, t)
  BY <1>3 DEF IsPrefixOf
<1>4. ASSUME NEW x, NEW y, t = s \o <<x, y>> PROVE IsPrefixOf(s, t)
  BY <1>4 DEF IsPrefixOf
<1>5. QED
  BY <1>1, <1>2, <1>3, <1>4 DEF Extends

ModuleExtends ==
    /\ Extends(types', types) /\ Extends(symbols', symbols) /\ Extends(blocks', blocks)
    /\ Extends(statements', statements) /\ Extends(exprs', exprs)

(* The steps that only call or return leave the module alone.              *)
LEMMA CallsExtend ==
    ASSUME \/ BuildOtherChild \/ BuildBody \/ EndScript \/ BuildStatBlock
           \/ NextStatement \/ BuildVarDecl \/ BuildExprStat \/ BuildReturn
           \/ BuildAssign \/ BuildRhs \/ BuildCondition \/ BuildExpr \/ BuildExprTerm
           \/ BuildFuncCall
    PROVE  ModuleExtends /\ functions' = functions
<1>1. CASE BuildOtherChild
  BY <1>1 DEF BuildOtherChild, ModuleExtends, Extends, arena
<1>2. CASE BuildBody
  BY <1>2 DEF BuildBody, ModuleExtends, Extends, arena
<1>3. CASE EndScript
  BY <1>3 DEF EndScript, ModuleExtends, Extends, arena
<1>4. CASE BuildStatBlock
  BY <1>4 DEF BuildStatBlock, ModuleExtends, Extends, arena
<1>5. CASE NextStatement
  BY <1>5 DEF NextStatement, ModuleExtends, Extends, arena
<1>6. CASE BuildVarDecl
  BY <1>6 DEF BuildVarDecl, ModuleExtends, Extends, arena
<1>7. CASE BuildExprStat
  BY <1>7 DEF BuildExprStat, ModuleExtends, Extends, arena
<1>8. CASE BuildReturn
  BY <1>8 DEF BuildReturn, ModuleExtends, Extends, arena
<1>9. CASE BuildAssign
  BY <1>9 DEF BuildAssign, ModuleExtends, Extends, arena
<1>10. CASE BuildRhs
  BY <1>10 DEF BuildRhs, ModuleExtends, Extends, arena
<1>11. CASE BuildCondition
  BY <1>11 DEF BuildCondition, ModuleExtends, Extends, arena
<1>12. CASE BuildExpr
  BY <1>12 DEF BuildExpr, ModuleExtends, Extends, arena
<1>13. CASE BuildExprTerm
  BY <1>13 DEF BuildExprTerm, ModuleExtends, Extends, arena
<1>14. CASE BuildFuncCall
  BY <1>14 DEF BuildFuncCall, ModuleExtends, Extends, arena
<1>15. QED
  BY <1>1, <1>2, <1>3, <1>4, <1>5, <1>6, <1>7, <1>8, <1>9, <1>10, <1>11, <1>12, <1>13,
     <1>14

(* The steps that build expressions.                                       *)
LEMMA ExpressionsExtend ==
    ASSUME \/ Assign \/ CompoundAssign \/ EndTernary \/ TakeOperand \/ BuildOtherValue
           \/ BuildLiteral \/ BuildVarAccess \/ NextArgument \/ TakeArgument
           \/ EndFuncCall
    PROVE  ModuleExtends /\ functions' = functions
<1>1. CASE Assign
  BY <1>1 DEF Assign, ModuleExtends, Extends, AddsExpr, WithCast
<1>2. CASE CompoundAssign
  BY <1>2 DEF CompoundAssign, ModuleExtends, Extends, AddsExpr
<1>3. CASE EndTernary
  BY <1>3 DEF EndTernary, ModuleExtends, Extends, AddsExpr, MakeErrorExpr
<1>4. CASE TakeOperand
  BY <1>4 DEF TakeOperand, ModuleExtends, Extends, AddsExpr
<1>5. CASE BuildOtherValue
  BY <1>5 DEF BuildOtherValue, ModuleExtends, Extends, AddsExpr, MakeErrorExpr
<1>6. CASE BuildLiteral
  BY <1>6 DEF BuildLiteral, ModuleExtends, Extends, AddsExpr, MakeErrorExpr
<1>7. CASE BuildVarAccess
  BY <1>7 DEF BuildVarAccess, ModuleExtends, Extends, AddsExpr, MakeErrorExpr
<1>8. CASE NextArgument
  BY <1>8 DEF NextArgument, ModuleExtends, Extends, AddsExpr
<1>9. CASE TakeArgument
  BY <1>9 DEF TakeArgument, ModuleExtends, Extends, AddsExpr, WithCast
<1>10. CASE EndFuncCall
  BY <1>10 DEF EndFuncCall, ModuleExtends, Extends, AddsExpr
<1>11. QED
  BY <1>1, <1>2, <1>3, <1>4, <1>5, <1>6, <1>7, <1>8, <1>9, <1>10

(* The steps that build statements.                                        *)
LEMMA StatementsExtend ==
    ASSUME \/ CloseBlock \/ BuildOtherStatement \/ NextDeclarator
           \/ BuildOtherInitializer \/ Initialize \/ EndVarDecl \/ EndExprStat
           \/ EndReturn
    PROVE  ModuleExtends /\ functions' = functions
<1>1. CASE CloseBlock
  BY <1>1 DEF CloseBlock, ModuleExtends, Extends
<1>2. CASE BuildOtherStatement
  BY <1>2 DEF BuildOtherStatement, ModuleExtends, Extends
<1>3. CASE NextDeclarator
  BY <1>3 DEF NextDeclarator, ModuleExtends, Extends, DeclareSymbol
<1>4. CASE BuildOtherInitializer
  BY <1>4 DEF BuildOtherInitializer, ModuleExtends, Extends
<1>5. CASE Initialize
  BY <1>5 DEF Initialize, ModuleExtends, Extends, WithCast
<1>6. CASE EndVarDecl
  BY <1>6 DEF EndVarDecl, ModuleExtends, Extends
<1>7. CASE EndExprStat
  BY <1>7 DEF EndExprStat, ModuleExtends, Extends
<1>8. CASE EndReturn
  BY <1>8 DEF EndReturn, ModuleExtends, Extends, WithCast
<1>9. QED
  BY <1>1, <1>2, <1>3, <1>4, <1>5, <1>6, <1>7, <1>8

(* The steps that build functions.                                         *)
LEMMA FunctionsExtend ==
    ASSUME \/ BuildFunction \/ DeclareParameter \/ EndFunction
    PROVE  ModuleExtends
<1>1. CASE BuildFunction
  BY <1>1 DEF BuildFunction, ModuleExtends, Extends
<1>2. CASE DeclareParameter
  BY <1>2 DEF DeclareParameter, ModuleExtends, Extends
<1>3. CASE EndFunction
  BY <1>3 DEF EndFunction, ModuleExtends, Extends
<1>4. QED
  BY <1>1, <1>2, <1>3
(* How a step may change a function.                                       *)
FunctionGrows(f, g) ==
    /\ g.name = f.name /\ g.symbol = f.symbol
    /\ g.returnType = f.returnType /\ g.functionType = f.functionType
    /\ SetOnce(f.body, g.body)
    /\ DOMAIN g.parameters = DOMAIN f.parameters
    /\ \A k \in DOMAIN f.parameters :
          /\ g.parameters[k].type = f.parameters[k].type
          /\ SetOnce(f.parameters[k].symbol, g.parameters[k].symbol)

FunctionsGrow ==
    /\ Len(functions) <= Len(functions')
    /\ \A i \in DOMAIN functions : FunctionGrows(functions[i], functions'[i])

LEMMA FunctionsSame ==
    ASSUME BuilderInv, functions' = functions PROVE FunctionsGrow
<1>1. \A f : FunctionGrows(f, f)
  BY DEF FunctionGrows, SetOnce
<1>2. Len(functions) \in Nat
  BY Lengths DEF BuilderInv
<1>3. Len(functions) <= Len(functions')
  BY <1>2
<1>4. QED
  BY <1>1, <1>3 DEF FunctionsGrow

LEMMA FunctionChanged ==
    ASSUME BuilderInv, NEW f \in 1..Len(functions), NEW g,
           functions' = [functions EXCEPT ![f] = g], FunctionGrows(functions[f], g)
    PROVE  FunctionsGrow
<1>1. \A h : FunctionGrows(h, h)
  BY DEF FunctionGrows, SetOnce
<1>2. /\ functions \in Seq(FunctionEntry) /\ Len(functions) \in Nat
      /\ DOMAIN functions = 1..Len(functions)
  BY Lengths DEF BuilderInv, ModuleOK, FunctionsOK
<1>3. Len(functions') = Len(functions)
  BY <1>2
<1>4. \A i \in DOMAIN functions : FunctionGrows(functions[i], functions'[i])
  BY <1>1, <1>2
<1>5. QED
  BY <1>2, <1>3, <1>4 DEF FunctionsGrow

LEMMA BuildFunctionGrows ==
    ASSUME BuilderInv, BuildFunction PROVE FunctionsGrow
<1>1. \A h : FunctionGrows(h, h)
  BY DEF FunctionGrows, SetOnce
<1>2. PICK g : functions' = Append(functions, g)
  BY DEF BuildFunction
<1>3. functions \in Seq(FunctionEntry)
  BY DEF BuilderInv, ModuleOK, FunctionsOK
<1>4. Len(functions) <= Len(functions') /\ \A i \in DOMAIN functions : functions'[i] = functions[i]
  BY <1>2, <1>3
<1>5. QED
  BY <1>1, <1>4 DEF FunctionsGrow

LEMMA EndFunctionGrows ==
    ASSUME BuilderInv, EndFunction PROVE FunctionsGrow
<1> DEFINE f == Top.function
           g == [functions[f] EXCEPT !.body = returned]
<1>1. At("body") /\ functions' = [functions EXCEPT ![f] = g]
  BY DEF EndFunction
<1>2. ModuleOK /\ f \in 1..Len(functions) /\ stack[2] = Top /\ Len(stack) = 2
  BY <1>1, FunctionFound
<1>3. functions[f] \in FunctionEntry /\ functions[f].body = Invalid
  BY <1>2 DEF ModuleOK, FunctionsOK, BuilderInv, PendingOK
<1>4. FunctionGrows(functions[f], g)
  BY <1>3 DEF FunctionGrows, SetOnce, FunctionEntry
<1> HIDE DEF f, g
<1>5. QED
  BY <1>1, <1>2, <1>4, FunctionChanged

LEMMA DeclareParameterGrows ==
    ASSUME BuilderInv, DeclareParameter PROVE FunctionsGrow
<1> DEFINE f == Top.function
           k == Top.next
           parameters == functions[f].parameters
           id == Len(symbols) + 1
           q == [parameters[k] EXCEPT !.symbol = id]
           ps == [parameters EXCEPT ![k] = q]
           g == [functions[f] EXCEPT !.parameters[k].symbol = id]
<1>1. /\ At("parameters") /\ k \in DOMAIN parameters
      /\ functions' = functions \/ functions' = [functions EXCEPT ![f] = g]
  BY DEF DeclareParameter
<1>2. /\ ModuleOK /\ f \in 1..Len(functions) /\ stack[2] = Top /\ Len(stack) = 2
      /\ Top.at = "parameters" /\ Top \in ParameterFrames(Len(functions))
  BY <1>1, FunctionFound
<1>3. /\ functions[f] \in FunctionEntry /\ functions[f].parameters = parameters
      /\ parameters \in Seq(ParameterEntry)
  <2>1. functions[f] \in FunctionEntry
    BY <1>2 DEF ModuleOK, FunctionsOK
  <2>2. QED
    BY <2>1 DEF FunctionEntry
<1>4. parameters[k].symbol = Invalid
  <2>1. k \in Nat
    BY <1>2 DEF ParameterFrames, Ids
  <2>2. QED
    BY <1>1, <1>2, <2>1 DEF BuilderInv, PendingOK
<1>5. g = [functions[f] EXCEPT !.parameters = ps]
  OBVIOUS
<1>6. parameters[k] \in ParameterEntry
  BY <1>1, <1>3
<1>7. q.type = parameters[k].type
  BY <1>6 DEF ParameterEntry
<1> HIDE DEF q
<1>8. /\ DOMAIN ps = DOMAIN parameters /\ ps[k] = q
      /\ \A j \in DOMAIN parameters : j # k => ps[j] = parameters[j]
  BY <1>1, <1>3
<1> HIDE DEF ps, g
<1>9. /\ g.name = functions[f].name /\ g.symbol = functions[f].symbol
      /\ g.returnType = functions[f].returnType /\ g.functionType = functions[f].functionType
      /\ g.body = functions[f].body /\ g.parameters = ps
  BY <1>3, <1>5 DEF FunctionEntry
<1>10. \A j \in DOMAIN parameters :
          ps[j].type = parameters[j].type /\ SetOnce(parameters[j].symbol, ps[j].symbol)
  BY <1>4, <1>7, <1>8 DEF SetOnce
<1>11. FunctionGrows(functions[f], g)
  BY <1>3, <1>8, <1>9, <1>10 DEF FunctionGrows, SetOnce
<1> HIDE DEF f, k, id, parameters
<1>12. QED
  BY <1>1, <1>2, <1>11, FunctionChanged, FunctionsSame

(* What a step does to the module: it only adds to it, and may set a body  *)
(* or a parameter's symbol.                                                *)
ModuleGrows ==
    /\ IsPrefixOf(types, types') /\ IsPrefixOf(symbols, symbols')
    /\ IsPrefixOf(blocks, blocks') /\ IsPrefixOf(statements, statements')
    /\ IsPrefixOf(exprs, exprs')
    /\ FunctionsGrow

LEMMA NextGrows ==
    ASSUME BuilderInv, Next PROVE ModuleGrows
<1>1. ModuleExtends /\ FunctionsGrow
  <2>1. CASE \/ BuildOtherChild \/ BuildBody \/ EndScript \/ BuildStatBlock \/ NextStatement
             \/ BuildVarDecl \/ BuildExprStat \/ BuildReturn \/ BuildAssign \/ BuildRhs
             \/ BuildCondition \/ BuildExpr \/ BuildExprTerm \/ BuildFuncCall
    BY <2>1, CallsExtend, FunctionsSame
  <2>2. CASE \/ Assign \/ CompoundAssign \/ EndTernary \/ TakeOperand \/ BuildOtherValue
             \/ BuildLiteral \/ BuildVarAccess \/ NextArgument \/ TakeArgument \/ EndFuncCall
    BY <2>2, ExpressionsExtend, FunctionsSame
  <2>3. CASE \/ CloseBlock \/ BuildOtherStatement \/ NextDeclarator \/ BuildOtherInitializer
             \/ Initialize \/ EndVarDecl \/ EndExprStat \/ EndReturn
    BY <2>3, StatementsExtend, FunctionsSame
  <2>4. CASE BuildFunction \/ DeclareParameter \/ EndFunction
    BY <2>4, FunctionsExtend, BuildFunctionGrows, DeclareParameterGrows, EndFunctionGrows
  <2>5. QED
    BY <2>1, <2>2, <2>3, <2>4 DEF Next, BuildTopLevel, BuildStatement, BuildExpression
<1>2. /\ types \in Seq(TypeEntry) /\ symbols \in Seq(SymbolEntry)
      /\ blocks \in Seq(Seq(1..Len(statements)))
      /\ statements \in Seq(StatementEntry) /\ exprs \in Seq(ExprEntry)
  BY DEF BuilderInv, ModuleOK, SymbolsOK, StatementsOK, ExprsOK
<1>3. /\ IsPrefixOf(types, types') /\ IsPrefixOf(symbols, symbols')
      /\ IsPrefixOf(blocks, blocks') /\ IsPrefixOf(statements, statements')
      /\ IsPrefixOf(exprs, exprs')
  BY <1>1, <1>2, ExtendsIsPrefix DEF ModuleExtends
<1>4. QED
  BY <1>1, <1>3 DEF ModuleGrows

(* What has been added to the module is not changed any more, but for a    *)
(* function's body and its parameters' symbols, which are set once.        *)
THEOREM BuiltArenaGrows == Spec => ArenaGrows
<1>1. BuilderInv /\ [Next]_vars => [ModuleGrows]_vars
  BY NextGrows
<1>2. [ModuleGrows]_vars => [/\ IsPrefixOf(types, types') /\ IsPrefixOf(symbols, symbols')
       /\ IsPrefixOf(blocks, blocks') /\ IsPrefixOf(statements, statements')
       /\ IsPrefixOf(exprs, exprs')
       /\ Len(functions) <= Len(functions')
       /\ \A i \in DOMAIN functions :
             LET f == functions[i]
                 g == functions'[i]
             IN  /\ g.name = f.name /\ g.symbol = f.symbol
                 /\ g.returnType = f.returnType /\ g.functionType = f.functionType
                 /\ SetOnce(f.body, g.body)
                 /\ DOMAIN g.parameters = DOMAIN f.parameters
                 /\ \A k \in DOMAIN f.parameters :
                       /\ g.parameters[k].type = f.parameters[k].type
                       /\ SetOnce(f.parameters[k].symbol, g.parameters[k].symbol)]_vars
  BY DEF ModuleGrows, FunctionsGrow, FunctionGrows
<1>3. QED
  BY <1>1, <1>2, BuilderInvariance, PTL DEF Spec, ArenaGrows
=============================================================================
