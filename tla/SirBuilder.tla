----------------------------- MODULE SirBuilder -----------------------------
(***************************************************************************)
(* BuildSirModule (src/sir/sir_builder.cpp): one walk over the syntax tree *)
(* that fills the arena of include/light_angel/sir/sir.h.  The build       *)
(* functions call each other recursively, so the state holds their call    *)
(* stack: a frame is one running function, with its local variables and    *)
(* the point it has reached, and an action is what such a function does    *)
(* from one call to the next.  A function that returns just what it has    *)
(* called keeps no frame.                                                  *)
(*                                                                         *)
(* A node of the tree is a record whose field `node' is its NodeKind;      *)
(* Node_Statement and Node_ExprValue, which only wrap another node, are    *)
(* left out.  Of the fields that no build function reads, a node says in   *)
(* `unread' which are there.  Ids count from 1, and 0 is the invalid id.   *)
(* Spans are left out, and a diagnostic is what it says, without the name  *)
(* it quotes.                                                              *)
(***************************************************************************)
EXTENDS Integers, Sequences, FiniteSetsExt

CONSTANTS
    Nodes,              \* the nodes of all trees
    Scripts             \* the scripts, each the sequence of its children

Null == [node |-> "nullptr"]

(* What the parser fills and no build function reads, by its names in      *)
(* node.h; of the attributes of a function all but `external', and of its  *)
(* arguments' fields the name.  A condition's elseExpr is not read either. *)
Unread == [
    Func      |-> {"attr", "access", "isReturnRef", "templateParams", "listPattern",
                   "isConst", "funcAttr"},
    Parameter |-> {"typeModifier", "isVariadic", "isOptionalOutput", "defaultExpr"},
    Type      |-> {"isConst", "scope", "templateArgs"},
    Var       |-> {"access"},
    FuncCall  |-> {"scope", "templateArgs", "argNames"},
    VarAccess |-> {"scope"}]

TypeNode == [name : STRING, postfixes : BOOLEAN, unread : SUBSET Unread.Type]
ParameterNode == [name : STRING, type : TypeNode, unread : SUBSET Unread.Parameter]

NodesOf(kinds) == {n \in Nodes : n.node \in kinds}
ChildNodes == NodesOf({"Func", "OtherChild"})
BlockNodes == NodesOf({"StatBlock"})
StatementNodes == NodesOf({"StatBlock", "Var", "ExprStat", "Return", "OtherStatement"})
AssignNodes == NodesOf({"Assign"})
ConditionNodes == NodesOf({"Condition"})
ExprNodes == NodesOf({"Expr"})
TermNodes == NodesOf({"ExprTerm"})
ValueNodes == NodesOf({"Assign", "Literal", "VarAccess", "FuncCall", "OtherValue"})

(* What may also be missing.                                               *)
BodyNodes == BlockNodes \cup {Null}
InitNodes == NodesOf({"Assign", "OtherInitializer"}) \cup {Null}
RhsNodes == AssignNodes \cup {Null}

Compounds == {"+=", "-=", "*=", "/=", "%=", "**=", "|=", "&=", "^=", "<<=", ">>=", ">>>="}

(* What the parser puts into the fields of a node of each kind.            *)
WellFormed(n) ==
    /\ n.node = "Func" =>
          /\ n.name \in STRING /\ n.returnType \in TypeNode \cup {Null}
          /\ n.params \in Seq(ParameterNode)
          /\ n.body \in BodyNodes
    /\ n.node = "StatBlock" => n.statements \in Seq(StatementNodes)
    /\ n.node = "Var" =>
          /\ n.type \in TypeNode /\ n.decls # << >>
          /\ n.decls \in Seq([name : STRING, init : InitNodes])
    /\ n.node = "ExprStat" => n.assign \in RhsNodes
    /\ n.node = "Return" => n.value \in RhsNodes
    /\ n.node = "Assign" =>
          /\ n.condition \in ConditionNodes /\ n.rhs \in RhsNodes
          /\ n.rhs # Null => n.op \in {"="} \cup Compounds
          /\ n.rhs = Null => n.op \in {"", "="} \cup Compounds
    /\ n.node = "Condition" =>
          /\ n.expr \in ExprNodes /\ n.thenExpr \in RhsNodes
          /\ n.elseExpr \in RhsNodes
    /\ n.node = "Expr" =>
          /\ n.first \in TermNodes
          /\ n.rest \in Seq([op : STRING \ {""}, term : TermNodes])
    /\ n.node = "ExprTerm" => n.ops \in BOOLEAN /\ n.value \in ValueNodes
    /\ n.node = "Literal" => n.text \in Seq(STRING)
    /\ n.node = "VarAccess" => n.name \in STRING
    /\ n.node = "FuncCall" => n.name \in STRING /\ n.args \in Seq(RhsNodes)
    /\ n.node \in DOMAIN Unread => n.unread \subseteq Unread[n.node]

ASSUME NodesAssumption ==
    /\ \A s \in Scripts : s \in Seq(ChildNodes)
    /\ Null \notin Nodes
    /\ \A n \in Nodes : WellFormed(n)

VARIABLES
    script,
    types, symbols, functions, blocks, statements, exprs,   \* the SirModule
    diags,              \* what has been reported
    scopes,             \* the innermost scope last
    currentFunction,
    stack,              \* the running build functions, buildScript first
    call,               \* the node a build function has just been called for
    returned            \* the id a build function has just returned, or 0

arena == <<types, symbols, functions, blocks, statements, exprs>>
vars == <<script, arena, diags, scopes, currentFunction, stack, call, returned>>
-----------------------------------------------------------------------------
Invalid == 0

(* initBuiltinTypes: the id of a type is its place here.                   *)
Builtins == <<
    "<error>", "void", "bool", "int", "int8", "int16", "int32", "int64", "uint",
    "uint8", "uint16", "uint32", "uint64", "float", "double", "string", "null_t">>

BuiltinType(name) == CHOOSE t \in 1..Len(Builtins) : Builtins[t] = name

errorType == 1
voidType == BuiltinType("void")

(* What getBuiltinType knows.                                              *)
Keywords == {Builtins[t] : t \in 1..Len(Builtins)} \ {"<error>", "null_t"}

WrongTypeOf(t) ==       \* an unknown type stays InvalidType
    IF t.name \in Keywords /\ ~t.postfixes THEN BuiltinType(t.name) ELSE Invalid

(* buildType: anything but a plain built-in type is reported.              *)
TypeOf(t) ==
    IF t.name \in Keywords /\ ~t.postfixes THEN BuiltinType(t.name) ELSE errorType

WrongTypeReports(ts) == \* array and handle types go unreported
    {"unresolved type" : t \in {u \in ts : u.name \notin Keywords}}

TypeReports(ts) == {"unresolved type" : t \in {u \in ts : TypeOf(u) = errorType}}

(* The two flags that are copied from the node, isDestructor and           *)
(* isExternal, are left out.                                               *)
Function(name, returnType, parameters, symbol) ==
    [name |-> name, returnType |-> returnType, parameters |-> parameters,
     symbol |-> symbol, functionType |-> Len(types) + 1, body |-> Invalid]

Symbol(kind, name, type, function) ==
    [kind |-> kind, name |-> name, type |-> type, function |-> function]

(* Of an expression: its operands, the symbol or function it names, and    *)
(* the operator or literal it was.                                         *)
Expr(kind, type, kids, ref, text) ==
    [kind |-> kind, type |-> type, kids |-> kids, ref |-> ref, text |-> text]

ErrorExpr == Expr("Error", errorType, << >>, Invalid, << >>)

(* Of a statement: its expression, if any, and its symbol or block.        *)
Statement(kind, kids, ref) == [kind |-> kind, kids |-> kids, ref |-> ref]

NeedsCast(id, target) ==
    /\ exprs[id].type # target
    /\ errorType \notin {exprs[id].type, target}

WrongCastTo(id, target) == IF exprs[id].type # target THEN Len(exprs) + 1 ELSE id

(* makeImplicitCastIfNeeded: the id it returns, and the expressions then.  *)
CastTo(id, target) == IF NeedsCast(id, target) THEN Len(exprs) + 1 ELSE id

WithCast(id, target) ==
    IF NeedsCast(id, target)
    THEN Append(exprs, Expr("ImplicitCast", target, <<id>>, Invalid, << >>))
    ELSE exprs
-----------------------------------------------------------------------------
(* Scopes.                                                                 *)
NoNames == [n \in {} |-> Invalid]

Pushed == Append(scopes, NoNames)

Popped == SubSeq(scopes, 1, Len(scopes) - 1)

Declared(name, id) ==
    [scopes EXCEPT ![Len(scopes)] =
        [n \in DOMAIN @ \cup {name} |-> IF n = name THEN id ELSE @[n]]]

WrongLookup(name) ==    \* the outermost declaration wins
    LET found == {d \in 1..Len(scopes) : name \in DOMAIN scopes[d]}
    IN  IF found = {} THEN Invalid ELSE scopes[Min(found)][name]

(* lookupName.                                                             *)
Lookup(name) ==
    LET found == {d \in 1..Len(scopes) : name \in DOMAIN scopes[d]}
    IN  IF found = {} THEN Invalid ELSE scopes[Max(found)][name]
-----------------------------------------------------------------------------
(* Calls.                                                                  *)
Top == stack[Len(stack)]

Below == SubSeq(stack, 1, Len(stack) - 1)

Called(node) == call.node = node

(* The function on top of the stack has reached this point, and nothing it *)
(* has called is still running.                                            *)
At(point) == call = Null /\ stack # << >> /\ Top.at = point

TailCall(node) == call' = node /\ UNCHANGED <<stack, returned>>

CallFrom(frame, node) ==
    /\ stack' = Append(stack, frame)
    /\ call' = node
    /\ UNCHANGED returned

Resume(frame, node) ==
    /\ stack' = Append(Below, frame)
    /\ call' = node
    /\ returned' = Invalid

(* Return from a function that has no frame yet, and from one that has.    *)
Return(id) == call' = Null /\ returned' = id /\ UNCHANGED stack

Leave(id) == stack' = Below /\ returned' = id /\ UNCHANGED call

Report(what) == diags' = diags \cup {what}

Finished == stack = << >>
-----------------------------------------------------------------------------
Init ==
    /\ script \in Scripts
    /\ types = [t \in 1..Len(Builtins) |-> [name |-> Builtins[t], returnType |-> Invalid]]
    /\ symbols = << >> /\ functions = << >> /\ blocks = << >>
    /\ statements = << >> /\ exprs = << >>
    /\ diags = {}
    /\ scopes = <<NoNames>>
    /\ currentFunction = Invalid
    /\ stack = <<[at |-> "script", next |-> 1]>>
    /\ call = Null
    /\ returned = Invalid

(* buildScript: only functions are supported.                              *)
BuildOtherChild ==
    /\ At("script") /\ Top.next <= Len(script)
    /\ script[Top.next].node # "Func"
    /\ Report("top-level node kind not yet supported")
    /\ Resume([Top EXCEPT !.next = @ + 1], Null)
    /\ UNCHANGED <<script, arena, scopes, currentFunction>>

(* buildFunction up to its parameters' symbols: the function is declared   *)
(* before its body is built.  The function type's parameter types stay     *)
(* empty.                                                                  *)
BuildFunction ==
    /\ At("script") /\ Top.next <= Len(script)
    /\ LET f == script[Top.next]
           returnType == IF f.returnType = Null THEN voidType ELSE TypeOf(f.returnType)
           parameters == [i \in DOMAIN f.params |->
                            [name |-> f.params[i].name, type |-> TypeOf(f.params[i].type),
                             symbol |-> Invalid]]
           symbol == Len(symbols) + 1
           id == Len(functions) + 1
           caller == [Top EXCEPT !.next = @ + 1]
       IN  /\ f.node = "Func"
           /\ types' = Append(types, [name |-> f.name, returnType |-> returnType])
           /\ symbols' = Append(symbols, Symbol("Function", f.name, Len(types) + 1, id))
           /\ functions' = Append(functions, Function(f.name, returnType, parameters, symbol))
           /\ diags' = diags \cup TypeReports({f.params[i].type : i \in DOMAIN f.params}
                                              \cup ({f.returnType} \ {Null}))
           /\ \/ /\ f.body = Null
                 /\ scopes' = Declared(f.name, symbol)
                 /\ stack' = Append(Below, caller)
                 /\ UNCHANGED currentFunction
              \/ /\ f.body # Null
                 /\ scopes' = Append(Declared(f.name, symbol), NoNames)
                 /\ stack' = Below \o <<caller,
                        [at |-> "parameters", function |-> id, next |-> 1,
                         body |-> f.body, prev |-> currentFunction]>>
                 /\ currentFunction' = id
    /\ UNCHANGED <<script, blocks, statements, exprs, call, returned>>

(* Parameters without a name get no symbol.                                *)
DeclareParameter ==
    /\ At("parameters")
    /\ LET parameters == functions[Top.function].parameters
           p == parameters[Top.next]
           id == Len(symbols) + 1
       IN  /\ Top.next \in DOMAIN parameters
           /\ IF p.name = "" THEN UNCHANGED <<symbols, functions, scopes>>
              ELSE /\ symbols' = Append(symbols, Symbol("Parameter", p.name, p.type, Invalid))
                   /\ functions' = [functions EXCEPT
                                      ![Top.function].parameters[Top.next].symbol = id]
                   /\ scopes' = Declared(p.name, id)
    /\ Resume([Top EXCEPT !.next = @ + 1], Null)
    /\ UNCHANGED <<script, types, blocks, statements, exprs, diags, currentFunction>>

BuildBody ==
    /\ At("parameters") /\ Top.next \notin DOMAIN functions[Top.function].parameters
    /\ Resume([at |-> "body", function |-> Top.function, prev |-> Top.prev], Top.body)
    /\ UNCHANGED <<script, arena, diags, scopes, currentFunction>>

EndFunction ==
    /\ At("body")
    /\ functions' = [functions EXCEPT ![Top.function].body = returned]
    /\ scopes' = Popped
    /\ currentFunction' = Top.prev
    /\ Leave(Invalid)
    /\ UNCHANGED <<script, types, symbols, blocks, statements, exprs, diags>>

EndScript ==
    /\ At("script") /\ Top.next > Len(script)
    /\ Leave(Invalid)
    /\ UNCHANGED <<script, arena, diags, scopes, currentFunction>>
-----------------------------------------------------------------------------
(* Statements.  A loop that builds statements has those it has got so far, *)
(* with the one that was returned last.                                    *)
Taken == IF returned = Invalid THEN Top.statements ELSE Append(Top.statements, returned)

(* buildStatBlock.                                                         *)
BuildStatBlock ==
    /\ Called("StatBlock")
    /\ scopes' = Pushed
    /\ CallFrom([at |-> "statements", rest |-> call.statements, statements |-> << >>,
                 isBody |-> Top.at = "body"], Null)
    /\ UNCHANGED <<script, arena, diags, currentFunction>>

NextStatement ==
    /\ At("statements") /\ Top.rest # << >>
    /\ Resume([at |-> "statements", rest |-> Tail(Top.rest), statements |-> Taken,
               isBody |-> Top.isBody], Head(Top.rest))
    /\ UNCHANGED <<script, arena, diags, scopes, currentFunction>>

(* The block that buildStatBlock returns, as a statement of its own        *)
(* (buildStatBlockAsStatement) unless it is a function's body.             *)
WrongCloseBlock ==      \* popScope only where a block is a statement
    /\ At("statements") /\ Top.rest = << >>
    /\ blocks' = Append(blocks, Taken)
    /\ IF Top.isBody
       THEN /\ Leave(Len(blocks) + 1)
            /\ UNCHANGED <<statements, scopes>>
       ELSE /\ statements' = Append(statements, Statement("Block", << >>, Len(blocks) + 1))
            /\ scopes' = Popped
            /\ Leave(Len(statements) + 1)
    /\ UNCHANGED <<script, types, symbols, functions, exprs, diags, currentFunction>>

CloseBlock ==
    /\ At("statements") /\ Top.rest = << >>
    /\ blocks' = Append(blocks, Taken)
    /\ IF Top.isBody
       THEN Leave(Len(blocks) + 1) /\ UNCHANGED statements
       ELSE /\ statements' = Append(statements, Statement("Block", << >>, Len(blocks) + 1))
            /\ Leave(Len(statements) + 1)
    /\ scopes' = Popped
    /\ UNCHANGED <<script, types, symbols, functions, exprs, diags, currentFunction>>

(* buildStatementNode: the kinds that are not supported.                   *)
BuildOtherStatement ==
    /\ Called("OtherStatement")
    /\ Report("statement kind not yet supported")
    /\ statements' = Append(statements, Statement("Error", << >>, Invalid))
    /\ Return(Len(statements) + 1)
    /\ UNCHANGED <<script, types, symbols, functions, blocks, exprs, scopes, currentFunction>>

(* buildVarDecl.                                                           *)
BuildVarDecl ==
    /\ Called("Var")
    /\ diags' = diags \cup TypeReports({call.type})
    /\ CallFrom([at |-> "declarators", rest |-> call.decls, statements |-> << >>,
                 type |-> TypeOf(call.type)], Null)
    /\ UNCHANGED <<script, arena, scopes, currentFunction>>

VarDecl(symbol, kids) == Statement("VarDecl", kids, symbol)

WrongDeclareSymbol(name, type) ==   \* a second declaration reuses the symbol
    LET old == scopes[Len(scopes)]
    IN  IF name \in DOMAIN old
        THEN /\ symbols' = [symbols EXCEPT ![old[name]] = Symbol("LocalVar", name, type, Invalid)]
             /\ UNCHANGED scopes
        ELSE /\ symbols' = Append(symbols, Symbol("LocalVar", name, type, Invalid))
             /\ scopes' = Declared(name, Len(symbols) + 1)

DeclareSymbol(name, type) ==
    /\ symbols' = Append(symbols, Symbol("LocalVar", name, type, Invalid))
    /\ scopes' = Declared(name, Len(symbols) + 1)

(* buildOne: a variable is declared before its initializer is built.       *)
NextDeclarator ==
    /\ At("declarators") /\ Top.rest # << >>
    /\ LET decl == Head(Top.rest)
           id == Len(symbols) + 1
           loop == [at |-> "declarators", rest |-> Tail(Top.rest), statements |-> Taken,
                    type |-> Top.type]
       IN  /\ DeclareSymbol(decl.name, Top.type)
           /\ stack' = Below \o <<loop, [at |-> "initializer", symbol |-> id, type |-> Top.type]>>
           /\ call' = decl.init
           /\ returned' = Invalid
    /\ UNCHANGED <<script, types, functions, blocks, statements, exprs, diags, currentFunction>>

BuildOtherInitializer ==
    /\ Called("OtherInitializer")
    /\ Report("var initializer kind not yet supported")
    /\ exprs' = Append(exprs, ErrorExpr)
    /\ Return(Len(exprs) + 1)
    /\ UNCHANGED <<script, types, symbols, functions, blocks, statements, scopes, currentFunction>>

Initialize ==
    /\ At("initializer")
    /\ IF returned = Invalid
       THEN /\ statements' = Append(statements, VarDecl(Top.symbol, << >>))
            /\ UNCHANGED exprs
       ELSE /\ statements' = Append(statements, VarDecl(Top.symbol, <<CastTo(returned, Top.type)>>))
            /\ exprs' = WithCast(returned, Top.type)
    /\ Leave(Len(statements) + 1)
    /\ UNCHANGED <<script, types, symbols, functions, blocks, diags, scopes, currentFunction>>

(* Several declarators make a block, which opens no scope.                 *)
WrongEndVarDecl ==      \* returns the last declarator's statement only
    /\ At("declarators") /\ Top.rest = << >>
    /\ Leave(returned)
    /\ UNCHANGED <<script, arena, diags, scopes, currentFunction>>

EndVarDecl ==
    /\ At("declarators") /\ Top.rest = << >>
    /\ IF Len(Taken) = 1
       THEN Leave(returned) /\ UNCHANGED <<blocks, statements>>
       ELSE /\ blocks' = Append(blocks, Taken)
            /\ statements' = Append(statements, Statement("Block", << >>, Len(blocks) + 1))
            /\ Leave(Len(statements) + 1)
    /\ UNCHANGED <<script, types, symbols, functions, exprs, diags, scopes, currentFunction>>

BuildExprStat ==
    /\ Called("ExprStat")
    /\ CallFrom([at |-> "exprStat"], call.assign)
    /\ UNCHANGED <<script, arena, diags, scopes, currentFunction>>

EndExprStat ==
    /\ At("exprStat")
    /\ LET kids == IF returned = Invalid THEN << >> ELSE <<returned>>
       IN  statements' = Append(statements, Statement("Expr", kids, Invalid))
    /\ Leave(Len(statements) + 1)
    /\ UNCHANGED <<script, types, symbols, functions, blocks, exprs, diags, scopes, currentFunction>>

BuildReturn ==
    /\ Called("Return")
    /\ CallFrom([at |-> "return"], call.value)
    /\ UNCHANGED <<script, arena, diags, scopes, currentFunction>>

WrongExpected == functions[1].returnType    \* of the wrong function

Expected == functions[currentFunction].returnType

EndReturn ==
    /\ At("return")
    /\ IF returned = Invalid
       THEN /\ statements' = Append(statements, Statement("Return", << >>, Invalid))
            /\ UNCHANGED exprs
       ELSE /\ statements' = Append(statements,
                    Statement("Return", <<CastTo(returned, Expected)>>, Invalid))
            /\ exprs' = WithCast(returned, Expected)
    /\ Leave(Len(statements) + 1)
    /\ UNCHANGED <<script, types, symbols, functions, blocks, diags, scopes, currentFunction>>
-----------------------------------------------------------------------------
(* Expressions.  Here exprs is the only part of the module that grows.     *)
AddsExpr ==
    UNCHANGED <<script, types, symbols, functions, blocks, statements, scopes, currentFunction>>

MakeErrorExpr(what) ==
    /\ Report(what)
    /\ exprs' = Append(exprs, ErrorExpr)

(* buildAssign, as far as its condition.                                   *)
BuildAssign ==
    /\ Called("Assign")
    /\ IF call.rhs = Null
       THEN TailCall(call.condition)
       ELSE CallFrom([at |-> "lhs", op |-> call.op, rhs |-> call.rhs], call.condition)
    /\ UNCHANGED <<script, arena, diags, scopes, currentFunction>>

BuildRhs ==
    /\ At("lhs")
    /\ Resume([at |-> "rhs", op |-> Top.op, lhs |-> returned], Top.rhs)
    /\ UNCHANGED <<script, arena, diags, scopes, currentFunction>>

Assignment(target, value) ==
    Expr("Assign", exprs[target].type, <<target, value>>, Invalid, <<"=">>)

(* a = b, where b is converted to the type of a.                           *)
Assign ==
    /\ At("rhs") /\ Top.op = "="
    /\ LET target == exprs[Top.lhs].type
           cast == WithCast(returned, target)
       IN  /\ exprs' = Append(cast, Assignment(Top.lhs, CastTo(returned, target)))
           /\ Leave(Len(cast) + 1)
    /\ AddsExpr /\ UNCHANGED diags

(* The operator of a compound assignment: what comes before its '='.       *)
OperatorOf(op) ==
    CASE op = "+=" -> "+"   [] op = "-=" -> "-"   [] op = "*=" -> "*"   [] op = "/=" -> "/"
      [] op = "%=" -> "%"   [] op = "**=" -> "**" [] op = "|=" -> "|"   [] op = "&=" -> "&"
      [] op = "^=" -> "^"   [] op = "<<=" -> "<<" [] op = ">>=" -> ">>" [] op = ">>>=" -> ">>>"

WrongCompoundAssign ==  \* the operands the wrong way round
    /\ At("rhs") /\ Top.op \in Compounds
    /\ LET target == exprs[Top.lhs].type
           value == Expr("Binary", target, <<returned, Top.lhs>>, Invalid, <<OperatorOf(Top.op)>>)
       IN  exprs' = exprs \o <<value, Assignment(Top.lhs, Len(exprs) + 1)>>
    /\ Leave(Len(exprs) + 2)
    /\ AddsExpr /\ UNCHANGED diags

(* a OP= b becomes a = a OP b, in which a is one expression used twice.    *)
CompoundAssign ==
    /\ At("rhs") /\ Top.op \in Compounds
    /\ LET target == exprs[Top.lhs].type
           value == Expr("Binary", target, <<Top.lhs, returned>>, Invalid, <<OperatorOf(Top.op)>>)
       IN  exprs' = exprs \o <<value, Assignment(Top.lhs, Len(exprs) + 1)>>
    /\ Leave(Len(exprs) + 2)
    /\ AddsExpr /\ UNCHANGED diags

(* buildCondition: of a ternary only the condition is built, and it stays  *)
(* behind in the arena.  One whose second part is missing is taken for     *)
(* none, whatever its third part is.                                       *)
BuildCondition ==
    /\ Called("Condition")
    /\ IF call.thenExpr = Null
       THEN TailCall(call.expr)
       ELSE CallFrom([at |-> "ternary"], call.expr)
    /\ UNCHANGED <<script, arena, diags, scopes, currentFunction>>

EndTernary ==
    /\ At("ternary")
    /\ MakeErrorExpr("ternary '?:' not yet supported")
    /\ Leave(Len(exprs) + 1)
    /\ AddsExpr

(* buildExpr: a left fold over the operands, whatever the operators are.   *)
(* The parser takes no operator that mapBinaryOp does not know.            *)
BuildExpr ==
    /\ Called("Expr")
    /\ IF call.rest = << >>
       THEN TailCall(call.first)
       ELSE CallFrom([at |-> "operands", acc |-> Invalid, op |-> "", rest |-> call.rest], call.first)
    /\ UNCHANGED <<script, arena, diags, scopes, currentFunction>>

(* isComparisonOp.                                                         *)
ComparisonOps == {"==", "!=", "<", "<=", ">", ">=", "is", "!is", "&&", "and", "||", "or", "^^", "xor"}

TakeOperand ==
    /\ At("operands")
    /\ LET f == Top
           boolType == BuiltinType("bool")
           type == IF f.op \in ComparisonOps THEN boolType ELSE exprs[f.acc].type
           acc == IF f.op = "" THEN returned ELSE Len(exprs) + 1
       IN  /\ exprs' = IF f.op = "" THEN exprs
                       ELSE Append(exprs, Expr("Binary", type, <<f.acc, returned>>, Invalid, <<f.op>>))
           /\ IF f.rest = << >> THEN Leave(acc)
              ELSE Resume([at |-> "operands", acc |-> acc, op |-> Head(f.rest).op,
                           rest |-> Tail(f.rest)], Head(f.rest).term)
    /\ AddsExpr /\ UNCHANGED diags

(* buildExprTerm: the operators before and after a value are reported, but *)
(* the value is kept.  The report comes after the value in the code, here  *)
(* before it: diags has no order.                                          *)
BuildExprTerm ==
    /\ Called("ExprTerm")
    /\ IF call.ops THEN Report("prefix/postfix operators not yet supported")
       ELSE UNCHANGED diags
    /\ TailCall(call.value)
    /\ UNCHANGED <<script, arena, scopes, currentFunction>>

(* An initializer list, and the values that buildExprValue does not        *)
(* support: constructor calls, casts and lambdas.                          *)
BuildOtherValue ==
    /\ Called("OtherValue")
    /\ MakeErrorExpr("expression not yet supported")
    /\ Return(Len(exprs) + 1)
    /\ AddsExpr

(* The characters of a literal's token.                                    *)
Digits == {"0", "1", "2", "3", "4", "5", "6", "7", "8", "9"}

LiteralType(text) ==
    CASE text \in {<<"t", "r", "u", "e">>, <<"f", "a", "l", "s", "e">>} -> BuiltinType("bool")
      [] text = <<"n", "u", "l", "l">> -> BuiltinType("null_t")
      [] text = <<"v", "o", "i", "d">> -> voidType
      [] text # << >> /\ text[1] \in {"QUOTE", "'"} -> BuiltinType("string")
      [] text # << >> /\ text[1] \in Digits \cup {"."} ->
            IF \E i \in DOMAIN text : text[i] \in {".", "e", "E"}
            THEN BuiltinType("double") ELSE BuiltinType("int")
      [] OTHER -> errorType

(* buildLiteral: a double is what has a point or an 'e', also in hex.      *)
BuildLiteral ==
    /\ Called("Literal")
    /\ LET type == LiteralType(call.text)
       IN  IF type = errorType
           THEN MakeErrorExpr("unrecognized literal")
           ELSE /\ exprs' = Append(exprs, Expr("Literal", type, << >>, Invalid, call.text))
                /\ UNCHANGED diags
    /\ Return(Len(exprs) + 1)
    /\ AddsExpr

(* buildVarAccess: the scope in front of the name is not looked at.        *)
BuildVarAccess ==
    /\ Called("VarAccess")
    /\ LET id == Lookup(call.name)
       IN  IF id = Invalid
           THEN MakeErrorExpr("unresolved name")
           ELSE /\ exprs' = Append(exprs, Expr("SymbolRef", symbols[id].type, << >>, id, << >>))
                /\ UNCHANGED diags
    /\ Return(Len(exprs) + 1)
    /\ AddsExpr

(* buildFuncCall: the function that is called, looked up before the        *)
(* arguments are built, by its name alone.                                 *)
Callee(name) ==
    LET id == Lookup(name)
    IN  IF id # Invalid /\ symbols[id].kind = "Function" THEN symbols[id].function ELSE Invalid

BuildFuncCall ==
    /\ Called("FuncCall")
    /\ LET f == Callee(call.name)
       IN  /\ IF f = Invalid THEN Report("unresolved function") ELSE UNCHANGED diags
           /\ CallFrom([at |-> "arguments", function |-> f, rest |-> call.args,
                        args |-> << >>], Null)
    /\ UNCHANGED <<script, arena, scopes, currentFunction>>

WrongNextArgument ==    \* the loop does not go on after a missing argument
    /\ At("arguments") /\ returned = Invalid /\ Top.rest # << >>
    /\ IF Head(Top.rest) = Null
       THEN /\ exprs' = exprs
            /\ Resume(Top, Null)
       ELSE /\ Resume([Top EXCEPT !.rest = Tail(@)], Head(Top.rest))
            /\ UNCHANGED exprs
    /\ AddsExpr /\ UNCHANGED diags

(* An argument the parser found none for is an error, without a report.    *)
NextArgument ==
    /\ At("arguments") /\ returned = Invalid /\ Top.rest # << >>
    /\ IF Head(Top.rest) = Null
       THEN /\ exprs' = Append(exprs, ErrorExpr)
            /\ Resume([at |-> "arguments", function |-> Top.function, rest |-> Tail(Top.rest),
                       args |-> Append(Top.args, Len(exprs) + 1)], Null)
       ELSE /\ Resume([Top EXCEPT !.rest = Tail(@)], Head(Top.rest))
            /\ UNCHANGED exprs
    /\ AddsExpr /\ UNCHANGED diags

(* An argument is converted to the type of its parameter, if there is one. *)
TakeArgument ==
    /\ At("arguments") /\ returned # Invalid
    /\ LET f == Top.function
           index == Len(Top.args) + 1
           known == f # Invalid /\ index \in DOMAIN functions[f].parameters
           target == functions[f].parameters[index].type
       IN  /\ exprs' = IF known THEN WithCast(returned, target) ELSE exprs
           /\ Resume([Top EXCEPT !.args =
                        Append(@, IF known THEN CastTo(returned, target) ELSE returned)], Null)
    /\ AddsExpr /\ UNCHANGED diags

EndFuncCall ==
    /\ At("arguments") /\ returned = Invalid /\ Top.rest = << >>
    /\ LET f == Top.function
           type == IF f = Invalid THEN errorType ELSE functions[f].returnType
       IN  exprs' = Append(exprs, Expr("Call", type, Top.args, f, << >>))
    /\ Leave(Len(exprs) + 1)
    /\ AddsExpr /\ UNCHANGED diags
-----------------------------------------------------------------------------
BuildTopLevel ==
    BuildOtherChild \/ BuildFunction \/ DeclareParameter \/ BuildBody \/ EndFunction \/ EndScript

BuildStatement ==
    \/ BuildStatBlock \/ NextStatement \/ CloseBlock \/ BuildOtherStatement
    \/ BuildVarDecl \/ NextDeclarator \/ BuildOtherInitializer \/ Initialize \/ EndVarDecl
    \/ BuildExprStat \/ EndExprStat \/ BuildReturn \/ EndReturn

BuildExpression ==
    \/ BuildAssign \/ BuildRhs \/ Assign \/ CompoundAssign \/ BuildCondition \/ EndTernary
    \/ BuildExpr \/ TakeOperand \/ BuildExprTerm \/ BuildOtherValue \/ BuildLiteral
    \/ BuildVarAccess \/ BuildFuncCall \/ NextArgument \/ TakeArgument \/ EndFuncCall

Next == BuildTopLevel \/ BuildStatement \/ BuildExpression

Spec == Init /\ [][Next]_vars

(* The build functions wait for nothing.                                   *)
FairSpec == Spec /\ WF_vars(Next)
-----------------------------------------------------------------------------
Ids == Nat \ {Invalid}

(* All of it is in STRING, but tlapm has no rule for strings in quotes.    *)
Texts == STRING \cup {Builtins[t] : t \in 1..Len(Builtins)}
                \cup {"="} \cup {OperatorOf(op) : op \in Compounds}

Reports == {
    "top-level node kind not yet supported", "statement kind not yet supported",
    "var initializer kind not yet supported", "ternary '?:' not yet supported",
    "prefix/postfix operators not yet supported", "expression not yet supported",
    "unresolved type", "unresolved name", "unresolved function", "unrecognized literal"}

SymbolEntry == [kind : {"Function", "Parameter", "LocalVar"}, name : STRING, type : Ids,
                function : Nat]
ParameterEntry == [name : STRING, type : Ids, symbol : Nat]
FunctionEntry == [name : STRING, returnType : Ids, parameters : Seq(ParameterEntry),
                  symbol : Ids, functionType : Ids, body : Nat]
StatementEntry == [kind : {"Block", "VarDecl", "Expr", "Return", "Error"}, kids : Seq(Ids),
                   ref : Nat]
ExprEntry == [kind : {"Literal", "SymbolRef", "Call", "Binary", "Assign", "ImplicitCast", "Error"},
              type : Ids, kids : Seq(Ids), ref : Nat, text : Seq(Texts)]

(* The module and the builder's context have the types that sir.h and      *)
(* sir_builder_context.h declare.                                          *)
TypeOK ==
    /\ types \in Seq([name : Texts, returnType : Nat])
    /\ symbols \in Seq(SymbolEntry) /\ functions \in Seq(FunctionEntry)
    /\ blocks \in Seq(Seq(Ids))
    /\ statements \in Seq(StatementEntry) /\ exprs \in Seq(ExprEntry)
    /\ diags \subseteq Reports
    /\ currentFunction \in 0..Len(functions)
    /\ returned \in Nat

(* No id in the module dangles, in no state of the build: a name, a call,  *)
(* a declaration, a block or a type is there before it is referred to, and *)
(* the operands of an expression come before it, so that the expressions   *)
(* have no cycle.                                                          *)
RefsExist ==
    /\ \A i \in DOMAIN symbols :
          /\ symbols[i].type \in DOMAIN types
          /\ symbols[i].kind = "Function" => symbols[i].function \in DOMAIN functions
    /\ \A i \in DOMAIN functions :
          /\ {functions[i].returnType, functions[i].functionType} \subseteq DOMAIN types
          /\ functions[i].symbol \in DOMAIN symbols
          /\ functions[i].body \in 0..Len(blocks)
          /\ \A k \in DOMAIN functions[i].parameters :
                /\ functions[i].parameters[k].type \in DOMAIN types
                /\ functions[i].parameters[k].symbol \in 0..Len(symbols)
    /\ \A i \in DOMAIN blocks : \A k \in DOMAIN blocks[i] : blocks[i][k] \in DOMAIN statements
    /\ \A i \in DOMAIN statements :
          /\ \A k \in DOMAIN statements[i].kids : statements[i].kids[k] \in DOMAIN exprs
          /\ statements[i].kind = "VarDecl" => statements[i].ref \in DOMAIN symbols
          /\ statements[i].kind = "Block" => statements[i].ref \in DOMAIN blocks
    /\ \A i \in DOMAIN exprs :
          /\ exprs[i].type \in DOMAIN types
          /\ \A k \in DOMAIN exprs[i].kids : exprs[i].kids[k] \in 1..(i - 1)
          /\ exprs[i].kind = "SymbolRef" => exprs[i].ref \in DOMAIN symbols
          /\ exprs[i].kind = "Call" => exprs[i].ref \in 0..Len(functions)
    /\ \A d \in DOMAIN scopes : \A n \in DOMAIN scopes[d] : scopes[d][n] \in DOMAIN symbols

(* Whatever is built, and however it fails, a scope is open for the        *)
(* script, for each function whose body is being built and for each block  *)
(* that is, and no other; and a return statement is converted for the      *)
(* function it stands in.                                                  *)
ScopesMatchCalls ==
    LET open == {i \in 1..Len(stack) : stack[i].at \in {"parameters", "body", "statements"}}
        within == {i \in open : stack[i].at # "statements"}
    IN  /\ Len(scopes) = 1 + Cardinality(open)
        /\ currentFunction = IF within = {} THEN Invalid ELSE stack[Max(within)].function

(* What has been added to the module is not changed any more, but for a    *)
(* function's body and its parameters' symbols, which are set once; so     *)
(* that ids stay good, and nothing built is lost.                          *)
SetOnce(old, new) == old = new \/ old = Invalid

IsPrefixOf(s, t) == Len(s) <= Len(t) /\ \A i \in DOMAIN s : s[i] = t[i]

ArenaGrows ==
    [][/\ IsPrefixOf(types, types') /\ IsPrefixOf(symbols, symbols')
       /\ IsPrefixOf(blocks, blocks') /\ IsPrefixOf(statements, statements')
       /\ IsPrefixOf(exprs, exprs')
       /\ Len(functions) <= Len(functions')
       /\ \A i \in DOMAIN functions :
             LET f == functions[i]
                 g == functions'[i]
             IN  /\ g.name = f.name /\ g.symbol = f.symbol
                 /\ g.returnType = f.returnType /\ g.functionType = f.functionType
                 /\ SetOnce(f.body, g.body)
                 /\ DOMAIN g.parameters = DOMAIN f.parameters
                 /\ \A k \in DOMAIN f.parameters :
                       /\ g.parameters[k].type = f.parameters[k].type
                       /\ SetOnce(f.parameters[k].symbol, g.parameters[k].symbol)
      ]_vars

(* Where the source converts a value, the module has a value of the type   *)
(* that is asked for, unless one of the two has been reported: of the      *)
(* right side of an assignment, of the arguments of a call that have a     *)
(* parameter, and of an initializer.  A conversion changes the type.       *)
Agree(type, wanted) == type = wanted \/ errorType \in {type, wanted}

ExprAgrees(e, xs, gs) ==
    /\ e.kind = "Assign" =>
          /\ Agree(xs[e.kids[2]].type, xs[e.kids[1]].type)
          /\ e.type = xs[e.kids[1]].type
    /\ e.kind = "ImplicitCast" => ~Agree(xs[e.kids[1]].type, e.type)
    /\ e.kind = "Call" /\ e.ref # Invalid =>
          \A k \in DOMAIN e.kids \cap DOMAIN gs[e.ref].parameters :
              Agree(xs[e.kids[k]].type, gs[e.ref].parameters[k].type)

ConversionsAgree ==
    /\ \A i \in DOMAIN exprs : ExprAgrees(exprs[i], exprs, functions)
    /\ \A i \in DOMAIN statements :
          statements[i].kind = "VarDecl" =>
              \A k \in DOMAIN statements[i].kids :
                  Agree(exprs[statements[i].kids[k]].type, symbols[statements[i].ref].type)

(* Every statement can be said to belong to a function, so that those of a *)
(* function's body, and of the blocks in it, belong to that function; and  *)
(* what a return statement returns has the type of its function.           *)
ReturnsAgree ==
    \E owner \in [DOMAIN statements -> DOMAIN functions] :
        /\ \A i \in DOMAIN functions :
              functions[i].body # Invalid =>
                  \A k \in DOMAIN blocks[functions[i].body] :
                      owner[blocks[functions[i].body][k]] = i
        /\ \A i \in DOMAIN statements :
              /\ statements[i].kind = "Block" =>
                    \A k \in DOMAIN blocks[statements[i].ref] :
                        owner[blocks[statements[i].ref][k]] = owner[i]
              /\ statements[i].kind = "Return" =>
                    \A k \in DOMAIN statements[i].kids :
                        Agree(exprs[statements[i].kids[k]].type,
                              functions[owner[i]].returnType)

(* The error type stands for something that has been reported, except for  *)
(* that of an argument the source has left out.                            *)
ErrorTypesReported ==
    diags = {} => \A i \in DOMAIN exprs : exprs[i].type = errorType => exprs[i].kind = "Error"

(* In every state of the build, what has been built agrees in types: each  *)
(* value with what it is for, each return statement with the function it   *)
(* is in, and no type is wrong without a report.                           *)
TypesAgree == ConversionsAgree /\ ErrorTypesReported /\ ReturnsAgree

(* How often an id is used in the entries of a module.                     *)
Spots(id, entries) ==
    UNION {{<<i, k>> : k \in {j \in DOMAIN entries[i] : entries[i][j] = id}} :
           i \in DOMAIN entries}

Uses(id, entries) == Cardinality(Spots(id, entries))

KidsOf(entries) == [i \in DOMAIN entries |-> entries[i].kids]

BodiesOf(entries) == [i \in DOMAIN entries |-> <<entries[i].body>>]

BlocksOf(entries) ==
    [i \in DOMAIN entries |-> IF entries[i].kind = "Block" THEN <<entries[i].ref>> ELSE << >>]

(* A compound assignment is an assignment whose value starts with the very *)
(* expression that is assigned to.                                         *)
IsCompound(e, xs) ==
    /\ e.kind = "Assign"
    /\ xs[e.kids[2]].kind = "Binary"
    /\ xs[e.kids[2]].kids[1] = e.kids[1]

(* The module is a forest: when it is done, every block is the body of one *)
(* function or the content of one statement, every statement is in one     *)
(* block, and an expression is used once, but for what a compound          *)
(* assignment assigns to, which it also reads; only an expression that was *)
(* given up with a report is not used at all.                              *)
ArenaIsTree ==
    Finished =>
        /\ \A b \in DOMAIN blocks :
              Uses(b, BodiesOf(functions)) + Uses(b, BlocksOf(statements)) = 1
        /\ \A s \in DOMAIN statements : Uses(s, blocks) = 1
        /\ \A e \in DOMAIN exprs :
              LET uses == Uses(e, KidsOf(exprs)) + Uses(e, KidsOf(statements))
                  assigned == \E a \in DOMAIN exprs :
                                  IsCompound(exprs[a], exprs) /\ exprs[a].kids[1] = e
              IN  /\ uses <= IF assigned THEN 2 ELSE 1
                  /\ uses = 0 => diags # {}

(* BuildSirModule returns.                                                 *)
Finishes == <>Finished
=============================================================================
