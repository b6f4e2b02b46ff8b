---------------------------- MODULE MCSirBuilder ----------------------------
(* Small scripts for SirBuilder: a function f, and a function g whose body *)
(* is made of statements that declare, hide, use, convert and call.  The   *)
(* calls are trees of node.h that BuildSirModule takes; Parse makes        *)
(* constructor calls of them, which are an OtherValue.                     *)
EXTENDS SirMeaning

CONSTANT Bodies         \* the bodies of g, each a sequence of statements

Term(v) == [node |-> "ExprTerm", ops |-> FALSE, value |-> v]
Op(op, v) == [op |-> op, term |-> Term(v)]
Chain(v, rest) == [node |-> "Expr", first |-> Term(v), rest |-> rest]
Cond(e) == [node |-> "Condition", expr |-> e, thenExpr |-> Null, elseExpr |-> Null]
Assigned(e, op, rhs) == [node |-> "Assign", condition |-> Cond(e), op |-> op, rhs |-> rhs]
Plain(e) == Assigned(e, "", Null)
Just(v) == Plain(Chain(v, << >>))
Set(v, op, rhs) == Assigned(Chain(v, << >>), op, rhs)

Name(n) == [node |-> "VarAccess", name |-> n, unread |-> {}]
Lit(text) == [node |-> "Literal", text |-> text]
One == Lit(<<"1">>)
Half == Lit(<<"0", ".", "5">>)
CallOf(f, args) == [node |-> "FuncCall", name |-> f, args |-> args, unread |-> {}]

Type(name) == [name |-> name, postfixes |-> FALSE, unread |-> {}]
Var(type, decls) == [node |-> "Var", type |-> type, decls |-> decls, unread |-> {}]
Decl(name, init) == [name |-> name, init |-> init]
Stat(assign) == [node |-> "ExprStat", assign |-> assign]
Ret(value) == [node |-> "Return", value |-> value]
Block(ss) == [node |-> "StatBlock", statements |-> ss]
Func(type, name, params, body) ==
    [node |-> "Func", name |-> name, returnType |-> type, params |-> params, body |-> body,
     unread |-> {}]
Param(type, name) == [name |-> name, type |-> Type(type), unread |-> {}]

(* A node that holds something which no build function reads.              *)
With(n, field) == [n EXCEPT !.unread = {field}]

(* Statements that may stand together in a body.                           *)
Declarations == {
    Var(Type("double"), <<Decl("a", Just(One))>>),                  \* double a = 1;
    Var(Type("int"), <<Decl("a", Just(Name("a")))>>),               \* int a = a;
    Var(Type("int"), <<Decl("b", Just(Name("a"))), Decl("a", Null)>>),
    Block(<<Var(Type("bool"), <<Decl("a", Null)>>), Stat(Just(Name("a")))>>)}

UsingStats == {
    Stat(Set(Name("a"), "=", Just(Half))),                          \* a = 0.5;
    Stat(Set(Name("a"), "+=", Set(Name("b"), "=", Just(One)))),     \* a += b = 1;
    Stat(Plain(Chain(Name("a"), <<Op("-", Name("b")), Op("<", One)>>))),
    Stat(Just(CallOf("f", <<Just(Name("a")), Just(Half)>>))),       \* f(a, 0.5);
    Stat(Just(CallOf("a", << >>))),                                 \* a();
    Ret(Just(Name("a"))),
    Block(<<Ret(Just(CallOf("g", <<Just(Set(Name("a"), "*=", Just(One)))>>)))>>)}

(* Statements that stand alone: what is not supported, or is odd.          *)
Odd == {
    Ret(Null), Stat(Null),
    Stat(Just(Lit(<< >>))),                                         \* void;
    Stat(Just(Lit(<<"0", "x", "1", "e">>))), Stat(Just(Lit(<<"n", "u", "l", "l">>))),
    Stat(Just(Lit(<<"QUOTE", "1", "QUOTE">>))), Stat(Just(Lit(<<"t", "r", "u", "e">>))),
    Stat(Just(CallOf("f", <<Null, Just(One)>>))),                   \* f(, 1);
    Stat(Just(CallOf("f", <<Just(One), Null, Just(One)>>))),
    Stat(Just(Set(Name("a"), "=", Just(One)))),                     \* (a = 1);
    Stat(Just(CallOf("h", <<Just(Name("z"))>>))),
    Stat(Just([node |-> "OtherValue"])), [node |-> "OtherStatement"],
    Var(Type("int"), <<Decl("c", [node |-> "OtherInitializer"])>>),
    Var(Type("T"), <<Decl("c", Just(One))>>),
    Var([Type("int") EXCEPT !.postfixes = TRUE], <<Decl("c", Null)>>),
    Stat(Plain([Chain(Name("a"), << >>) EXCEPT !.first.ops = TRUE])),
    Stat([Just(Name("a")) EXCEPT !.condition.thenExpr = Just(One),
                                 !.condition.elseExpr = Just(One)]),
    Stat([Just(Name("a")) EXCEPT !.condition.elseExpr = Just(Name("b"))])} \* a ? : b;

(* Also alone: what nothing reads.                                         *)
Ignoring == {
    Stat(Just(With(Name("a"), "scope"))),                           \* ::a;
    Ret(Just(With(Name("z"), "scope"))),
    Stat(Just(With(CallOf("f", <<Just(One)>>), "scope"))),          \* x::f(1);
    Stat(Just(With(CallOf("f", <<Just(One)>>), "templateArgs"))),   \* f<int>(1);
    Stat(Just(With(CallOf("f", <<Just(One)>>), "argNames"))),       \* f(x: 1);
    Stat([Just(Name("a")) EXCEPT !.op = "="]),                      \* a = ;
    Var(With(Type("int"), "isConst"), <<Decl("a", Just(Half))>>),   \* const int a = 0.5;
    Var(With(Type("T"), "scope"), <<Decl("a", Null)>>),             \* x::T a;
    With(Var(Type("int"), <<Decl("a", Null)>>), "access")}          \* private int a;

Standard == Declarations \cup UsingStats

Alone == Standard \cup Odd \cup Ignoring

MCBodies ==
    {<<s>> : s \in Alone} \cup {<<s, t>> : s \in Standard, t \in Alone}
    \cup {<<s, t, u>> : s, t, u \in Standard}

F(body) == Func(Type("double"), "f", <<Param("double", "x"), Param("int", "")>>, body)
G(body) == Func(Type("int"), "g", <<Param("int", "a")>>, Block(body))
HidesA(s) == Func(Null, "a", << >>, Block(<<s>>))
Unknown == Func(Type("T"), "f", << >>, Null)
Class == [node |-> "OtherChild"]
Doubled == F(Block(<<Ret(Plain(Chain(Name("x"), <<Op("*", One)>>)))>>))
Empty == F(Block(<< >>))

(* double f(double x = 0.5, int) { int }, a function with a list pattern.  *)
Listed == [With(F(Null), "listPattern") EXCEPT !.params[1].unread = {"defaultExpr"}]

MCScripts ==
    {<<F(Null), G(b)>> : b \in Bodies}
    \cup {<<Doubled, G(<<s>>)>> : s \in Alone}
    \cup {<<G(<<s>>), Class, Doubled>> : s \in UsingStats}
    \cup {<<Empty, HidesA(s), Unknown>> : s \in Standard}
    \cup {<<Listed, G(<<s>>)>> : s \in Ignoring}

Kids(n) ==
    CASE n.node = "Func" -> {n.body}
      [] n.node = "StatBlock" -> {n.statements[i] : i \in DOMAIN n.statements}
      [] n.node = "Var" -> {n.decls[i].init : i \in DOMAIN n.decls}
      [] n.node = "ExprStat" -> {n.assign}
      [] n.node = "Return" -> {n.value}
      [] n.node = "Assign" -> {n.condition, n.rhs}
      [] n.node = "Condition" -> {n.expr, n.thenExpr, n.elseExpr}
      [] n.node = "Expr" -> {n.first} \cup {n.rest[i].term : i \in DOMAIN n.rest}
      [] n.node = "ExprTerm" -> {n.value}
      [] n.node = "FuncCall" -> {n.args[i] : i \in DOMAIN n.args}
      [] OTHER -> {}

MCFunctions ==
    {F(Null), Unknown, Doubled, Empty, Listed} \cup {G(b) : b \in Bodies} \cup {HidesA(s) : s \in Standard}

(* The statements and what they are made of, down to a depth.              *)
DownTo[depth \in 0..25] ==
    IF depth = 0 THEN Alone \cup {Doubled, Empty}
    ELSE LET above == DownTo[depth - 1]
         IN  above \cup UNION {Kids(n) : n \in above}

MCNodes ==
    ({Class} \cup MCFunctions \cup {f.body : f \in MCFunctions} \cup DownTo[25]) \ {Null}
=============================================================================
