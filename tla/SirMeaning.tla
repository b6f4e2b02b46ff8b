----------------------------- MODULE SirMeaning -----------------------------
(***************************************************************************)
(* What a module that SirBuilder has built says of its script.  Both are   *)
(* read as a sequence of items in source order: the script with the places *)
(* where a scope opens and closes, the module, from its functions down to  *)
(* its expressions, with the symbols and functions its ids stand for.      *)
(* `unsupported' is what the builder refuses, `unread' what a node holds   *)
(* and the builder never looks at, with the kind of the node.  The readers *)
(* are recursive and serve TLC only.                                       *)
(***************************************************************************)
EXTENDS SirBuilder

Item(is, of) == <<[is |-> is, of |-> of]>>

RECURSIVE Concat(_)
Concat(ss) == IF ss = << >> THEN << >> ELSE Head(ss) \o Concat(Tail(ss))

Map(s, F(_)) == [i \in DOMAIN s |-> F(s[i])]

InScope(items) == Item("open", << >>) \o items \o Item("close", << >>)

UnreadItem(kind, fields) == IF fields = {} THEN << >> ELSE Item("unread", <<kind, fields>>)

TypeItem(t) ==
    UnreadItem("Type", t.unread) \o
    (IF TypeOf(t) = errorType THEN Item("unsupported", <<t.name>>) ELSE << >>)

RECURSIVE NodeItems(_)
NodeItems(n) ==
    CASE n = Null -> << >>
      [] n.node = "StatBlock" -> InScope(Concat(Map(n.statements, NodeItems)))
      [] n.node = "Var" ->
            UnreadItem("Var", n.unread) \o TypeItem(n.type) \o
            Concat(Map(n.decls, LAMBDA d : Item("declare", <<d.name>>) \o NodeItems(d.init)))
      [] n.node = "ExprStat" -> NodeItems(n.assign)
      [] n.node = "Return" -> Item("return", << >>) \o NodeItems(n.value)
      [] n.node = "Assign" ->
            NodeItems(n.condition) \o
            (CASE n.rhs # Null -> Item("operator", <<n.op>>) \o NodeItems(n.rhs)
               [] n.rhs = Null -> UnreadItem("Assign", {n.op} \ {""}))
      [] n.node = "Condition" ->
            (CASE n.thenExpr # Null -> Item("unsupported", <<"?:">>)
               [] n.thenExpr = Null /\ n.elseExpr # Null -> UnreadItem("Condition", {"elseExpr"})
               [] OTHER -> << >>)
            \o NodeItems(n.expr)
      [] n.node = "Expr" ->
            NodeItems(n.first) \o
            Concat(Map(n.rest, LAMBDA r : Item("operator", <<r.op>>) \o NodeItems(r.term)))
      [] n.node = "ExprTerm" ->
            (IF n.ops THEN Item("unsupported", <<"++">>) ELSE << >>) \o NodeItems(n.value)
      [] n.node = "Literal" -> Item(IF n.text = << >> THEN "unsupported" ELSE "literal", n.text)
      [] n.node = "VarAccess" -> UnreadItem("VarAccess", n.unread) \o Item("name", <<n.name>>)
      [] n.node = "FuncCall" ->
            UnreadItem("FuncCall", n.unread) \o Item("call", <<n.name>>) \o
            Concat(Map(n.args, LAMBDA a : IF a = Null THEN Item("missing", << >>) ELSE NodeItems(a)))
      [] OTHER -> Item("unsupported", <<n.node>>)

FunctionItems(f) ==
    LET NamedOnly(p) == IF p.name = "" THEN << >> ELSE Item("declare", <<p.name>>)
        Types(p) == UnreadItem("Parameter", p.unread) \o TypeItem(p.type)
    IN  UnreadItem("Func", f.unread)
        \o (IF f.returnType = Null THEN << >> ELSE TypeItem(f.returnType))
        \o Concat(Map(f.params, Types))
        \o Item("function", <<f.name>>)
        \o (IF f.body = Null THEN << >>
            ELSE InScope(Concat(Map(f.params, NamedOnly)) \o NodeItems(f.body)))

ScriptItems ==
    Concat(Map(script, LAMBDA n : IF n.node = "Func" THEN FunctionItems(n)
                                  ELSE Item("unsupported", <<n.node>>)))
-----------------------------------------------------------------------------
(* The items of a module; `of' is an id where a symbol or a function is    *)
(* meant.                                                                  *)
RECURSIVE ExprItems(_)
ExprItems(id) ==
    LET e == exprs[id] IN
    CASE e.kind = "Literal" -> Item("literal", e.text)
      [] e.kind = "SymbolRef" -> Item("name", e.ref)
      [] e.kind = "Call" -> Item("call", e.ref) \o Concat(Map(e.kids, ExprItems))
      [] IsCompound(e, exprs) ->
            LET value == exprs[e.kids[2]]
            IN  ExprItems(e.kids[1]) \o Item("operator", <<value.text[1] \o "=">>)
                \o ExprItems(value.kids[2])
      [] e.kind \in {"Binary", "Assign"} /\ ~IsCompound(e, exprs) ->
            ExprItems(e.kids[1]) \o Item("operator", e.text) \o ExprItems(e.kids[2])
      [] e.kind = "ImplicitCast" -> ExprItems(e.kids[1])
      [] e.kind = "Error" -> Item("missing", << >>)

RECURSIVE StatementItems(_)
StatementItems(id) ==
    LET s == statements[id]
        kids == Concat(Map(s.kids, ExprItems))
    IN  CASE s.kind = "Block" -> Concat(Map(blocks[s.ref], StatementItems))
          [] s.kind = "VarDecl" -> Item("declare", s.ref) \o kids
          [] s.kind = "Return" -> Item("return", << >>) \o kids
          [] s.kind = "Expr" -> kids
          [] s.kind = "Error" -> Item("missing", << >>)

ModuleItems ==
    LET Parameter(p) == IF p.symbol = Invalid THEN << >> ELSE Item("declare", p.symbol)
        OfFunction(f) ==
            Item("function", f.symbol)
            \o (IF f.body = Invalid THEN << >>
                ELSE Concat(Map(f.parameters, Parameter))
                     \o Concat(Map(blocks[f.body], StatementItems)))
    IN  Concat(Map(functions, OfFunction))

Declaring == {"function", "declare"}
Referring == {"name", "call"}

(* The symbol of an item of the module that declares or refers to one.     *)
SymbolOf(item) == IF item.is = "call" THEN functions[item.of].symbol ELSE item.of

(* An item of the module in the source's words.                            *)
InWords(item) ==
    IF item.is \in Declaring \cup Referring
    THEN [item EXCEPT !.of = <<symbols[SymbolOf(item)].name>>] ELSE item
-----------------------------------------------------------------------------
Only(items, kinds) == SelectSeq(items, LAMBDA item : item.is \in kinds)

(* The declaration an item's name refers to by the rules of lexical scope: *)
(* the last one of that name before it whose scope has not been closed in  *)
(* between; 0 if there is none.                                            *)
Binder(items, use) ==
    LET Depth(p, q) == Cardinality({k \in p..q : items[k].is = "open"})
                       - Cardinality({k \in p..q : items[k].is = "close"})
        visible == {p \in 1..(use - 1) :
                        /\ items[p].is \in Declaring /\ items[p].of = items[use].of
                        /\ \A q \in p..use : Depth(p, q) >= 0}
    IN  Max(visible \cup {0})

(* Items of a script without a counterpart in its module.                  *)
Unbuilt == {"open", "close", "unread"}

Ok == diags = {}

(* If no error is reported, what the module lacks of its script is what is *)
(* never read (Unread, and the last part of a ternary without a second)    *)
(* and nothing else: the declarations, statements, names, literals and     *)
(* operators that can be reached from the module's functions are those of  *)
(* the source, in order, and none is there twice.  An error stands only    *)
(* for an argument the source has left out.  Of the expressions in a body, *)
(* the only one lost is b in `a ? : b': buildCondition takes a null        *)
(* thenExpr for no ternary, and parseCondition leaves it null there        *)
(* without a report.                                                       *)
NothingLost ==
    Finished /\ Ok =>
        Map(ModuleItems, InWords)
            = SelectSeq(ScriptItems, LAMBDA item : item.is \notin Unbuilt)

(* If no error is reported, each name and each call in the module refers   *)
(* to the declaration that its identifier has at its place in the source,  *)
(* which for a call is that of a function.  A variable is visible in its   *)
(* own initializer, and a later declaration in the same scope hides an     *)
(* earlier one.  That is what a name without a scope means.  The scope of  *)
(* `::a' or `x::a' is not read (TODO in buildVarAccess and buildFuncCall): *)
(* of them this says that they are built as `a', be it a local variable.   *)
NamesResolveLexically ==
    Finished /\ Ok =>
        LET items == ScriptItems
            built == ModuleItems
            at == {p \in DOMAIN items : items[p].is \in Declaring \cup Referring}
            bare(p) == Cardinality({q \in 1..p : items[q].is \notin Unbuilt})
        IN  \A p \in at : items[p].is \in Referring =>
                LET binder == Binder(items, p)
                IN  /\ binder # 0
                    /\ SymbolOf(built[bare(p)]) = SymbolOf(built[bare(binder)])
                    /\ items[p].is = "call" => items[binder].is = "function"

(* An error is reported exactly if the script uses something the builder   *)
(* refuses, an unknown type or an identifier nobody has declared, or calls *)
(* what is no function.  What is never read, the scope in front of an      *)
(* identifier too, neither causes a report nor prevents one.               *)
ErrorsReported ==
    Finished =>
        LET items == ScriptItems
            Resolves(p) ==
                LET binder == Binder(items, p)
                IN  binder # 0 /\ (items[p].is = "call" => items[binder].is = "function")
        IN  Ok <=> \A p \in DOMAIN items :
                      /\ items[p].is # "unsupported"
                      /\ items[p].is \in Referring => Resolves(p)
=============================================================================
