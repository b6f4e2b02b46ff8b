------------------------------ MODULE Grammar ------------------------------
(***************************************************************************)
(* The language bnf.txt describes, as a reference the parser can be held   *)
(* against: each production as data, and which spans of a token sequence   *)
(* it derives.  Tokens are records with a text and a kind.                 *)
(***************************************************************************)
EXTENDS Integers, Sequences

T(t) == [is |-> "text", texts |-> {t}]
TextIn(ts) == [is |-> "text", texts |-> ts]
TokenOf(k) == [is |-> "kind", kind |-> k]
N(name) == [is |-> "symbol", name |-> name]
InTurn(es) == [is |-> "then", parts |-> es]
Or(es) == [is |-> "or", parts |-> es]
Opt(e) == Or(<<e, InTurn(<< >>)>>)
Rep(e) == [is |-> "rep", part |-> e]
Sep(e) == InTurn(<<e, Rep(InTurn(<<T(","), e>>))>>)       \* e {',' e}

Identifier == TokenOf("Name")
Argument == InTurn(<<Opt(InTurn(<<Identifier, T(":")>>)), N("ASSIGN")>>)
Path == InTurn(<<Identifier, Rep(InTurn(<<T("::"), Identifier>>))>>)
TypeArgs == Opt(InTurn(<<T("<"), Sep(N("TYPE")), T(">")>>))
Flags(ts) == Rep(TextIn(ts))
Access == Opt(TextIn({"private", "protected"}))
Ref == Opt(T("&"))
Base == InTurn(<<N("SCOPE"), Identifier>>)
Inherits == Opt(InTurn(<<T(":"), Sep(Base)>>))
Declarator ==
    InTurn(<<Identifier, Opt(Or(<<InTurn(<<T("="), Or(<<N("INITLIST"), N("ASSIGN")>>)>>),
                                 N("ARGLIST")>>))>>)
Primitives == {"void", "int", "int8", "int16", "int32", "int64", "uint", "uint8",
               "uint16", "uint32", "uint64", "float", "double", "bool"}

(* The words bnf.txt gives a role at the start of a construct or between   *)
(* two; C++, to which bnf.txt refers for IDENTIFIER, reserves such words.  *)
Reserved == Primitives \cup
    {"import", "enum", "typedef", "class", "interface", "funcdef", "namespace", "using",
     "mixin", "shared", "external", "abstract", "final", "private", "protected", "const",
     "if", "else", "for", "foreach", "while", "do", "return", "break", "continue",
     "switch", "case", "default", "try", "catch", "cast", "function", "true", "false",
     "null", "is", "and", "or", "xor"}

(* A sentence whose reserved words are no identifiers.                     *)
Reserving(w) ==
    [i \in 1..Len(w) |->
        IF w[i].text \in Reserved THEN [w[i] EXCEPT !.kind = "Reserved"] ELSE w[i]]

Productions == [
    SCRIPT |-> Rep(Or(<<N("IMPORT"), N("ENUM"), N("TYPEDEF"), N("CLASS"),
        N("INTERFACE"), N("FUNCDEF"), N("VIRTUALPROP"), N("VAR"), N("FUNC"),
        N("NAMESPACE"), N("USING"), T(";")>>)),
    NAMESPACE |-> InTurn(<<T("namespace"), Path, T("{"), N("SCRIPT"), T("}")>>),
    USING |-> InTurn(<<T("using"), T("namespace"), Path, T(";")>>),
    ENUM |-> InTurn(<<Flags({"shared", "external"}), T("enum"), Identifier,
        Opt(InTurn(<<T(":"), TextIn(Primitives \ {"void", "float", "double", "bool"})>>)),
        Or(<<T(";"), InTurn(<<T("{"), Sep(InTurn(<<Identifier,
             Opt(InTurn(<<T("="), N("EXPR")>>))>>)), T("}")>>)>>)>>),
    CLASS |-> InTurn(<<Opt(T("mixin")), Flags({"shared", "abstract", "final", "external"}),
        T("class"), Identifier, Or(<<T(";"), InTurn(<<Inherits, T("{"),
        Rep(Or(<<N("VIRTUALPROP"), N("FUNC"), N("VAR"), N("FUNCDEF")>>)), T("}")>>)>>)>>),
    TYPEDEF |-> InTurn(<<T("typedef"), TextIn(Primitives), Identifier, T(";")>>),
    FUNC |-> InTurn(<<Flags({"shared", "external"}), Access,
        Opt(Or(<<InTurn(<<N("TYPE"), Ref>>), T("~")>>)), Identifier, TypeArgs,
        N("PARAMLIST"), Opt(N("LISTPATTERN")), Opt(T("const")), N("FUNCATTR"),
        Or(<<T(";"), N("STATBLOCK")>>)>>),
    FUNCATTR |-> Flags({"override", "final", "explicit", "property", "delete", "nodiscard"}),
    LISTPATTERN |-> InTurn(<<T("{"), Sep(N("LISTENTRY")), T("}")>>),
    LISTENTRY |-> Or(<<InTurn(<<TextIn({"repeat", "repeat_same"}),
        Or(<<InTurn(<<T("{"), N("LISTENTRY"), T("}")>>), N("TYPE")>>)>>), Sep(N("TYPE"))>>),
    INTERFACE |-> InTurn(<<Flags({"external", "shared"}), T("interface"), Identifier,
        Or(<<T(";"), InTurn(<<Inherits, T("{"),
             Rep(Or(<<N("VIRTUALPROP"), N("INTERFACEMETHOD")>>)), T("}")>>)>>)>>),
    VAR |-> InTurn(<<Access, N("TYPE"), Sep(Declarator), T(";")>>),
    IMPORT |-> InTurn(<<T("import"), N("TYPE"), Ref, Identifier, N("PARAMLIST"),
        N("FUNCATTR"), T("from"), TokenOf("String"), T(";")>>),
    FUNCDEF |-> InTurn(<<Flags({"external", "shared"}), T("funcdef"), N("TYPE"), Ref,
        Identifier, N("PARAMLIST"), T(";")>>),
    VIRTUALPROP |-> InTurn(<<Access, N("TYPE"), Ref, Identifier, T("{"),
        Rep(InTurn(<<TextIn({"get", "set"}), Opt(T("const")), N("FUNCATTR"),
                    Or(<<N("STATBLOCK"), T(";")>>)>>)), T("}")>>),
    INTERFACEMETHOD |-> InTurn(<<N("TYPE"), Ref, Identifier, N("PARAMLIST"),
        Opt(T("const")), N("FUNCATTR"), T(";")>>),
    STATBLOCK |-> InTurn(<<T("{"), Rep(Or(<<N("VAR"), N("STATEMENT"), N("USING")>>)), T("}")>>),
    PARAMLIST |-> InTurn(<<T("("), Opt(Or(<<T("void"), Sep(N("PARAMETER"))>>)), T(")")>>),
    PARAMETER |-> InTurn(<<N("TYPE"), N("TYPEMODIFIER"), Opt(Identifier),
        Opt(Or(<<T("..."), InTurn(<<T("="), Or(<<N("EXPR"), T("void")>>)>>)>>))>>),
    TYPEMODIFIER |-> Opt(InTurn(<<T("&"), Opt(TextIn({"in", "out", "inout"})),
        Opt(T("+")), Opt(T("if_handle_then_const"))>>)),
    TYPE |-> InTurn(<<Opt(T("const")), N("SCOPE"), N("DATATYPE"), TypeArgs,
        Rep(Or(<<InTurn(<<T("["), T("]")>>), InTurn(<<T("@"), Opt(T("const"))>>)>>))>>),
    INITLIST |-> InTurn(<<T("{"), Sep(Opt(Or(<<N("ASSIGN"), N("INITLIST")>>))), T("}")>>),
    SCOPE |-> InTurn(<<Opt(T("::")), Rep(InTurn(<<Identifier, T("::")>>)),
        Opt(InTurn(<<Identifier, TypeArgs, T("::")>>))>>),
    DATATYPE |-> Or(<<Identifier, TextIn(Primitives \cup {"?", "auto"})>>),
    STATEMENT |-> Or(<<N("IF_"), N("FOR"), N("FOREACH"), N("WHILE"), N("RETURN"),
        N("STATBLOCK"), N("BREAK"), N("CONTINUE"), N("DOWHILE"), N("SWITCH"),
        N("EXPRSTAT"), N("TRY")>>),
    SWITCH |-> InTurn(<<T("switch"), T("("), N("ASSIGN"), T(")"), T("{"), Rep(N("CASE_")),
        T("}")>>),
    BREAK |-> InTurn(<<T("break"), T(";")>>),
    FOR |-> InTurn(<<T("for"), T("("), Or(<<N("VAR"), N("EXPRSTAT")>>), N("EXPRSTAT"),
        Opt(Sep(N("ASSIGN"))), T(")"), N("STATEMENT")>>),
    FOREACH |-> InTurn(<<T("foreach"), T("("), Sep(InTurn(<<N("TYPE"), Identifier>>)), T(":"),
        N("ASSIGN"), T(")"), N("STATEMENT")>>),
    WHILE |-> InTurn(<<T("while"), T("("), N("ASSIGN"), T(")"), N("STATEMENT")>>),
    DOWHILE |-> InTurn(<<T("do"), N("STATEMENT"), T("while"), T("("), N("ASSIGN"), T(")"),
        T(";")>>),
    IF_ |-> InTurn(<<T("if"), T("("), N("ASSIGN"), T(")"), N("STATEMENT"),
        Opt(InTurn(<<T("else"), N("STATEMENT")>>))>>),
    CONTINUE |-> InTurn(<<T("continue"), T(";")>>),
    EXPRSTAT |-> InTurn(<<Opt(N("ASSIGN")), T(";")>>),
    TRY |-> InTurn(<<T("try"), N("STATBLOCK"), T("catch"), N("STATBLOCK")>>),
    RETURN |-> InTurn(<<T("return"), Opt(N("ASSIGN")), T(";")>>),
    CASE_ |-> InTurn(<<Or(<<InTurn(<<T("case"), N("EXPR")>>), T("default")>>), T(":"),
        Rep(N("STATEMENT"))>>),
    EXPR |-> InTurn(<<N("EXPRTERM"), Rep(InTurn(<<N("EXPROP"), N("EXPRTERM")>>))>>),
    EXPRTERM |-> Or(<<InTurn(<<Opt(InTurn(<<N("TYPE"), T("=")>>)), N("INITLIST")>>),
        InTurn(<<Rep(TextIn({"-", "+", "!", "++", "--", "~", "@"})), N("EXPRVALUE"),
                Rep(N("EXPRPOSTOP"))>>)>>),
    EXPRVALUE |-> Or(<<N("CONSTRUCTORCALL"), N("FUNCCALL"), N("VARACCESS"), N("CAST"),
        N("LITERAL"), InTurn(<<T("("), N("ASSIGN"), T(")")>>), N("LAMBDA_")>>),
    CONSTRUCTORCALL |-> InTurn(<<N("TYPE"), N("ARGLIST")>>),
    EXPRPOSTOP |-> Or(<<InTurn(<<T("."), Or(<<N("FUNCCALL"), Identifier>>)>>),
        InTurn(<<T("["), Sep(Argument), T("]")>>), N("ARGLIST"), T("++"), T("--")>>),
    CAST |-> InTurn(<<T("cast"), T("<"), N("TYPE"), T(">"), T("("), N("ASSIGN"), T(")")>>),
    LAMBDA_ |-> InTurn(<<T("function"), T("("), Opt(Sep(N("LAMBDAPARAM"))), T(")"),
        N("STATBLOCK")>>),
    LAMBDAPARAM |-> InTurn(<<Opt(InTurn(<<N("TYPE"), N("TYPEMODIFIER")>>)), Opt(Identifier)>>),
    LITERAL |-> Or(<<TokenOf("Number"), TokenOf("String"),
        TextIn({"true", "false", "null", "void"})>>),
    FUNCCALL |-> InTurn(<<N("SCOPE"), Identifier, TypeArgs, N("ARGLIST")>>),
    VARACCESS |-> InTurn(<<N("SCOPE"), Identifier>>),
    ARGLIST |-> InTurn(<<T("("), Sep(Argument), T(")")>>),
    ASSIGN |-> InTurn(<<N("CONDITION"), Opt(InTurn(<<N("ASSIGNOP"), N("ASSIGN")>>))>>),
    CONDITION |-> InTurn(<<N("EXPR"), Opt(InTurn(<<T("?"), N("ASSIGN"), T(":"),
        N("ASSIGN")>>))>>),
    EXPROP |-> TextIn({"+", "-", "*", "/", "%", "**", "==", "!=", "<", "<=", ">", ">=",
        "is", "!is", "&&", "||", "^^", "and", "or", "xor", "&", "|", "^", "<<", ">>", ">>>"}),
    ASSIGNOP |-> TextIn({"=", "+=", "-=", "*=", "/=", "|=", "&=", "^=", "%=", "**=",
        "<<=", ">>=", ">>>="})]

RECURSIVE Ends(_, _, _), EndsOfThen(_, _, _), EndsOfRep(_, _, _)

(* The positions a derivation of e from position i of w can end before.    *)
Ends(e, w, i) ==
    CASE e.is = "text"   -> {j \in {i + 1} : i <= Len(w) /\ w[i].text \in e.texts}
      [] e.is = "kind"   -> {j \in {i + 1} : i <= Len(w) /\ w[i].kind = e.kind}
      [] e.is = "symbol" -> Ends(Productions[e.name], w, i)
      [] e.is = "or"     -> UNION {Ends(e.parts[k], w, i) : k \in 1..Len(e.parts)}
      [] e.is = "then"   -> EndsOfThen(e.parts, w, {i})
      [] e.is = "rep"    -> EndsOfRep(e.part, w, {i})

EndsOfThen(es, w, from) ==
    IF es = << >> \/ from = {} THEN from
    ELSE EndsOfThen(Tail(es), w, UNION {Ends(Head(es), w, i) : i \in from})

EndsOfRep(e, w, reached) ==
    LET more == reached \cup UNION {Ends(e, w, i) : i \in reached}
    IN  IF more = reached THEN reached ELSE EndsOfRep(e, w, more)

Derives(name, w) == Len(w) + 1 \in Ends(N(name), w, 1)
=============================================================================
