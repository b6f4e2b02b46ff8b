---------------------------- MODULE ParserRules ----------------------------
(***************************************************************************)
(* The parse functions of src/parser/parser.cpp, one definition each, in   *)
(* the vocabulary of ParseSteps.  Flags that a function sets on its node   *)
(* (isConst, access, attributes, kinds of postfix, ...) are abstracted;    *)
(* the child nodes and the tokens a node stores are kept.                  *)
(***************************************************************************)
EXTENDS ParseSteps

PrimTypes == {"void", "int", "int8", "int16", "int32", "int64", "uint", "uint8",
              "uint16", "uint32", "uint64", "float", "double", "bool"}

ExprPreOps == {"-", "+", "!", "++", "--", "~", "@", "not"}

ExprOps == {"+", "-", "*", "/", "%", "**", "==", "!=", "<", "<=", ">", ">=", "is",
            "!is", "&&", "||", "^^", "and", "or", "xor", "&", "|", "^", "<<", ">>",
            ">>>"}

AssignOps == {"=", "+=", "-=", "*=", "/=", "|=", "&=", "^=", "%=", "**=", "<<=",
              ">>=", ">>>="}

parseEntityAttribute ==
    All(Token(OneOf({"shared", "external", "abstract", "final"}), "break"))

parseFuncAttr ==
    All(Token(OneOf({"override", "final", "explicit", "property", "delete",
                     "nodiscard"}), "break"))

parseAccessModifier == Token(OneOf({"private", "protected"}), "skip")

parseTypeModifier ==
    When("&", <<Token(OneOf({"in", "out", "inout"}), "skip"),
                Eat("+"), Eat("if_handle_then_const")>>)

parseTemplateTypeArgs(otherwise) ==
    Try(<<Token(Text("<"), "fail"),
          Repeat(<<Any(<<"Type">>, "fail"), SucceedAtGt, Token(Text(","), "fail")>>),
          Fail>>,
        otherwise)

TemplateArgs == parseTemplateTypeArgs(<< >>)

(* IDENTIFIER {'::' IDENTIFIER} of parseNamespace and parseUsing           *)
NamePath == Repeat(<<Name("break"), Token(Text("::"), "break")>>)

(* ';' or a block, in parseFunc and for an accessor                        *)
Body == IfElse(";", << >>, <<May("StatBlock")>>)

(* ':' SCOPE IDENTIFIER {',' ...} of parseClass and parseInterface         *)
Bases == When(":", <<List(Text("{"), <<May("Scope"), Name("skip")>>)>>)

(* [IDENTIFIER ':'] before an argument                                     *)
ArgName == Branch(Before(IsName, {":"}), <<Name("skip"), Eat(":")>>, << >>)

-----------------------------------------------------------------------------
(* Declarations                                                            *)
ScriptKinds ==
    <<"Import", "TypeDef", "Namespace", "Using", "Class", "Interface", "Enum",
      "FuncDef", "Func", "VirtualProp", "Var">>

parseScript(stopAt) ==
    <<Until(stopAt, <<IfElse(";", << >>, <<Any(ScriptKinds, "error")>>)>>)>>

parseNamespace ==
    <<Want("namespace"), NamePath, NonEmpty("null"), Must("{"),
      May("ScriptBody"), Expect("}")>>

parseUsing ==
    <<Want("using"), WantBack("namespace"), NamePath, NonEmpty("back"), Expect(";")>>

parseEnum ==
    <<parseEntityAttribute, WantBack("enum"), Name("null"),
      When(":", <<Keep(OneOf(PrimTypes), "skip")>>), When(";", <<Done>>),
      Expect("{"),
      TrailingList(Text("}"), <<Name("break"), When("=", <<May("Expr")>>)>>),
      Expect("}")>>

(* Definitions whose names start with `Wrong' are faults a change to the    *)
(* code could bring in; the properties are seen to fail with each of them.  *)
WrongClassNotForward ==
    <<Metadata, Eat("mixin"), parseEntityAttribute, WantBack("class"),
      Name("back"), Bases, Expect("{"),
      Members("}", <<"FuncDef", "Func", "VirtualProp", "Var">>), Expect("}")>>

WrongClassUnclosed ==
    <<Metadata, Eat("mixin"), parseEntityAttribute, WantBack("class"),
      Name("back"), When(";", <<Done>>), Bases, Expect("{"),
      Members("}", <<"FuncDef", "Func", "VirtualProp", "Var">>), Eat("}")>>

WrongClassUnnamed ==
    <<Metadata, Eat("mixin"), parseEntityAttribute, WantBack("class"),
      Token(IsName, "back"), When(";", <<Done>>), Bases, Expect("{"),
      Members("}", <<"FuncDef", "Func", "VirtualProp", "Var">>), Expect("}")>>

parseClass ==
    <<Metadata, Eat("mixin"), parseEntityAttribute, WantBack("class"),
      Name("back"), When(";", <<Done>>), Bases, Expect("{"),
      Members("}", <<"FuncDef", "Func", "VirtualProp", "Var">>), Expect("}")>>

parseTypeDef ==
    <<Want("typedef"), Keep(OneOf(PrimTypes), "null"), Name("null"), Expect(";")>>

parseFunc ==
    <<Metadata, parseEntityAttribute, parseAccessModifier,
      IfElse("~", << >>,
        <<Branch(Before(IsName, {"("}), << >>, <<NeedBack("Type"), Eat("&")>>)>>),
      Name("back"), TemplateArgs, NeedBack("ParamList"), May("ListPattern"),
      Eat("const"), parseFuncAttr, Body>>

parseListPattern ==
    <<Want("{"), List(Text("}"), <<NeedBack("ListEntry")>>), NonEmpty("back"),
      WantBack("}")>>

parseListEntry ==
    <<Branch(OneOf({"repeat", "repeat_same"}),
        <<Token(OneOf({"repeat", "repeat_same"}), "skip"),
          IfElse("{", <<May("ListEntry"), Expect("}")>>, <<May("Type")>>), Done>>,
        <<Repeat(<<NeedBreak("Type"),
                   Branch(Before(Text(","), {"repeat", "repeat_same"}),
                          <<Break>>, <<Token(Text(","), "break")>>)>>),
          NonEmpty("back")>>)>>

parseInterface ==
    <<parseEntityAttribute, WantBack("interface"), Name("null"),
      When(";", <<Done>>), Bases, Expect("{"),
      Members("}", <<"InterfaceMethod", "VirtualProp">>), Expect("}")>>

WrongVarUnnamed ==
    <<Metadata, parseAccessModifier, NeedBack("Type"), Ahead(IsName, "back"),
      List(Never, <<Token(IsName, "break"),
                    IfElse("=", <<Any(<<"InitList", "Assign">>, "skip")>>,
                                <<May("ArgList")>>)>>),
      MustBack(";")>>

WrongVarStays ==         \* no rewind when a type is not followed by a name
    <<Metadata, parseAccessModifier, NeedBack("Type"), Ahead(IsName, "null"),
      List(Never, <<Name("break"),
                    IfElse("=", <<Any(<<"InitList", "Assign">>, "skip")>>,
                                <<May("ArgList")>>)>>),
      MustBack(";")>>

parseVar ==
    <<Metadata, parseAccessModifier, NeedBack("Type"), Ahead(IsName, "back"),
      List(Never, <<Name("break"),
                    IfElse("=", <<Any(<<"InitList", "Assign">>, "skip")>>,
                                <<May("ArgList")>>)>>),
      MustBack(";")>>

parseImport ==
    <<Want("import"), Need("Type"), Eat("&"), Name("null"), Need("ParamList"),
      parseFuncAttr, Want("from"), Keep(Kind("String"), "null"), Expect(";")>>

parseFuncDef ==
    <<parseEntityAttribute, WantBack("funcdef"), Need("Type"), Eat("&"),
      Name("null"), Need("ParamList"), Expect(";")>>

parseVirtualProp ==
    <<Metadata, parseAccessModifier, NeedBack("Type"), Eat("&"), Name("back"),
      WantBack("{"), Until(Text("}"), <<Any(<<"Accessor">>, "error"), RefuseSecond>>),
      Expect("}")>>

Accessor == <<Keep(OneOf({"get", "set"}), "null"), Eat("const"), parseFuncAttr, Body>>

parseInterfaceMethod ==
    <<Need("Type"), Eat("&"), Name("back"), NeedBack("ParamList"), Eat("const"),
      parseFuncAttr, MustBack(";")>>

parseParamList ==
    <<Want("("), Branch(Before(Text("void"), {")"}),
                        <<Eat("void"), Eat(")"), Done>>, << >>),
      List(Text(")"), <<NeedBreak("Parameter")>>), Expect(")")>>

parseParameter ==
    <<Need("Type"), parseTypeModifier, Name("skip"),
      IfElse("...", << >>,
             <<When("=", <<IfElse("void", << >>, <<May("Expr")>>)>>)>>)>>

parseType ==
    <<Eat("const"), May("Scope"), NeedBack("DataType"), TemplateArgs,
      Repeat(<<Branch(Before(Text("["), {"]"}), <<Eat("["), Eat("]")>>,
                 <<IfElse("@", <<Eat("+"), Eat("const")>>, <<Break>>)>>)>>)>>

parseScope ==
    <<Keep(Text("::"), "skip"),
      Repeat(<<Try(<<Name("fail"),
                     IfElse("::", << >>,
                       <<DropTypes, parseTemplateTypeArgs(<<Fail>>),
                         Token(Text("::"), "fail")>>)>>,
                   <<Break>>)>>),
      NonEmpty("null")>>

parseDataType == <<Keep([Text("?") EXCEPT !.kinds = {"Name"}], "null")>>

-----------------------------------------------------------------------------
(* Statements                                                              *)
parseStatBlock ==
    <<Want("{"), Members("}", <<"Using", "Var", "Statement">>), Expect("}")>>

parseStatement ==
    <<Offer(<<"If", "For", "ForEach", "While", "Return", "StatBlock", "Break",
              "Continue", "DoWhile", "Switch", "Try", "ExprStat">>, "null")>>

parseSwitch ==
    <<Want("switch"), Must("("), Need("Assign"), Expect(")"), Expect("{"),
      Members("}", <<"Case">>), Expect("}")>>

parseBreak == <<Want("break"), Expect(";")>>

parseFor ==
    <<Want("for"), Must("("), Any(<<"Var", "ExprStat">>, "null"), May("ExprStat"),
      List(Text(")"), <<NeedBreak("Assign")>>), Expect(")"), May("Statement")>>

parseForEach ==
    <<Want("foreach"), Must("("), List(Text(":"), <<NeedBreak("Type"), Name("skip")>>),
      Expect(":"), May("Assign"), Expect(")"), May("Statement")>>

parseWhile ==
    <<Want("while"), Must("("), Need("Assign"), Must(")"), May("Statement")>>

parseDoWhile ==
    <<Want("do"), May("Statement"), Must("while"), Must("("), May("Assign"),
      Expect(")"), Expect(";")>>

parseIf ==
    <<Want("if"), Must("("), Need("Assign"), Must(")"), May("Statement"),
      When("else", <<May("Statement")>>)>>

parseContinue == <<Want("continue"), Expect(";")>>

WrongExprStat == <<When(";", <<Done>>), May("Assign"), Expect(";")>>

parseExprStat == <<When(";", <<Done>>), Need("Assign"), Expect(";")>>

parseTry == <<Want("try"), Need("StatBlock"), Must("catch"), May("StatBlock")>>

parseReturn ==
    <<Want("return"), Branch(Text(";"), << >>, <<May("Assign")>>), Expect(";")>>

parseCase ==
    <<IfElse("case", <<May("Expr")>>, <<Want("default")>>), Expect(":"),
      Until(OneOf({"case", "default", "}"}), <<NeedBreak("Statement")>>)>>

-----------------------------------------------------------------------------
(* Expressions                                                             *)
parseInitList ==
    <<Want("{"), TrailingList(Text("}"), <<Any(<<"InitList", "Assign">>, "break")>>),
      Expect("}")>>

parseExpr == <<Need("ExprTerm"), Repeat(<<NeedBreak("OpTerm")>>)>>

(* One round of parseExpr's loop: without a term, the operator is gone.    *)
OpTerm == <<Keep(OneOf(ExprOps), "null"), Need("ExprTerm")>>

parseExprTerm ==
    <<Branch(Text("{"), <<AnyDone(<<"InitList">>, "skip")>>, << >>),
      Try(<<Any(<<"Type">>, "fail"), Token(Text("="), "fail"),
            AnyDone(<<"InitList">>, "fail")>>, << >>),
      Branch(OneOf(ExprPreOps),
             <<All(Keep(OneOf(ExprPreOps), "break")), NeedBack("ExprValue")>>,
             <<Need("ExprValue")>>),
      Repeat(<<NeedBreak("ExprPostOp")>>)>>

parseExprValue ==
    <<Branch(Text("void"), <<Offer(<<"VoidLiteral">>, "skip")>>, << >>),
      When("(", <<May("Assign"), Expect(")"), Give>>),
      IfLambda(<<Offer(<<"Lambda">>, "null")>>),
      Offer(<<"Cast", "Literal">>, "skip"),
      Try(<<Offer(<<"ConstructorCall">>, "fail")>>, << >>),
      Try(<<Offer(<<"FuncCall">>, "fail")>>, << >>),
      Offer(<<"VarAccess">>, "null")>>

(* The literal that parseExprValue makes of `void' holds no token.         *)
VoidLiteral == <<Want("void")>>

parseConstructorCall == <<Need("Type"), Need("ArgList")>>

(* A failed parseFuncCall leaves the cursor where it got to.               *)
parseExprPostOp ==
    <<When(".", <<AnyDone(<<"FuncCall">>, "skip"), Name("null"), Done>>),
      When("[", <<List(Text("]"), <<ArgName, May("Assign")>>), Expect("]"), Done>>),
      AnyDone(<<"ArgList">>, "skip"), Token(OneOf({"++", "--"}), "null")>>

parseCast ==
    <<Want("cast"), Must("<"), May("Type"), Expect(">"), Expect("("), May("Assign"),
      Expect(")")>>

parseLambda ==
    <<Want("function"), Expect("("), List(Text(")"), <<NeedBreak("LambdaParam")>>),
      Expect(")"), May("StatBlock")>>

parseLambdaParam == <<May("Type"), parseTypeModifier, Name("skip")>>

parseLiteral ==
    <<Keep([OneOf({"true", "false", "null", "void"})
               EXCEPT !.kinds = {"Number", "String", "Bits"}], "null")>>

parseFuncCall == <<May("Scope"), Name("null"), TemplateArgs, Need("ArgList")>>

parseVarAccess == <<May("Scope"), Name("null")>>

parseArgList ==
    <<Want("("), List(Text(")"), <<ArgName, May("Assign")>>), Expect(")")>>

parseAssign ==
    <<Need("Condition"),
      Branch(OneOf(AssignOps),
             <<Keep(OneOf(AssignOps), "skip"), Any(<<"Assign">>, "report")>>, << >>)>>

parseCondition ==
    <<Need("Expr"), When("?", <<May("Assign"), Expect(":"), May("Assign")>>)>>

-----------------------------------------------------------------------------
(* The parse functions by the kind of node they return.                    *)
Rules == [
    Script |-> parseScript(Never), ScriptBody |-> parseScript(Text("}")),
    Namespace |-> parseNamespace, Using |-> parseUsing, Enum |-> parseEnum,
    Class |-> parseClass, TypeDef |-> parseTypeDef, Func |-> parseFunc,
    ListPattern |-> parseListPattern, ListEntry |-> parseListEntry,
    Interface |-> parseInterface, Var |-> parseVar, Import |-> parseImport,
    FuncDef |-> parseFuncDef, VirtualProp |-> parseVirtualProp,
    Accessor |-> Accessor, InterfaceMethod |-> parseInterfaceMethod,
    StatBlock |-> parseStatBlock, ParamList |-> parseParamList,
    Parameter |-> parseParameter, Type |-> parseType, InitList |-> parseInitList,
    Scope |-> parseScope, DataType |-> parseDataType, Statement |-> parseStatement,
    Switch |-> parseSwitch, Break |-> parseBreak, For |-> parseFor,
    ForEach |-> parseForEach, While |-> parseWhile, DoWhile |-> parseDoWhile,
    If |-> parseIf, Continue |-> parseContinue, ExprStat |-> parseExprStat,
    Try |-> parseTry, Return |-> parseReturn, Case |-> parseCase,
    Expr |-> parseExpr, OpTerm |-> OpTerm, ExprTerm |-> parseExprTerm,
    ExprValue |-> parseExprValue, VoidLiteral |-> VoidLiteral,
    ConstructorCall |-> parseConstructorCall, ExprPostOp |-> parseExprPostOp,
    Cast |-> parseCast, Lambda |-> parseLambda, LambdaParam |-> parseLambdaParam,
    Literal |-> parseLiteral, FuncCall |-> parseFuncCall,
    VarAccess |-> parseVarAccess, ArgList |-> parseArgList,
    Assign |-> parseAssign, Condition |-> parseCondition]
=============================================================================
