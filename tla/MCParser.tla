----------------------------- MODULE MCParser -----------------------------
(* Small sources for Parser.  A scenario is a fixed beginning, every        *)
(* sequence of at most so many of the given words, and a fixed end.  A      *)
(* token that consumeOneGt may split has its width, every other token       *)
(* counts as one character, and there is a space between two tokens.        *)
EXTENDS ParserLanguage

CONSTANT Scenarios

Scenario(begin, words, most, end) ==
    [begin |-> begin, words |-> words, most |-> most, end |-> end]

InClass == <<"class", "a", "{">>
InFunction == <<"void", "f", "(", ")", "{">>
InBody == InFunction \o <<";">>         \* the ';' keeps it from being a list pattern
InTemplate == InBody \o <<"a", "<">>
AfterIf == InBody \o <<"if", "(", "a", ")">>
AfterGetter == <<"a", "a", "{", "get", ";">>
Close == <<"}">>
EndStatement == <<";", "}">>
Closing == <<")", "{", "}">>

Backtracking == {
    Scenario(InTemplate, {"a", "<", ">>", ">", "(", "["}, 3, EndStatement),
    Scenario(<< >>, {"a", "[", "::", "<"}, 3, << >>),
    Scenario(InBody \o <<"a", "=", "function", "(">>, {"a", ",", ")", "{"}, 2, Closing)}

Declarations == {
    Scenario(<< >>, {"class", "{", "}", ";", "namespace", "a"}, 4, << >>)}

Programs == {
    Scenario(InClass, {"{", "}", ";", "a", "(", ")"}, 4, Close),
    Scenario(AfterIf, {"else", "=", ";", "a", "("}, 4, EndStatement),
    Scenario(AfterGetter, {"get", "set", ";", "{", "}"}, 4, Close)}

Protocol == {
    Scenario(InTemplate, {"a", ";", "<", ">>", "("}, 2, EndStatement),
    Scenario(InClass, {"a", "[", "{", "function", "(", ","}, 2, << >>),
    Scenario(InBody \o <<"a", "=">>, {"function", "(", ")", "{", ","}, 2, << >>)}

MemberAccess == {Scenario(InBody, {"a", ".", ";"}, 3, EndStatement)}
ReturnValue == {Scenario(InBody, {"a", "return", "+"}, 4, EndStatement)}
Shifting == {Scenario(InTemplate, {"a", "<", ">>"}, 3, EndStatement)}
Lambdas == {Scenario(InBody \o <<"a", "=", "function", "(">>, {";", ")", "{", "}"}, 4, Close)}
HalfAnIf == {Scenario(InBody, {"if", "(", ")", "a", ";"}, 3, Close)}

Puncts == {"<", ">", ">>", ">=", ">>=", ">>>", ">>>=", "(", ")", "{", "}", "[", "]",
           ",", ";", ":", "::", ".", "=", "+", "-", "&", "@", "?", "~", "!", "++"}

KindOf(t) ==
    CASE t \in Puncts -> "Punctuator"
      [] t = "1" -> "Number"
      [] t = "'s'" -> "String"
      [] OTHER -> "Name"

WidthOf(t) ==
    CASE t \in {">>", ">="} -> 2
      [] t \in {">>=", ">>>"} -> 3
      [] t = ">>>=" -> 4
      [] OTHER -> 1

Laid(ws) ==
    LET n == Len(ws)
        begin[i \in 1..(n + 1)] ==
            IF i = 1 THEN 0 ELSE begin[i - 1] + WidthOf(ws[i - 1]) + 1
    IN  [i \in 1..(n + 1) |->
            IF i <= n
            THEN [text |-> ws[i], kind |-> KindOf(ws[i]), offset |-> begin[i],
                  length |-> WidthOf(ws[i])]
            ELSE [text |-> "", kind |-> "EndOfFile", offset |-> begin[i], length |-> 0]]

MCWords == STRING

MCInputs ==
    UNION {{Laid(c.begin \o ws \o c.end) :
                ws \in UNION {[1..n -> c.words] : n \in 0..c.most}} : c \in Scenarios}
===========================================================================
