-------------------------- MODULE MCParserContext --------------------------
(* Small sources for ParserContext: every sequence of at most MaxLexemes    *)
(* lexemes over a name, '>', '>>', '>>=' and a character no token starts    *)
(* with.  Lexemes of one class are a space apart, others touch.             *)
EXTENDS ParserContext, FiniteSets

CONSTANT MaxLexemes

Pieces == {
    [kind |-> "Name",       length |-> 1, gts |-> 0],
    [kind |-> "Punctuator", length |-> 1, gts |-> 1],
    [kind |-> "Punctuator", length |-> 2, gts |-> 2],
    [kind |-> "Punctuator", length |-> 3, gts |-> 2],
    [kind |-> "Unknown",    length |-> 1, gts |-> 0]}

Laid(ps) ==
    LET n == Len(ps)
        Gap(i) == IF i > 1 /\ ps[i].kind = ps[i - 1].kind THEN 1 ELSE 0
        begin[i \in 1..n] ==
            IF i = 1 THEN 0 ELSE begin[i - 1] + ps[i - 1].length + Gap(i)
        size == IF n = 0 THEN 0 ELSE begin[n] + ps[n].length
    IN  [i \in 1..(n + 1) |->
            IF i <= n
            THEN [kind |-> ps[i].kind, offset |-> begin[i],
                  length |-> ps[i].length, gts |-> ps[i].gts]
            ELSE [kind |-> "EndOfFile", offset |-> size, length |-> 0, gts |-> 0]]

MCSources == UNION {{Laid(ps) : ps \in [1..n -> Pieces]} : n \in 0..MaxLexemes}
=============================================================================
