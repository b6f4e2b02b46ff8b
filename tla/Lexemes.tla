------------------------------ MODULE Lexemes ------------------------------
(* What the lexer hands to the token buffer (LexicalToken in               *)
(* include/light_angel/parser/token.h): a kind, a span, and, since a token *)
(* may be split later, the number of '>' its text starts with.             *)
EXTENDS Integers, Sequences

Kinds == {"Name", "Number", "String", "Punctuator", "Unknown", "EndOfFile"}

Lexeme == [kind : Kinds, offset : Nat, length : Nat, gts : Nat]

IsEof(t) == t.kind = "EndOfFile"

Chars(t) == t.offset .. (t.offset + t.length - 1)

EndOf(t) == t.offset + t.length

(* Lexemes come in source order without overlapping, each holds at least   *)
(* one character, and the last one, only, is the empty end of file.        *)
WellLexed(s) ==
    /\ s \in Seq(Lexeme)
    /\ Len(s) >= 1
    /\ \A i \in 1..Len(s) :
          /\ s[i].kind = "EndOfFile" <=> i = Len(s)
          /\ s[i].length = 0 <=> i = Len(s)
          /\ s[i].gts <= s[i].length
    /\ \A i, j \in 1..Len(s) : i < j => s[i].offset + s[i].length <= s[j].offset
=============================================================================
