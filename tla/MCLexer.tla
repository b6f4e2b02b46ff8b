------------------------------ MODULE MCLexer ------------------------------
(* Small sources for Lexer: every text of a bounded length over each of a  *)
(* few alphabets, which hold the characters that compete for a token.      *)
EXTENDS SourceLines

CONSTANT Alphabets

OfLength(most, characters) == [most |-> most, characters |-> characters]

MCAlphabets == {
    OfLength(5, {"0", "1", ".", "e", "+", "f"}),             \* numbers
    OfLength(3, {"0", "x", "b", "1", "7", "a", "."}),
    OfLength(7, {"QUOTE", "a", "LF"}),                       \* strings, heredocs
    OfLength(5, {"QUOTE", "'", "BACKSLASH", "a", "LF"}),
    OfLength(5, {"/", "*", "LF", "CR", "a"}),                \* comments
    OfLength(4, {">", "=", "<", "*", "!"}),                  \* operators
    OfLength(4, {"!", "i", "s", ".", "&", ":", "#"}),
    OfLength(4, {"xEF", "xBB", "xBF", "a", "SP", "$"})}      \* names, byte-order marks

MCSources ==
    UNION {UNION {[1..n -> a.characters] : n \in 0..a.most} : a \in Alphabets}
=============================================================================
