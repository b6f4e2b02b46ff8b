---------------------------- MODULE SourceLines ----------------------------
(***************************************************************************)
(* Where formatDiagnostics (src/parser/parser.cpp) shows a span: the line  *)
(* and column of an offset, the text of that line, and the carets below    *)
(* it.  The numbers' widths, the gutter and the wording are left out.      *)
(***************************************************************************)
EXTENDS Lexer, FiniteSets

WrongLineColumn(s, o) ==    \* columns of later lines count from zero
    LET end == Min({o, Len(s)})
        at[i \in 0..end] ==
            IF i = 0 THEN [line |-> 1, column |-> 1]
            ELSE IF s[i] = "LF" THEN [line |-> at[i - 1].line + 1, column |-> 0]
            ELSE [at[i - 1] EXCEPT !.column = IF s[i] = "CR" THEN @ ELSE @ + 1]
    IN  at[end]

(* offsetToLineColumn: a carriage return takes no column.                  *)
LineColumn(s, o) ==
    LET end == Min({o, Len(s)})
        at[i \in 0..end] ==
            IF i = 0 THEN [line |-> 1, column |-> 1]
            ELSE IF s[i] = "LF" THEN [line |-> at[i - 1].line + 1, column |-> 1]
            ELSE [at[i - 1] EXCEPT !.column = IF s[i] = "CR" THEN @ ELSE @ + 1]
    IN  at[end]

LineFeeds(s, p) == {q \in 0..(p - 1) : At(s, q) = "LF"}

(* getSourceLine: from behind the line feed before it to the one after it, *)
(* without the carriage return the line may end in.                        *)
SourceLine(s, line) ==
    LET begins == {q \in 0..Len(s) : /\ q = 0 \/ At(s, q - 1) = "LF"
                                     /\ Cardinality(LineFeeds(s, q)) = line - 1}
        begin == Min(begins)
        end == Until(s, begin, {"LF"})
        trailing == IF begin < end /\ At(s, end - 1) = "CR" THEN 1 ELSE 0
    IN  IF begins = {} THEN << >> ELSE SubSeq(s, begin + 1, end - trailing)

Carets(s, span) ==
    [column |-> LineColumn(s, span.offset).column,
     length |-> Max({span.length, 1})]
-----------------------------------------------------------------------------
(* A carriage return that ends no line: the lexer takes it for a line      *)
(* break, the columns do not.                                              *)
LoneReturn(s) == \E p \in 0..(Len(s) - 1) : At(s, p) = "CR" /\ At(s, p + 1) # "LF"

(* A report about a token shows the line that holds the token, and the     *)
(* first caret stands below its first character: what the line has to the  *)
(* left of the caret is what the source has between the line feed before   *)
(* the token and the token.  The carets do not run past the line unless    *)
(* the token does, or is the end of the line.                              *)
CaretUnderToken ==
    ~LoneReturn(source) =>
        \A i \in 1..Len(lexemes) :
            LET t == lexemes[i]
                line == SourceLine(source, LineColumn(source, t.offset).line)
                carets == Carets(source, t)
                begin == Max({0} \cup {q + 1 : q \in LineFeeds(source, t.offset)})
                broken == \E q \in t.offset..(EndOf(t) - 1) : At(source, q) \in Breaks
            IN  /\ carets.column \in 1..(Len(line) + 1)
                /\ SubSeq(line, 1, carets.column - 1) = SubSeq(source, begin + 1, t.offset)
                /\ ~IsEof(t) => At(line, carets.column - 1) = At(source, t.offset)
                /\ ~IsEof(t) /\ ~broken => carets.column + carets.length - 1 <= Len(line)
=============================================================================
