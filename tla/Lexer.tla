------------------------------- MODULE Lexer -------------------------------
(***************************************************************************)
(* Lex (src/parser/lexer.cpp): the next token of a source, or the end of   *)
(* file, with white space, byte-order marks and comments skipped.  Every   *)
(* turn of the loop in Lex is one action, and Lex is called until it has   *)
(* yielded the end of file, which is what ensureAhead does bit by bit.     *)
(*                                                                         *)
(* A source is the sequence of its characters; a character is itself, or a *)
(* name for one that cannot be written as itself.  What a token is besides *)
(* its kind and span is the number of '>' it starts with, as in            *)
(* ParserContext.                                                          *)
(***************************************************************************)
EXTENDS Lexemes, FiniteSetsExt

CONSTANT Sources        \* the sources, each a sequence of characters

ASSUME SourcesAssumption == \A s \in Sources : s \in Seq(STRING)

VARIABLES
    source,
    offset,             \* m_offset of the LexerState
    lexemes             \* what Lex has yielded so far

vars == <<source, offset, lexemes>>
-----------------------------------------------------------------------------
Nul == "NUL"            \* what peek and peekAt answer beyond the source

Breaks == {"LF", "CR"}
Blanks == {"SP", "TAB"} \cup Breaks
ByteOrderMark == <<"xEF", "xBB", "xBF">>
HighBytes == {"xEF", "xBB", "xBF", "xC3"}

BinaryDigits == {"0", "1"}
OctalDigits == BinaryDigits \cup {"2", "3", "4", "5", "6", "7"}
Digits == OctalDigits \cup {"8", "9"}
HexDigits == Digits \cup {"a", "b", "c", "d", "e", "f", "A", "B", "C", "D", "E", "F"}

Letters == {
    "a", "b", "c", "d", "e", "f", "g", "h", "i", "j", "k", "l", "m",
    "n", "o", "p", "q", "r", "s", "t", "u", "v", "w", "x", "y", "z",
    "A", "B", "C", "D", "E", "F", "G", "H", "I", "J", "K", "L", "M",
    "N", "O", "P", "Q", "R", "S", "T", "U", "V", "W", "X", "Y", "Z", "_"}

NameStarts == Letters \cup HighBytes
NameChars == NameStarts \cup Digits
-----------------------------------------------------------------------------
At(s, p) == IF p < Len(s) THEN s[p + 1] ELSE Nul

Spells(s, p, text) == \A i \in 1..Len(text) : At(s, p + i - 1) = text[i]

(* Where a run of characters of a class ends, where one of a class comes.  *)
Beyond(s, p, class) == Min({q \in p..Len(s) : q = Len(s) \/ At(s, q) \notin class})

Until(s, p, class) == Min({q \in p..Len(s) : q = Len(s) \/ At(s, q) \in class})

WrongPast(s, p, text) ==    \* a missing end leads beyond the source
    LET ends == {q \in p..Len(s) : Spells(s, q, text)} IN
    IF ends = {} THEN Len(s) + Len(text) ELSE Min(ends) + Len(text)

(* The position after the next `text', or the end of the source.           *)
Past(s, p, text) ==
    LET ends == {q \in p..Len(s) : Spells(s, q, text)} IN
    IF ends = {} THEN Len(s) ELSE Min(ends) + Len(text)
-----------------------------------------------------------------------------
LineComment == <<"/", "/">>
CommentOpens == <<"/", "*">>
CommentCloses == <<"*", "/">>

BeginsComment(s, p) == Spells(s, p, LineComment) \/ Spells(s, p, CommentOpens)

WrongCommentEnd(s, p) ==    \* the '*' that opens may also close
    IF Spells(s, p, LineComment) THEN Until(s, p + 2, Breaks)
    ELSE Past(s, p + 1, CommentCloses)

CommentEnd(s, p) ==
    IF Spells(s, p, LineComment) THEN Until(s, p + 2, Breaks)
    ELSE Past(s, p + 2, CommentCloses)

BeginsNumber(s, p) ==
    \/ At(s, p) \in Digits
    \/ At(s, p) = "." /\ At(s, p + 1) \in Digits

DigitsOf(prefix) ==
    CASE prefix \in {"b", "B"} -> BinaryDigits
      [] prefix \in {"o", "O"} -> OctalDigits
      [] prefix \in {"d", "D"} -> Digits
      [] prefix \in {"x", "X"} -> HexDigits
      [] OTHER -> {}

(* The ends of the fraction and of the exponent of a number, given where   *)
(* what precedes them ends.                                                *)
FractionEnd(s, p) ==
    IF At(s, p) = "." /\ At(s, p + 1) \in Digits THEN Beyond(s, p + 1, Digits) ELSE p

ExponentEnd(s, p) ==
    CASE At(s, p) \in {"e", "E"} /\ At(s, p + 1) \in Digits ->
            Beyond(s, p + 2, Digits)
      [] At(s, p) \in {"e", "E"} /\ At(s, p + 1) \in {"+", "-"} /\ At(s, p + 2) \in Digits ->
            Beyond(s, p + 3, Digits)
      [] OTHER -> p

WrongNumberEnd(s, p) ==     \* a fraction needs an integer part
    LET whole == Beyond(s, p, Digits)
        digits == IF whole > p THEN ExponentEnd(s, FractionEnd(s, whole)) ELSE p
    IN  IF At(s, p) = "0" /\ DigitsOf(At(s, p + 1)) # {}
        THEN Beyond(s, p + 2, DigitsOf(At(s, p + 1)))
        ELSE IF digits > whole /\ At(s, digits) \in {"f", "F"} THEN digits + 1 ELSE digits

NumberEnd(s, p) ==
    LET whole == Beyond(s, p, Digits)
        digits == ExponentEnd(s, FractionEnd(s, whole))
    IN  IF At(s, p) = "0" /\ DigitsOf(At(s, p + 1)) # {}
        THEN Beyond(s, p + 2, DigitsOf(At(s, p + 1)))
        ELSE IF digits > whole /\ At(s, digits) \in {"f", "F"} THEN digits + 1 ELSE digits

Quotes == {"'", "QUOTE"}
Heredoc == <<"QUOTE", "QUOTE", "QUOTE">>

BeginsString(s, p) == At(s, p) \in Quotes

(* A backslash escapes the next character, unless it is escaped itself.    *)
StringEnd(s, p) ==
    LET escaping[q \in (p + 1)..Len(s)] ==
            q > p + 1 /\ At(s, q - 1) = "BACKSLASH" /\ ~escaping[q - 1]
        stop == Min({q \in (p + 1)..Len(s) :
                        \/ q = Len(s)
                        \/ At(s, q) \in Breaks
                        \/ At(s, q) = At(s, p) /\ ~escaping[q]})
    IN  IF Spells(s, p, Heredoc) THEN Past(s, p + 3, Heredoc)
        ELSE IF stop < Len(s) /\ At(s, stop) = At(s, p) THEN stop + 1 ELSE stop

Singles == {"#", "(", ")", ",", ";", "?", "@", "[", "]", "{", "}", "~"}

WrongGtPunctuators(c) ==    \* '>>' is tried before '>>='
    <<<<c, c, c, "=">>, <<c, c, c>>, <<c, "=">>, <<c, c>>, <<c, c, "=">>, <<c>>>>

GtPunctuators(c) ==
    <<<<c, c, c, "=">>, <<c, c, "=">>, <<c, c, c>>, <<c, "=">>, <<c, c>>, <<c>>>>

(* What may start with a character, in the order the code tries it.        *)
PunctuatorsFrom(c) ==
    CASE c = "!"                         -> <<<<c, "i", "s">>, <<c, "=">>, <<c>>>>
      [] c \in Singles                   -> <<<<c>>>>
      [] c \in {"&", "+", "-", "^", "|"} -> <<<<c, "=">>, <<c, c>>, <<c>>>>
      [] c \in {"%", "/", "="}           -> <<<<c, "=">>, <<c>>>>
      [] c = "*" -> <<<<c, c, "=">>, <<c, c>>, <<c, "=">>, <<c>>>>
      [] c = "." -> <<<<c, c, c>>, <<c>>>>
      [] c = ":" -> <<<<c, c>>, <<c>>>>
      [] c = "<" -> <<<<c, c, "=">>, <<c, "=">>, <<c, c>>, <<c>>>>
      [] c = ">" -> GtPunctuators(c)
      [] OTHER   -> << >>

NotIs == <<"!", "i", "s">>

WrongFits(s, p, text) ==    \* the test of what follows is inverted
    Spells(s, p, text) /\ (text = NotIs => At(s, p + 3) \in NameChars)

(* `!is' followed by more of a name is a `!'.                              *)
Fits(s, p, text) ==
    Spells(s, p, text) /\ (text = NotIs => At(s, p + 3) \notin NameChars)

PunctuatorEnd(s, p) ==
    LET tried == PunctuatorsFrom(At(s, p))
        fit == {i \in 1..Len(tried) : Fits(s, p, tried[i])}
    IN  IF fit = {} THEN p ELSE p + Len(tried[Min(fit)])
-----------------------------------------------------------------------------
(* The token kinds in the order Lex tries them.                            *)
Begins(kind, s, p) ==
    CASE kind = "Number"     -> BeginsNumber(s, p)
      [] kind = "String"     -> BeginsString(s, p)
      [] kind = "Punctuator" -> ~BeginsNumber(s, p) /\ PunctuatorsFrom(At(s, p)) # << >>
      [] kind = "Name"       -> At(s, p) \in NameStarts
      [] kind = "Unknown"    ->
            /\ ~BeginsNumber(s, p) /\ ~BeginsString(s, p)
            /\ PunctuatorsFrom(At(s, p)) = << >>
            /\ At(s, p) \notin NameStarts

EndAt(kind, s, p) ==
    CASE kind = "Number"     -> NumberEnd(s, p)
      [] kind = "String"     -> StringEnd(s, p)
      [] kind = "Punctuator" -> PunctuatorEnd(s, p)
      [] kind = "Name"       -> Beyond(s, p, NameChars)
      [] kind = "Unknown"    -> p + 1

Gts(kind, s, p, end) ==
    IF kind = "Punctuator" THEN Min({end, Beyond(s, p, {">"})}) - p ELSE 0

LexemeAt(kind, s, p, end) ==
    [kind |-> kind, offset |-> p, length |-> end - p, gts |-> Gts(kind, s, p, end)]

EndOfFile(s) == LexemeAt("EndOfFile", s, Len(s), Len(s))

Finished == lexemes # << >> /\ IsEof(lexemes[Len(lexemes)])
-----------------------------------------------------------------------------
Init ==
    /\ source \in Sources
    /\ offset = 0
    /\ lexemes = << >>

Skip(end) ==
    /\ offset' = end
    /\ UNCHANGED <<source, lexemes>>

Skippable ==
    \/ Spells(source, offset, ByteOrderMark)
    \/ At(source, offset) \in Blanks
    \/ BeginsComment(source, offset)

WrongSkipByteOrderMark ==   \* the loop goes on without having moved
    /\ offset < Len(source)
    /\ Spells(source, offset, ByteOrderMark)
    /\ Skip(offset)

SkipByteOrderMark ==
    /\ offset < Len(source)
    /\ Spells(source, offset, ByteOrderMark)
    /\ Skip(offset + Len(ByteOrderMark))

SkipBlank ==
    /\ offset < Len(source)
    /\ At(source, offset) \in Blanks
    /\ Skip(offset + 1)

SkipComment ==
    /\ offset < Len(source)
    /\ BeginsComment(source, offset)
    /\ Skip(CommentEnd(source, offset))

Yield(kind) ==
    /\ offset < Len(source) /\ ~Skippable
    /\ Begins(kind, source, offset)
    /\ offset' = EndAt(kind, source, offset)
    /\ lexemes' = Append(lexemes, LexemeAt(kind, source, offset, offset'))
    /\ UNCHANGED source

LexNumber == Yield("Number")
LexString == Yield("String")
LexPunctuator == Yield("Punctuator")
LexName == Yield("Name")
LexUnknown == Yield("Unknown")

LexEnd ==
    /\ offset = Len(source) /\ ~Finished
    /\ lexemes' = Append(lexemes, EndOfFile(source))
    /\ UNCHANGED <<source, offset>>

Next ==
    \/ SkipByteOrderMark
    \/ SkipBlank
    \/ SkipComment
    \/ LexNumber
    \/ LexString
    \/ LexPunctuator
    \/ LexName
    \/ LexUnknown
    \/ LexEnd

Spec == Init /\ [][Next]_vars

(* Whoever calls Lex until the end of file goes on calling it, and the     *)
(* loop in Lex waits for nothing.                                          *)
FairSpec == Spec /\ WF_vars(Next)
-----------------------------------------------------------------------------
(* Lex never moves its offset past the end of the source, also where a     *)
(* comment, a string or an exponent is cut off by it, and what it yields   *)
(* are lexemes.                                                            *)
TypeOK ==
    /\ source \in Seq(STRING)
    /\ offset \in 0..Len(source)
    /\ lexemes \in Seq(Lexeme)

(* If the source ended here, what has been yielded would be what           *)
(* ParserContext assumes of its lexer: tokens in order, apart from each    *)
(* other, none of them empty, and one end of file.  In particular this is  *)
(* so once the source has ended.                                           *)
YieldsWellLexed ==
    WellLexed(IF Finished THEN lexemes
              ELSE Append(lexemes, [kind |-> "EndOfFile", offset |-> offset,
                                    length |-> 0, gts |-> 0]))

(* One piece of the source that says nothing, by the words of bnf.txt.     *)
Silent(s, i, j) ==
    LET Opens(open) == i + 2 <= j /\ Spells(s, i, open)
        Closes(k) == k + 2 <= j /\ Spells(s, k, CommentCloses)
    IN  \/ j = i + 1 /\ At(s, i) \in Blanks
        \/ j = i + 3 /\ Spells(s, i, ByteOrderMark)
        \/ /\ Opens(LineComment)
           /\ \A k \in i..(j - 1) : At(s, k) \notin Breaks
           /\ j = Len(s) \/ At(s, j) \in Breaks
        \/ /\ Opens(CommentOpens)
           /\ \A k \in (i + 2)..(j - 3) : ~Closes(k)
           /\ \/ j = Len(s)
              \/ j >= i + 4 /\ Closes(j - 2)

(* What can be cut into such pieces, one behind the other.                 *)
AllSilent(s, i, j) ==
    \E cuts \in SUBSET (i..j) :
        /\ {i, j} \subseteq cuts
        /\ \A h \in cuts \ {j} : Silent(s, h, Min({k \in cuts : k > h}))

GapBefore(i) == IF i = 1 THEN 0 ELSE EndOf(lexemes[i - 1])

(* Nothing of a source is lost: what lies between a token and the next is  *)
(* white space, byte-order marks and whole comments.                       *)
GapsAreSilent ==
    Finished =>
        \A i \in 1..Len(lexemes) : AllSilent(source, GapBefore(i), lexemes[i].offset)

(* The operators and brackets of bnf.txt.                                  *)
Operators ==
    {<<c>> : c \in Singles \ {"#"}}
    \cup {<<c>> : c \in {"+", "-", "*", "/", "%", "&", "|", "^", "!", "=", "<", ">", ".", ":"}}
    \cup {<<c, "=">> : c \in {"+", "-", "*", "/", "%", "&", "|", "^", "=", "!", "<", ">"}}
    \cup {<<c, c>> : c \in {"+", "-", "*", "&", "|", "^", "<", ">", ":"}}
    \cup {<<c, c, "=">> : c \in {"*", "<", ">"}}
    \cup {NotIs, <<".", ".", ".">>, <<">", ">", ">">>, <<">", ">", ">", "=">>}

(* Those that are spelled at a position and do not cut a word in two.      *)
SpelledOps(s, p) ==
    LET Word(q) == At(s, q) \in NameChars
    IN  {op \in Operators :
            Spells(s, p, op) /\ ~(Word(p + Len(op) - 1) /\ Word(p + Len(op)))}

LongestAt(s, t) ==
    LET spelled == SpelledOps(s, t.offset)
    IN  /\ t.kind = "Unknown" => spelled = {}
        /\ t.kind = "Punctuator" =>
              /\ \/ \E op \in spelled : Len(op) = t.length
                 \/ At(s, t.offset) = "#" /\ t.length = 1
              /\ \A op \in spelled : Len(op) <= t.length

(* Where a token is punctuation, it is the longest operator of bnf.txt     *)
(* that is spelled there and does not cut a word in two, or a '#'; and no  *)
(* operator begins where the lexer finds an unknown character.             *)
LongestOperator == \A i \in 1..Len(lexemes) : LongestAt(source, lexemes[i])

Text(t) == SubSeq(source, t.offset + 1, EndOf(t))

LexesTo(kind, s, end) == Begins(kind, s, 0) /\ EndAt(kind, s, 0) = end

(* Only its own text makes a token what it is: by itself, and in front of  *)
(* a space unless it is a string the line ends in, it is the same token.   *)
StandsAlone ==
    \A i \in 1..Len(lexemes) :
        LET t == lexemes[i]
            toLineEnd ==
                /\ t.kind = "String"
                /\ EndOf(t) = Len(source) \/ At(source, EndOf(t)) \in Breaks
        IN  ~IsEof(t) =>
              /\ LexesTo(t.kind, Text(t), t.length)
              /\ toLineEnd \/ LexesTo(t.kind, Text(t) \o <<"SP">>, t.length)

(* Every source is lexed to its end.                                       *)
Finishes == <>Finished
=============================================================================
