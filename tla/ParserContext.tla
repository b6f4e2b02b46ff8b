--------------------------- MODULE ParserContext ---------------------------
(***************************************************************************)
(* The token buffer every parse function works on                          *)
(* (src/parser/parser_context.{h,cpp}): tokens are lexed on demand by      *)
(* ensureAhead, a cursor moves over them, callers save and rewind the      *)
(* cursor, and consumeOneGt splits a token such as '>>' in place.          *)
(*                                                                         *)
(* A lexeme is abstracted to its kind, its span and the number of '>' it   *)
(* starts with, which is all that ParserContext looks at.  A caller's      *)
(* request is one action, each turn of ensureAhead's loop is one action,   *)
(* and the request's answer is one action.                                 *)
(***************************************************************************)
EXTENDS Lexemes

CONSTANTS
    Sources,    \* the sources, each as the lexemes Lex yields for it
    MaxStep,    \* bound: how far callers look past the current token
    MaxMarks,   \* bound: how many saved cursors are live at once
    MaxDiags    \* bound: no caller reports once so many diagnostics exist

Diagnostic == [why : {"character", "token", "expected"}, offset : Nat, length : Nat]

Operations == {"peek", "advance", "consumeOneGt", "advanceError", "expectToken"}

NoCall == [op |-> "none", step |-> 0]

ASSUME SourcesAssumption == \A s \in Sources : WellLexed(s)

ASSUME BoundsAssumption ==
    MaxStep \in Nat /\ MaxMarks \in Nat /\ MaxDiags \in Nat

VARIABLES
    source,     \* the source's lexemes
    lexed,      \* how many of them Lex has yielded
    tokens,     \* m_tokens
    cursor,     \* m_cursor, as the number of tokens before it
    diags,      \* m_diagnostics
    marks,      \* the cursors the callers have saved, innermost last
    call        \* the request being served

vars == <<source, lexed, tokens, cursor, diags, marks, call>>
-----------------------------------------------------------------------------
AtEofToken == tokens # << >> /\ IsEof(tokens[Len(tokens)])

(* Definitions whose names start with `Wrong' are faults a change to the    *)
(* code could bring in; the properties are seen to fail with each of them.  *)
WrongFilled == Len(tokens) >= cursor + call.step \/ AtEofToken

(* The exit condition of the loop in ensureAhead.                          *)
Filled == Len(tokens) >= cursor + call.step + 1 \/ AtEofToken

Peeked(step) == tokens[cursor + step + 1]

CanConsumeGt(t) == t.kind = "Punctuator" /\ t.gts >= 1

FirstGt(t) ==
    [kind |-> "Punctuator", offset |-> t.offset, length |-> 1, gts |-> 1]

WrongAfterGt(t) ==       \* the remainder starts where the token did
    [kind |-> "Punctuator", offset |-> t.offset,
     length |-> t.length - 1, gts |-> t.gts - 1]

AfterGt(t) ==
    [kind |-> "Punctuator", offset |-> t.offset + 1,
     length |-> t.length - 1, gts |-> t.gts - 1]

WrongSplitAt(c) ==       \* the remainder is inserted two places too early
    LET t == tokens[c + 1]
        place == IF c > 0 THEN c ELSE 1
    IN  [i \in 1..(Len(tokens) + 1) |->
            CASE i < place                 -> tokens[i]
              [] i = place                 -> AfterGt(t)
              [] i = c + 2                 -> FirstGt(t)
              [] i > place /\ i # c + 2    -> tokens[i - 1]]

(* m_tokens once the token after position c has given up its first '>'.    *)
SplitAt(c) ==
    LET t == tokens[c + 1] IN
    [i \in 1..(Len(tokens) + 1) |->
        CASE i <= c    -> tokens[i]
          [] i = c + 1 -> FirstGt(t)
          [] i = c + 2 -> AfterGt(t)
          [] i > c + 2 -> tokens[i - 1]]

Report(why, t) ==
    diags' = Append(diags, [why |-> why, offset |-> t.offset, length |-> t.length])

WrongSpanFrom(m) ==      \* the last token consumed is left out
    LET first == tokens[m + 1]
        last  == IF cursor > 1 THEN tokens[cursor - 1] ELSE first
    IN  [offset |-> first.offset, length |-> EndOf(last) - first.offset]

(* The span from saved cursor m up to the cursor.                          *)
SpanFrom(m) ==
    LET first == tokens[m + 1]
        last  == IF cursor > 0 THEN tokens[cursor] ELSE first
    IN  IF m >= Len(tokens)
        THEN [offset |-> 0, length |-> 0]
        ELSE IF EndOf(last) < first.offset
        THEN [offset |-> first.offset, length |-> first.length]
        ELSE [offset |-> first.offset, length |-> EndOf(last) - first.offset]
-----------------------------------------------------------------------------
Init ==
    /\ source \in Sources
    /\ lexed = 0
    /\ tokens = << >>
    /\ cursor = 0
    /\ diags = << >>
    /\ marks = << >>
    /\ call = NoCall

(* A caller looks past a token only after it has seen that the token is    *)
(* not the end of file: check(s, 1) follows a successful check or          *)
(* checkKind of the current token, and canParseLambda scans one by one.    *)
MayLook(step) ==
    \A i \in 1..step : cursor + i <= Len(tokens) /\ ~IsEof(tokens[cursor + i])

Request(op) ==
    /\ call = NoCall
    /\ op \in {"advanceError", "expectToken"} => Len(diags) < MaxDiags
    /\ \E step \in (IF op = "peek" THEN 0..MaxStep ELSE {0}) :
          /\ MayLook(step)
          /\ call' = [op |-> op, step |-> step]
    /\ UNCHANGED <<source, lexed, tokens, cursor, diags, marks>>

(* One turn of the loop in ensureAhead: the lexeme becomes a token ...     *)
LexToken ==
    /\ call # NoCall /\ ~Filled
    /\ source[lexed + 1].kind # "Unknown"
    /\ lexed' = lexed + 1
    /\ tokens' = Append(tokens, source[lexed + 1])
    /\ UNCHANGED <<source, cursor, diags, marks, call>>

WrongLexUnknownSilent ==
    /\ call # NoCall /\ ~Filled
    /\ source[lexed + 1].kind = "Unknown"
    /\ lexed' = lexed + 1
    /\ UNCHANGED <<source, tokens, cursor, diags, marks, call>>

WrongLexUnknownStuck ==  \* the lexer stays at the character
    /\ call # NoCall /\ ~Filled
    /\ source[lexed + 1].kind = "Unknown"
    /\ UNCHANGED vars

(* ... or is a character no token starts with, reported and skipped.       *)
LexUnknown ==
    /\ call # NoCall /\ ~Filled
    /\ source[lexed + 1].kind = "Unknown"
    /\ lexed' = lexed + 1
    /\ Report("character", source[lexed + 1])
    /\ UNCHANGED <<source, tokens, cursor, marks, call>>

Returning(op) == call.op = op /\ Filled /\ call' = NoCall

WrongStepped == cursor + 1

Stepped == IF IsEof(Peeked(0)) THEN cursor ELSE cursor + 1

PeekReturns ==
    /\ Returning("peek")
    /\ UNCHANGED <<source, lexed, tokens, cursor, diags, marks>>

AdvanceReturns ==
    /\ Returning("advance")
    /\ cursor' = Stepped
    /\ UNCHANGED <<source, lexed, tokens, diags, marks>>

(* Callers ask canConsumeGt first and leave other tokens alone.            *)
ConsumeOneGtReturns ==
    /\ Returning("consumeOneGt")
    /\ IF CanConsumeGt(Peeked(0))
       THEN /\ tokens' = IF Peeked(0).length > 1 THEN SplitAt(cursor) ELSE tokens
            /\ cursor' = cursor + 1
       ELSE UNCHANGED <<tokens, cursor>>
    /\ UNCHANGED <<source, lexed, diags, marks>>

AdvanceErrorReturns ==
    /\ Returning("advanceError")
    /\ Report("token", Peeked(0))
    /\ cursor' = Stepped
    /\ UNCHANGED <<source, lexed, tokens, marks>>

(* expectToken: step over the token, or report and stay where it is.       *)
ExpectTokenReturns ==
    /\ Returning("expectToken")
    /\ \/ /\ ~IsEof(Peeked(0))
          /\ cursor' = cursor + 1
          /\ UNCHANGED diags
       \/ /\ Report("expected", Peeked(0))
          /\ UNCHANGED cursor
    /\ UNCHANGED <<source, lexed, tokens, marks>>

Save ==
    /\ call = NoCall
    /\ Len(marks) < MaxMarks
    /\ marks' = Append(marks, cursor)
    /\ UNCHANGED <<source, lexed, tokens, cursor, diags, call>>

WrongRewindTo ==
    /\ call = NoCall
    /\ \E i \in 1..Len(marks) :
          /\ cursor' = marks[i] - 1
          /\ marks' = SubSeq(marks, 1, i)
    /\ UNCHANGED <<source, lexed, tokens, diags, call>>

WrongRewindKeepsInner ==
    /\ call = NoCall
    /\ \E i \in 1..Len(marks) : cursor' = marks[i]
    /\ UNCHANGED <<source, lexed, tokens, diags, marks, call>>

(* A function rewinds to a cursor it saved, whatever the functions it      *)
(* called had saved; their marks went out of scope when they returned.     *)
RewindTo ==
    /\ call = NoCall
    /\ \E i \in 1..Len(marks) :
          /\ cursor' = marks[i]
          /\ marks' = SubSeq(marks, 1, i)
    /\ UNCHANGED <<source, lexed, tokens, diags, call>>

(* The function that saved the innermost cursor returns.                   *)
Forget ==
    /\ call = NoCall
    /\ marks # << >>
    /\ marks' = SubSeq(marks, 1, Len(marks) - 1)
    /\ UNCHANGED <<source, lexed, tokens, cursor, diags, call>>

Serve ==
    \/ LexToken
    \/ LexUnknown
    \/ PeekReturns
    \/ AdvanceReturns
    \/ ConsumeOneGtReturns
    \/ AdvanceErrorReturns
    \/ ExpectTokenReturns

Next ==
    \/ \E op \in Operations : Request(op)
    \/ Serve
    \/ Save
    \/ RewindTo
    \/ Forget

Spec == Init /\ [][Next]_vars

(* The code that serves a request runs to its end in the caller's thread.  *)
FairSpec == Spec /\ WF_vars(Serve)
-----------------------------------------------------------------------------
TypeOK ==
    /\ source \in Sources
    /\ lexed \in 0..Len(source)
    /\ tokens \in Seq(Lexeme)
    /\ cursor \in Nat
    /\ diags \in Seq(Diagnostic)
    /\ marks \in Seq(Nat)
    /\ call \in [op : Operations \cup {"none"}, step : Nat]

(* Safety of every m_tokens[...] in ParserContext: whatever mixture of     *)
(* lookahead, splits and rewinds came before, the token a request is about *)
(* to read exists (peek and consumeOneGt index the vector unchecked).      *)
ReadsInBounds ==
    call # NoCall /\ Filled => cursor + call.step + 1 <= Len(tokens)

(* The end of file is delivered exactly once, last, and never consumed:    *)
(* every loop of the parser that stops at isEnd relies on it.              *)
EofStaysAhead ==
    /\ \A i \in 1..Len(tokens) : IsEof(tokens[i]) => i = Len(tokens)
    /\ lexed = Len(source) <=> AtEofToken
    /\ AtEofToken => cursor < Len(tokens)

(* What makes the two above inductive: the cursor and the saved cursors    *)
(* stay inside the buffer, nested, and a request for lookahead rests on    *)
(* tokens already seen not to be the end of file.                          *)
IndexInv ==
    /\ TypeOK
    /\ EofStaysAhead
    /\ cursor <= Len(tokens)
    /\ \A k \in 1..Len(marks) : marks[k] <= cursor
    /\ \A k, l \in 1..Len(marks) : k < l => marks[k] <= marks[l]
    /\ call.op # "peek" => call.step = 0
    /\ call # NoCall => MayLook(call.step)

Significant(s, n) == {i \in 1..n : s[i].kind # "Unknown"}

(* The characters of the first n tokens, and those of the first n lexemes  *)
(* that become tokens.                                                     *)
ReadChars(n) == UNION {Chars(tokens[i]) : i \in 1..n}

TextChars(s, n) == UNION {Chars(s[i]) : i \in Significant(s, n)}

(* However tokens were split, the buffer still spells what was lexed: in   *)
(* order, no character twice, none lost, none of an unknown lexeme.        *)
TokensSpellSource ==
    /\ \A i, j \in 1..Len(tokens) : i < j => EndOf(tokens[i]) <= tokens[j].offset
    /\ ReadChars(Len(tokens)) = TextChars(source, lexed)

CharacterReports == {i \in 1..Len(diags) : diags[i].why = "character"}

UnknownLexemes(n) == {k \in 1..n : source[k].kind = "Unknown"}

(* A bad character is reported once, when it is first lexed, however often *)
(* the parser backtracks over it.                                          *)
UnknownReportedOnce ==
    /\ \A i, j \in CharacterReports : i < j => diags[i].offset < diags[j].offset
    /\ {diags[i].offset : i \in CharacterReports}
          = {source[k].offset : k \in UnknownLexemes(lexed)}

(* What makes the two above inductive: what is still to be lexed lies      *)
(* behind every token, and only the end of file is empty.                  *)
TextInv ==
    /\ TokensSpellSource
    /\ UnknownReportedOnce
    /\ \A i \in 1..Len(tokens) :
          /\ tokens[i].length = 0 <=> IsEof(tokens[i])
          /\ tokens[i].gts <= tokens[i].length
          /\ \A j \in (lexed + 1)..Len(source) : EndOf(tokens[i]) <= source[j].offset

(* spanFrom(m) starts and ends with text consumed since m and covers all   *)
(* of it, also when a token of that text was split after m was saved.      *)
SpansCoverConsumed ==
    \A k \in 1..Len(marks) :
        LET m == marks[k]
            consumed == ReadChars(cursor) \ ReadChars(m)
        IN  m < cursor =>
              /\ consumed \subseteq Chars(SpanFrom(m))
              /\ SpanFrom(m).offset \in consumed
              /\ EndOf(SpanFrom(m)) - 1 \in consumed

(* No step changes the text in front of a saved cursor that stays live: a  *)
(* rewind after a split returns to the same character of the source.       *)
MarkKeepsText ==
    \A k \in 1..Len(marks) :
        k <= Len(marks') => /\ marks'[k] = marks[k]
                            /\ ReadChars(marks[k])' = ReadChars(marks[k])

MarksKeepText == [][MarkKeepsText]_vars

(* ensureAhead returns: every request gets its answer.                     *)
RequestsAnswered == (call # NoCall) ~> (call = NoCall)

(* The buffer is a faithful reader of the source's significant text.       *)
Unread(n) == TextChars(source, Len(source)) \ ReadChars(n)

Reader == INSTANCE TokenReader WITH
    Texts  <- {TextChars(s, Len(s)) : s \in Sources},
    text   <- TextChars(source, Len(source)),
    unread <- Unread(cursor),
    marked <- [k \in 1..Len(marks) |-> Unread(marks[k])]

ImplementsReader == Reader!Spec
=============================================================================
