------------------------ MODULE ParserContext_proofs ------------------------
(***************************************************************************)
(* Theorems about ParserContext, for every set of well lexed sources and   *)
(* every value of the bounds.                                              *)
(***************************************************************************)
EXTENDS ParserContext, SequenceTheorems, TLAPS

(* Tokens and calls have the shape the code gives them.                    *)
LEMMA WellLexedSource ==
    ASSUME NEW s \in Sources
    PROVE  WellLexed(s)
BY SourcesAssumption

(* The two tokens a '>...' splits into.                                     *)
LEMMA GtPieces ==
    ASSUME NEW t \in Lexeme, CanConsumeGt(t), t.length > 1
    PROVE  /\ FirstGt(t) \in Lexeme /\ AfterGt(t) \in Lexeme
           /\ FirstGt(t).kind = t.kind /\ AfterGt(t).kind = t.kind
           /\ FirstGt(t).offset = t.offset /\ AfterGt(t).offset = t.offset + 1
           /\ FirstGt(t).length = 1 /\ AfterGt(t).length = t.length - 1
           /\ FirstGt(t).gts = 1 /\ AfterGt(t).gts = t.gts - 1
BY DEF Lexeme, Kinds, FirstGt, AfterGt, CanConsumeGt

(* What consumeOneGt makes of the buffer, token by token.                  *)
LEMMA SplitTokens ==
    ASSUME tokens \in Seq(Lexeme), NEW c \in Nat, c < Len(tokens),
           CanConsumeGt(tokens[c + 1]), tokens[c + 1].length > 1
    PROVE  /\ SplitAt(c) \in Seq(Lexeme)
           /\ Len(SplitAt(c)) = Len(tokens) + 1
           /\ \A i \in 1..c : SplitAt(c)[i] = tokens[i]
           /\ SplitAt(c)[c + 1] = FirstGt(tokens[c + 1])
           /\ SplitAt(c)[c + 2] = AfterGt(tokens[c + 1])
           /\ \A i \in (c + 3)..(Len(tokens) + 1) : SplitAt(c)[i] = tokens[i - 1]
<1>1. \A i \in 1..Len(tokens) : tokens[i] \in Lexeme
  OBVIOUS
<1>2. FirstGt(tokens[c + 1]) \in Lexeme /\ AfterGt(tokens[c + 1]) \in Lexeme
  BY <1>1, GtPieces
<1>3. SplitAt(c) \in [1..(Len(tokens) + 1) -> Lexeme]
  BY <1>1, <1>2 DEF SplitAt
<1>4. SplitAt(c) \in Seq(Lexeme) /\ Len(SplitAt(c)) = Len(tokens) + 1
  BY <1>3
<1> QED
  BY <1>4 DEF SplitAt

(* Facts about the source that the index arithmetic rests on.              *)
LEMMA SourceFacts ==
    ASSUME IndexInv
    PROVE  /\ source \in Seq(Lexeme) /\ Len(source) \in Nat \ {0}
           /\ \A i \in 1..Len(source) : IsEof(source[i]) <=> i = Len(source)
           /\ tokens \in Seq(Lexeme) /\ Len(tokens) \in Nat /\ cursor \in Nat
           /\ call.step \in Nat
BY SourcesAssumption DEF IndexInv, TypeOK, WellLexed, IsEof

(* The empty buffer of the constructor satisfies the invariant.            *)
LEMMA InitIndices == Init => IndexInv
<1> SUFFICES ASSUME Init PROVE IndexInv
  OBVIOUS
<1>1. TypeOK
  BY SourcesAssumption DEF Init, TypeOK, NoCall, WellLexed
<1>2. Len(source) >= 1
  BY SourcesAssumption DEF Init, WellLexed
<1> QED
  BY <1>1, <1>2 DEF Init, IndexInv, EofStaysAhead, AtEofToken, NoCall

(* A request rests on tokens its caller has already seen.                  *)
LEMMA RequestIndices ==
    ASSUME IndexInv, NEW op \in Operations, Request(op)
    PROVE  IndexInv'
<1>1. PICK step \in (IF op = "peek" THEN 0..MaxStep ELSE {0}) :
         MayLook(step) /\ call' = [op |-> op, step |-> step]
  BY DEF Request
<1>2. TypeOK'
  BY <1>1, BoundsAssumption DEF IndexInv, TypeOK, Request
<1>3. EofStaysAhead'
  BY DEF IndexInv, Request, EofStaysAhead, AtEofToken
<1>4. (call.op # "peek" => call.step = 0)' /\ MayLook(call.step)'
  BY <1>1 DEF Request, MayLook
<1> QED
  BY <1>2, <1>3, <1>4 DEF IndexInv, Request

(* While ensureAhead still loops, the lexer has not yielded the end.       *)
LEMMA LexemeLeft ==
    ASSUME IndexInv, ~Filled
    PROVE  /\ lexed + 1 \in 1..Len(source)
           /\ source[lexed + 1] \in Lexeme
           /\ \A i \in 1..Len(tokens) : ~IsEof(tokens[i])
BY SourceFacts DEF IndexInv, TypeOK, EofStaysAhead, AtEofToken, Filled

(* A token that ensureAhead appends leaves cursors and marks in place.     *)
LEMMA LexTokenIndices ==
    ASSUME IndexInv, LexToken
    PROVE  IndexInv'
<1> DEFINE lx == source[lexed + 1]
<1>1. lexed + 1 \in 1..Len(source) /\ lx \in Lexeme
  BY LexemeLeft DEF LexToken
<1>2. /\ tokens' \in Seq(Lexeme) /\ Len(tokens') = Len(tokens) + 1
      /\ \A i \in 1..Len(tokens) : tokens'[i] = tokens[i]
      /\ tokens'[Len(tokens) + 1] = lx
  BY <1>1, SourceFacts DEF LexToken
<1>3. TypeOK'
  BY <1>1, <1>2 DEF LexToken, IndexInv, TypeOK
<1>4. \A i \in 1..Len(tokens) : ~IsEof(tokens[i])
  BY LexemeLeft DEF LexToken
<1>5. IsEof(lx) <=> lexed + 1 = Len(source)
  BY <1>1, SourceFacts
<1>6. EofStaysAhead'
  <2>1. (\A i \in 1..Len(tokens) : IsEof(tokens[i]) => i = Len(tokens))'
    BY <1>2, <1>4, SourceFacts
  <2>2. AtEofToken' <=> IsEof(lx)
    BY <1>2, SourceFacts DEF AtEofToken
  <2> QED
    BY <1>2, <1>5, <2>1, <2>2, SourceFacts DEF EofStaysAhead, LexToken, IndexInv
<1>7. MayLook(call.step)'
  <2>1. MayLook(call.step)
    BY DEF LexToken, IndexInv
  <2> QED
    BY <1>2, <2>1, SourceFacts DEF MayLook, LexToken
<1> QED
  BY <1>2, <1>3, <1>6, <1>7, SourceFacts DEF IndexInv, LexToken

(* A character that ensureAhead skips leaves the buffer as it is.          *)
LEMMA LexUnknownIndices ==
    ASSUME IndexInv, LexUnknown
    PROVE  IndexInv'
<1> DEFINE lx == source[lexed + 1]
<1>1. lexed + 1 \in 1..Len(source) /\ lx \in Lexeme
  BY LexemeLeft DEF LexUnknown
<1>2. lexed + 1 # Len(source)
  BY <1>1, SourceFacts DEF LexUnknown, IsEof
<1>3. TypeOK'
  <2>1. [why |-> "character", offset |-> lx.offset, length |-> lx.length] \in Diagnostic
    BY <1>1 DEF Lexeme, Diagnostic
  <2> QED
    BY <1>1, <2>1 DEF LexUnknown, Report, IndexInv, TypeOK
<1>4. EofStaysAhead'
  BY <1>1, <1>2, LexemeLeft
     DEF LexUnknown, IndexInv, EofStaysAhead, AtEofToken, Filled
<1> QED
  BY <1>3, <1>4 DEF IndexInv, LexUnknown, MayLook

(* The token a served request reads is in the buffer.                      *)
LEMMA FilledReads ==
    ASSUME IndexInv, call # NoCall, Filled
    PROVE  /\ cursor + call.step + 1 \in 1..Len(tokens)
           /\ Peeked(call.step) \in Lexeme
           /\ IsEof(Peeked(call.step)) <=>
                 AtEofToken /\ cursor + call.step + 1 = Len(tokens)
<1>1. cursor + call.step + 1 <= Len(tokens)
  <2>1. CASE Len(tokens) >= cursor + call.step + 1
    BY <2>1, SourceFacts
  <2>2. CASE AtEofToken
    <3>1. cursor + call.step <= Len(tokens)
      <4>1. CASE call.step = 0
        BY <4>1, SourceFacts DEF IndexInv
      <4>2. CASE call.step # 0
        BY <4>2, SourceFacts DEF IndexInv, MayLook
      <4> QED
        BY <4>1, <4>2
    <3>2. cursor + call.step # Len(tokens)
      <4>1. CASE call.step = 0
        BY <2>2, <4>1, SourceFacts DEF IndexInv, EofStaysAhead
      <4>2. CASE call.step # 0
        BY <2>2, <4>2, SourceFacts, SMTT(30) DEF IndexInv, MayLook, AtEofToken
      <4> QED
        BY <4>1, <4>2
    <3> QED
      BY <3>1, <3>2, SourceFacts
  <2> QED
    BY <2>1, <2>2 DEF Filled
<1>2. cursor + call.step + 1 \in 1..Len(tokens)
  BY <1>1, SourceFacts
<1> QED
  BY <1>2, SourceFacts DEF Peeked, IndexInv, EofStaysAhead, AtEofToken

(* Every answer but peek's is about the token at the cursor.               *)
LEMMA CurrentToken ==
    ASSUME IndexInv, call # NoCall, call.op # "peek", Filled
    PROVE  /\ call.step = 0
           /\ cursor + 1 \in 1..Len(tokens)
           /\ Peeked(0) = tokens[cursor + 1]
           /\ Peeked(0) \in Lexeme
           /\ IsEof(Peeked(0)) <=> AtEofToken /\ cursor + 1 = Len(tokens)
<1>1. call.step = 0
  BY DEF IndexInv
<1> QED
  BY <1>1, FilledReads, SourceFacts DEF Peeked

(* Stepping over a token that is not the end of file.                      *)
LEMMA SteppedInBuffer ==
    ASSUME IndexInv, call # NoCall, call.op # "peek", Filled
    PROVE  /\ Stepped \in Nat /\ cursor <= Stepped /\ Stepped <= Len(tokens)
           /\ AtEofToken => Stepped < Len(tokens)
           /\ ~IsEof(Peeked(0)) => Stepped = cursor + 1
BY CurrentToken, SourceFacts DEF Stepped, IndexInv, EofStaysAhead

(* Every answer but consumeOneGt's moves only the cursor and the reports.  *)
LEMMA MovedCursorIndices ==
    ASSUME IndexInv, UNCHANGED <<source, lexed, tokens, marks>>,
           diags' \in Seq(Diagnostic), call' = NoCall,
           cursor' \in Nat, cursor <= cursor', cursor' <= Len(tokens),
           AtEofToken => cursor' < Len(tokens)
    PROVE  IndexInv'
<1>1. TypeOK'
  BY DEF IndexInv, TypeOK, NoCall
<1>2. EofStaysAhead'
  BY DEF IndexInv, EofStaysAhead, AtEofToken
<1>3. (\A k \in 1..Len(marks) : marks[k] <= cursor)'
  BY SourceFacts DEF IndexInv, TypeOK
<1> QED
  BY <1>1, <1>2, <1>3 DEF IndexInv, NoCall, MayLook

(* reportError appends a well-formed diagnostic.                           *)
LEMMA ReportedDiags ==
    ASSUME IndexInv, NEW why \in {"character", "token", "expected"},
           NEW t \in Lexeme, Report(why, t)
    PROVE  diags' \in Seq(Diagnostic)
<1>1. [why |-> why, offset |-> t.offset, length |-> t.length] \in Diagnostic
  BY DEF Lexeme, Diagnostic
<1> QED
  BY <1>1 DEF IndexInv, TypeOK, Report

(* consumeOneGt, with and without a split, keeps the cursors in order.     *)
LEMMA ConsumeOneGtIndices ==
    ASSUME IndexInv, ConsumeOneGtReturns
    PROVE  IndexInv'
<1>1. call # NoCall /\ call.op # "peek" /\ Filled /\ call' = NoCall
  BY DEF ConsumeOneGtReturns, Returning, NoCall
<1>2. cursor + 1 \in 1..Len(tokens) /\ Peeked(0) = tokens[cursor + 1]
      /\ Peeked(0) \in Lexeme /\ call.step = 0
  BY <1>1, CurrentToken
<1>3. CASE ~CanConsumeGt(Peeked(0))
  BY <1>1, <1>3, SourceFacts, MovedCursorIndices
     DEF ConsumeOneGtReturns, IndexInv, EofStaysAhead, TypeOK
<1>4. ASSUME CanConsumeGt(Peeked(0)) PROVE ~IsEof(Peeked(0))
  BY <1>4 DEF CanConsumeGt, IsEof
<1>5. CASE CanConsumeGt(Peeked(0)) /\ ~(Peeked(0).length > 1)
  BY <1>1, <1>2, <1>4, <1>5, SourceFacts, SteppedInBuffer, MovedCursorIndices
     DEF ConsumeOneGtReturns, IndexInv, TypeOK
<1>6. CASE CanConsumeGt(Peeked(0)) /\ Peeked(0).length > 1
  <2>1. /\ tokens' \in Seq(Lexeme) /\ Len(tokens') = Len(tokens) + 1
        /\ \A i \in 1..cursor : tokens'[i] = tokens[i]
        /\ tokens'[cursor + 1] = FirstGt(tokens[cursor + 1])
        /\ tokens'[cursor + 2] = AfterGt(tokens[cursor + 1])
        /\ \A i \in (cursor + 3)..(Len(tokens) + 1) : tokens'[i] = tokens[i - 1]
        /\ cursor' = cursor + 1
    <3>1. tokens' = SplitAt(cursor) /\ cursor' = cursor + 1
      BY <1>6 DEF ConsumeOneGtReturns
    <3>2. cursor < Len(tokens)
      BY <1>2, SourceFacts
    <3> QED
      BY <1>2, <1>6, <3>1, <3>2, SplitTokens, SourceFacts
  <2>2. ~IsEof(tokens'[cursor + 1]) /\ ~IsEof(tokens'[cursor + 2])
    BY <1>2, <1>6, <2>1, GtPieces DEF IsEof, CanConsumeGt
  <2>3. ~IsEof(tokens[cursor + 1])
    BY <1>2, <1>4, <1>6
  <2>4. TypeOK'
    BY <1>1, <2>1, SourceFacts DEF IndexInv, TypeOK, ConsumeOneGtReturns, NoCall
  <2>5. (\A i \in 1..Len(tokens) : IsEof(tokens[i]) => i = Len(tokens))'
    <3> SUFFICES ASSUME NEW i \in 1..(Len(tokens) + 1), IsEof(tokens'[i])
                 PROVE  i = Len(tokens) + 1
      BY <2>1
    <3>1. CASE i <= cursor
      <4>1. i \in 1..Len(tokens) /\ i # Len(tokens) /\ tokens'[i] = tokens[i]
        BY <1>2, <2>1, <3>1, SourceFacts
      <4> QED
        BY <4>1 DEF IndexInv, EofStaysAhead
    <3>2. CASE i >= cursor + 3
      BY <1>2, <2>1, <3>2, SourceFacts, SMTT(30) DEF IndexInv, EofStaysAhead
    <3> QED
      BY <2>2, <3>1, <3>2, SourceFacts
  <2>6. AtEofToken' <=> AtEofToken
    <3>1. CASE cursor + 1 = Len(tokens)
      BY <2>1, <2>2, <2>3, <3>1, SourceFacts DEF AtEofToken
    <3>2. CASE cursor + 1 < Len(tokens)
      BY <2>1, <3>2, SourceFacts DEF AtEofToken
    <3> QED
      BY <1>2, <3>1, <3>2, SourceFacts
  <2>7. EofStaysAhead'
    BY <2>1, <2>5, <2>6, SourceFacts
       DEF IndexInv, EofStaysAhead, ConsumeOneGtReturns
  <2>8. (\A k \in 1..Len(marks) : marks[k] <= cursor)'
    <3>1. marks' = marks /\ cursor' = cursor + 1
      BY <2>1 DEF ConsumeOneGtReturns
    <3>2. \A k \in 1..Len(marks) : marks[k] \in Nat /\ marks[k] <= cursor
      BY DEF IndexInv, TypeOK
    <3> QED
      BY <3>1, <3>2, SourceFacts
  <2> QED
    BY <1>1, <1>2, <2>1, <2>4, <2>7, <2>8, SourceFacts
       DEF IndexInv, ConsumeOneGtReturns, NoCall
<1> QED
  BY <1>3, <1>5, <1>6

(* So do the answers to peek, advance, advanceError and expectToken.       *)
LEMMA OtherAnswersIndices ==
    ASSUME IndexInv,
           \/ PeekReturns
           \/ AdvanceReturns
           \/ AdvanceErrorReturns
           \/ ExpectTokenReturns
    PROVE  IndexInv'
<1>1. Filled /\ call # NoCall /\ call' = NoCall /\ UNCHANGED <<source, lexed, tokens, marks>>
  BY DEF PeekReturns, AdvanceReturns, AdvanceErrorReturns, ExpectTokenReturns,
         Returning, NoCall
<1>2. CASE PeekReturns
  BY <1>1, <1>2, SourceFacts, MovedCursorIndices
     DEF PeekReturns, IndexInv, EofStaysAhead, TypeOK
<1>3. CASE AdvanceReturns
  <2>1. call.op # "peek" /\ cursor' = Stepped /\ diags' = diags
    BY <1>3 DEF AdvanceReturns, Returning
  <2> QED
    BY <1>1, <2>1, SteppedInBuffer, MovedCursorIndices DEF IndexInv, TypeOK
<1>4. CASE AdvanceErrorReturns
  <2>1. call.op # "peek" /\ cursor' = Stepped /\ Report("token", Peeked(0))
    BY <1>4 DEF AdvanceErrorReturns, Returning
  <2>2. diags' \in Seq(Diagnostic)
    BY <1>1, <2>1, CurrentToken, ReportedDiags
  <2> QED
    BY <1>1, <2>1, <2>2, SteppedInBuffer, MovedCursorIndices
<1>5. CASE ExpectTokenReturns
  <2>1. call.op # "peek"
    BY <1>5 DEF ExpectTokenReturns, Returning
  <2>2. CASE ~IsEof(Peeked(0)) /\ cursor' = cursor + 1 /\ diags' = diags
    BY <1>1, <2>1, <2>2, SteppedInBuffer, MovedCursorIndices DEF IndexInv, TypeOK
  <2>3. CASE Report("expected", Peeked(0)) /\ cursor' = cursor
    <3>1. diags' \in Seq(Diagnostic)
      BY <1>1, <2>1, <2>3, CurrentToken, ReportedDiags
    <3> QED
      BY <1>1, <2>3, <3>1, SourceFacts, MovedCursorIndices DEF IndexInv, EofStaysAhead
  <2> QED
    BY <1>5, <2>2, <2>3 DEF ExpectTokenReturns
<1> QED
  BY <1>2, <1>3, <1>4, <1>5

(* The first n elements of a sequence.                                     *)
LEMMA FirstElements ==
    ASSUME NEW S, NEW s \in Seq(S), NEW n \in 0..Len(s)
    PROVE  /\ SubSeq(s, 1, n) \in Seq(S) /\ Len(SubSeq(s, 1, n)) = n
           /\ \A k \in 1..n : SubSeq(s, 1, n)[k] = s[k]
<1>1. n \in Int /\ \A i \in 1..n : s[i] \in S
  BY LenProperties
<1> QED
  BY <1>1, SubSeqProperties

(* Saving, rewinding and forgetting keep the marks nested.                 *)
LEMMA MarkIndices ==
    ASSUME IndexInv, Save \/ RewindTo \/ Forget
    PROVE  IndexInv'
<1>1. /\ marks \in Seq(Nat) /\ Len(marks) \in Nat
      /\ \A k \in 1..Len(marks) : marks[k] \in Nat /\ marks[k] <= cursor
      /\ \A k, l \in 1..Len(marks) : k < l => marks[k] <= marks[l]
  BY DEF IndexInv, TypeOK
<1>2. call = NoCall /\ UNCHANGED <<source, lexed, tokens, diags, call>>
  BY DEF Save, RewindTo, Forget
<1>3. /\ marks' \in Seq(Nat) /\ cursor' \in Nat /\ cursor' <= cursor
      /\ \A k \in 1..Len(marks') : marks'[k] <= cursor'
      /\ \A k, l \in 1..Len(marks') : k < l => marks'[k] <= marks'[l]
  <2>1. CASE Save
    <3>1. /\ marks' \in Seq(Nat) /\ Len(marks') = Len(marks) + 1
          /\ \A k \in 1..Len(marks) : marks'[k] = marks[k]
          /\ marks'[Len(marks) + 1] = cursor /\ cursor' = cursor
      BY <1>1, <2>1, SourceFacts DEF Save
    <3>2. ASSUME NEW k \in 1..(Len(marks) + 1)
          PROVE  \/ k = Len(marks) + 1 /\ marks'[k] = cursor
                 \/ k \in 1..Len(marks) /\ marks'[k] = marks[k] /\ marks[k] <= cursor
      BY <1>1, <3>1
    <3>3. cursor \in Nat /\ cursor' \in Nat /\ cursor' <= cursor
      BY <3>1, SourceFacts
    <3>4. \A k \in 1..Len(marks') : marks'[k] <= cursor'
      BY <1>1, <3>1, <3>2, <3>3
    <3>5. ASSUME NEW k \in 1..Len(marks'), NEW l \in 1..Len(marks'), k < l
          PROVE  marks'[k] <= marks'[l]
      <4>1. k \in 1..Len(marks) /\ marks'[k] = marks[k] /\ marks[k] <= cursor
        BY <1>1, <3>1, <3>2, <3>5
      <4>2. CASE l = Len(marks) + 1
        BY <3>1, <4>1, <4>2
      <4>3. CASE l \in 1..Len(marks)
        BY <1>1, <3>1, <3>5, <4>1, <4>3
      <4> QED
        BY <1>1, <3>1, <4>2, <4>3
    <3> QED
      BY <3>1, <3>3, <3>4, <3>5
  <2>2. CASE RewindTo
    <3>1. PICK i \in 1..Len(marks) : cursor' = marks[i] /\ marks' = SubSeq(marks, 1, i)
      BY <2>2 DEF RewindTo
    <3>2. /\ marks' \in Seq(Nat) /\ Len(marks') = i
          /\ \A k \in 1..i : marks'[k] = marks[k]
      BY <1>1, <3>1, FirstElements
    <3>3. marks[i] \in Nat /\ marks[i] <= cursor /\ \A k \in 1..i : marks[k] <= marks[i]
      BY <1>1
    <3> QED
      BY <1>1, <3>1, <3>2, <3>3, SMTT(30)
  <2>3. CASE Forget
    <3>1. Len(marks) >= 1
      BY <1>1, <2>3 DEF Forget
    <3>2. marks' = SubSeq(marks, 1, Len(marks) - 1) /\ cursor' = cursor
      BY <2>3 DEF Forget
    <3>3. Len(marks) - 1 \in 0..Len(marks)
      BY <1>1, <3>1
    <3>4. /\ marks' \in Seq(Nat) /\ Len(marks') = Len(marks) - 1
          /\ \A k \in 1..(Len(marks) - 1) : marks'[k] = marks[k]
      BY <1>1, <3>2, <3>3, FirstElements
    <3>5. \A k \in 1..Len(marks') : k \in 1..Len(marks) /\ marks'[k] = marks[k]
      BY <1>1, <3>4
    <3>6. cursor' \in Nat /\ cursor' = cursor
      BY <3>2, SourceFacts
    <3>7. ASSUME NEW k \in 1..Len(marks'), NEW l \in 1..Len(marks'), k < l
          PROVE  marks'[k] <= marks'[l]
      BY <1>1, <3>5, <3>7
    <3>8. \A k \in 1..Len(marks') : marks'[k] <= cursor'
      BY <1>1, <3>5, <3>6
    <3> QED
      BY <3>4, <3>6, <3>7, <3>8, SourceFacts
  <2> QED
    BY <2>1, <2>2, <2>3
<1>4. TypeOK'
  BY <1>2, <1>3 DEF IndexInv, TypeOK
<1>5. EofStaysAhead' /\ cursor' <= Len(tokens')
  BY <1>2, <1>3, SourceFacts DEF IndexInv, EofStaysAhead, AtEofToken
<1>6. call' = NoCall /\ (call.op # "peek" => call.step = 0)'
  BY <1>2 DEF IndexInv
<1>7. (call # NoCall => MayLook(call.step))'
  BY <1>6
<1> QED
  BY <1>3, <1>4, <1>5, <1>6, <1>7 DEF IndexInv

(* The invariant speaks of nothing but the variables.                      *)
LEMMA StutterIndices == IndexInv /\ UNCHANGED vars => IndexInv'
BY DEF vars, IndexInv, TypeOK, EofStaysAhead, AtEofToken, MayLook

(* Every step of ParserContext keeps the invariant on indices.             *)
LEMMA NextIndices == IndexInv /\ [Next]_vars => IndexInv'
<1> SUFFICES ASSUME IndexInv, [Next]_vars PROVE IndexInv'
  OBVIOUS
<1>1. CASE \E op \in Operations : Request(op)
  BY <1>1, RequestIndices
<1>2. CASE LexToken
  BY <1>2, LexTokenIndices
<1>3. CASE LexUnknown
  BY <1>3, LexUnknownIndices
<1>4. CASE PeekReturns \/ AdvanceReturns \/ AdvanceErrorReturns \/ ExpectTokenReturns
  BY <1>4, OtherAnswersIndices
<1>5. CASE ConsumeOneGtReturns
  BY <1>5, ConsumeOneGtIndices
<1>6. CASE Save \/ RewindTo \/ Forget
  BY <1>6, MarkIndices
<1>7. CASE UNCHANGED vars
  BY <1>7, StutterIndices
<1> QED
  BY <1>1, <1>2, <1>3, <1>4, <1>5, <1>6, <1>7 DEF Next, Serve

(* In every behaviour the buffer, the cursor and the saved cursors keep    *)
(* the shape and the order that ParserContext's unchecked indexing needs.  *)
THEOREM IndexInvariance == Spec => []IndexInv
<1> QED
  BY InitIndices, NextIndices, PTL DEF Spec

(* ParserContext's variables keep the types of the members they stand for, *)
(* for every set of sources.                                               *)
THEOREM TypeCorrect == Spec => []TypeOK
<1>1. IndexInv => TypeOK
  BY DEF IndexInv
<1> QED
  BY <1>1, IndexInvariance, PTL

(* No lookahead, split or rewind makes peek, advance, consumeOneGt,        *)
(* advanceError or expectToken index past the end of m_tokens.             *)
THEOREM InBounds == Spec => []ReadsInBounds
<1>1. IndexInv => ReadsInBounds
  BY FilledReads, SourceFacts DEF ReadsInBounds
<1> QED
  BY <1>1, IndexInvariance, PTL

(* The end of file stays the last token, is there once everything is       *)
(* lexed, and the cursor never moves past it.                              *)
THEOREM EofAhead == Spec => []EofStaysAhead
<1>1. IndexInv => EofStaysAhead
  BY DEF IndexInv
<1> QED
  BY <1>1, IndexInvariance, PTL
-----------------------------------------------------------------------------
(* No step, a split included, changes a token before the cursor.           *)
LEMMA PrefixKept ==
    ASSUME IndexInv, [Next]_vars
    PROVE  \A i \in 1..cursor : tokens'[i] = tokens[i]
<1>1. CASE LexToken
  BY <1>1, LexemeLeft, SourceFacts DEF LexToken, IndexInv
<1>2. CASE ConsumeOneGtReturns
  <2>1. call # NoCall /\ call.op # "peek" /\ Filled
    BY <1>2 DEF ConsumeOneGtReturns, Returning, NoCall
  <2>2. cursor + 1 \in 1..Len(tokens)
    BY <2>1, CurrentToken
  <2>3. tokens' = tokens \/ tokens' = SplitAt(cursor)
    BY <1>2 DEF ConsumeOneGtReturns
  <2> QED
    BY <2>2, <2>3, SourceFacts DEF SplitAt
<1>3. CASE tokens' = tokens
  BY <1>3
<1> QED
  BY <1>1, <1>2, <1>3
     DEF Next, Serve, vars, Request, LexUnknown, PeekReturns, AdvanceReturns,
         AdvanceErrorReturns, ExpectTokenReturns, Save, RewindTo, Forget

(* A mark that a step keeps is still the same cursor.                      *)
LEMMA MarksPrefix ==
    ASSUME IndexInv, [Next]_vars, NEW k \in 1..Len(marks), k <= Len(marks')
    PROVE  marks'[k] = marks[k]
<1>1. marks \in Seq(Nat) /\ Len(marks) \in Nat
  BY DEF IndexInv, TypeOK
<1>2. CASE Save
  BY <1>1, <1>2, SourceFacts DEF Save
<1>3. CASE RewindTo
  <2>1. PICK i \in 1..Len(marks) : marks' = SubSeq(marks, 1, i)
    BY <1>3 DEF RewindTo
  <2> QED
    BY <1>1, <2>1
<1>4. CASE Forget
  BY <1>1, <1>4 DEF Forget
<1>5. CASE marks' = marks
  BY <1>5
<1> QED
  BY <1>2, <1>3, <1>4, <1>5
     DEF Next, Serve, vars, Request, LexToken, LexUnknown, PeekReturns,
         AdvanceReturns, ConsumeOneGtReturns, AdvanceErrorReturns,
         ExpectTokenReturns

(* A saved cursor denotes the same consumed text for as long as it lives,  *)
(* whatever is lexed, split or rewound meanwhile.                          *)
THEOREM MarksHold == Spec => MarksKeepText
<1>1. IndexInv /\ [Next]_vars => MarkKeepsText
  <2> SUFFICES ASSUME IndexInv, [Next]_vars, NEW k \in 1..Len(marks), k <= Len(marks')
               PROVE  marks'[k] = marks[k] /\ ReadChars(marks[k])' = ReadChars(marks[k])
    BY DEF MarkKeepsText
  <2>1. marks'[k] = marks[k]
    BY MarksPrefix
  <2>2. marks[k] \in Nat /\ marks[k] <= cursor
    BY DEF IndexInv, TypeOK
  <2>3. \A i \in 1..marks[k] : tokens'[i] = tokens[i]
    <3>1. 1..marks[k] \subseteq 1..cursor
      BY <2>2, SourceFacts
    <3> QED
      BY <3>1, PrefixKept
  <2>4. \A i \in 1..marks[k] : Chars(tokens[i])' = Chars(tokens[i])
    BY <2>3 DEF Chars
  <2> QED
    BY <2>1, <2>4 DEF ReadChars
<1> QED
  BY <1>1, IndexInvariance, PTL DEF Spec, MarksKeepText
-----------------------------------------------------------------------------
(* What it is to be a character of the first n tokens ...                  *)
LEMMA InReadChars ==
    ASSUME NEW n \in Nat, NEW x
    PROVE  x \in ReadChars(n) <=> \E i \in 1..n : x \in Chars(tokens[i])
BY DEF ReadChars

(* ... and of those of the first n lexemes that become tokens.             *)
LEMMA InTextChars ==
    ASSUME NEW s, NEW n \in Nat, NEW x
    PROVE  x \in TextChars(s, n)
             <=> \E i \in 1..n : s[i].kind # "Unknown" /\ x \in Chars(s[i])
BY DEF TextChars, Significant

(* The order of the source's lexemes, spelled out.                         *)
LEMMA LexemeOrder ==
    ASSUME IndexInv
    PROVE  /\ \A i \in 1..Len(source) :
                /\ source[i] \in Lexeme
                /\ source[i].length = 0 <=> IsEof(source[i])
                /\ source[i].gts <= source[i].length
           /\ \A i, j \in 1..Len(source) : i < j => EndOf(source[i]) <= source[j].offset
BY SourcesAssumption, SourceFacts DEF IndexInv, TypeOK, WellLexed, IsEof, EndOf

(* The empty buffer spells the empty text.                                 *)
LEMMA InitText == Init => TextInv
<1> SUFFICES ASSUME Init PROVE TextInv
  OBVIOUS
<1>1. ReadChars(0) = {} /\ TextChars(source, 0) = {}
  BY InReadChars, InTextChars
<1> QED
  <2>1. CharacterReports = {} /\ UnknownLexemes(0) = {}
    BY DEF Init, CharacterReports, UnknownLexemes
  <2>2. UnknownReportedOnce
    BY <2>1 DEF Init, UnknownReportedOnce
  <2>3. TokensSpellSource
    <3>1. Len(tokens) = 0 /\ lexed = 0
      BY DEF Init
    <3> QED
      BY <1>1, <3>1, SMTT(30) DEF TokensSpellSource
  <2> QED
    BY <2>2, <2>3 DEF Init, TextInv

(* Spans are natural numbers.                                              *)
LEMMA LexemeNats ==
    ASSUME NEW t \in Lexeme
    PROVE  t.offset \in Nat /\ t.length \in Nat /\ EndOf(t) \in Nat
BY DEF Lexeme, EndOf

(* A step that neither lexes nor reports keeps UnknownReportedOnce.        *)
LEMMA UnknownKept ==
    ASSUME UnknownReportedOnce, diags' = diags, source' = source,
           UnknownLexemes(lexed)' = UnknownLexemes(lexed)
    PROVE  UnknownReportedOnce'
<1>1. CharacterReports' = CharacterReports
  BY DEF CharacterReports
<1>2. {diags[i].offset : i \in CharacterReports}' = {diags[i].offset : i \in CharacterReports}
  BY <1>1
<1>3. {source[k].offset : k \in UnknownLexemes(lexed)}'
        = {source[k].offset : k \in UnknownLexemes(lexed)}
  OBVIOUS
<1> QED
  BY <1>1, <1>2, <1>3 DEF UnknownReportedOnce

(* Appending a lexeme appends its characters to the buffer's text.         *)
LEMMA LexTokenText ==
    ASSUME IndexInv, TextInv, LexToken
    PROVE  TextInv'
<1> DEFINE lx == source[lexed + 1]
           n == Len(tokens)
<1>1. lexed + 1 \in 1..Len(source) /\ lx \in Lexeme /\ lexed \in Nat
  BY LexemeLeft DEF LexToken, IndexInv, TypeOK
<1>2. /\ tokens' \in Seq(Lexeme) /\ Len(tokens') = n + 1 /\ n \in Nat
      /\ \A i \in 1..n : tokens'[i] = tokens[i] /\ tokens[i] \in Lexeme
      /\ tokens'[n + 1] = lx
  BY <1>1, SourceFacts DEF LexToken
<1>3. source' = source /\ diags' = diags /\ lexed' = lexed + 1 /\ lx.kind # "Unknown"
  BY DEF LexToken
<1>4. (\A i, j \in 1..Len(tokens) : i < j => EndOf(tokens[i]) <= tokens[j].offset)'
  <2> SUFFICES ASSUME NEW i \in 1..(n + 1), NEW j \in 1..(n + 1), i < j
               PROVE  EndOf(tokens'[i]) <= tokens'[j].offset
    BY <1>2 DEF EndOf
  <2>1. i \in 1..n
    BY <1>2
  <2>2. CASE j = n + 1
    BY <1>1, <1>2, <2>1, <2>2 DEF TextInv
  <2>3. CASE j \in 1..n
    BY <1>2, <2>1, <2>3 DEF TextInv, TokensSpellSource
  <2> QED
    BY <1>2, <2>2, <2>3
<1>5. (ReadChars(Len(tokens)) = TextChars(source, lexed))'
  <2>1. ASSUME NEW x
        PROVE  x \in ReadChars(Len(tokens))' <=> x \in ReadChars(n) \/ x \in Chars(lx)
    <3>1. x \in ReadChars(Len(tokens))' <=> \E i \in 1..(n + 1) : x \in Chars(tokens'[i])
      BY <1>2 DEF ReadChars, Chars
    <3> QED
      BY <1>2, <3>1, InReadChars
  <2>2. ASSUME NEW x
        PROVE  x \in TextChars(source, lexed)'
                 <=> x \in TextChars(source, lexed) \/ x \in Chars(lx)
    <3>1. x \in TextChars(source, lexed + 1)
             <=> \E i \in 1..(lexed + 1) : source[i].kind # "Unknown" /\ x \in Chars(source[i])
      BY <1>1, InTextChars
    <3>2. x \in TextChars(source, lexed)
             <=> \E i \in 1..lexed : source[i].kind # "Unknown" /\ x \in Chars(source[i])
      BY <1>1, InTextChars
    <3>3. TextChars(source, lexed)' = TextChars(source, lexed + 1)
      BY <1>3 DEF TextChars, Significant, Chars
    <3> QED
      BY <1>1, <1>3, <3>1, <3>2, <3>3
  <2> QED
    BY <2>1, <2>2 DEF TextInv, TokensSpellSource
<1>6. UnknownReportedOnce'
  <2>1. UnknownLexemes(lexed)' = UnknownLexemes(lexed)
    BY <1>1, <1>3 DEF UnknownLexemes
  <2> QED
    BY <1>3, <2>1, UnknownKept DEF TextInv
<1>7. ASSUME NEW i \in 1..(n + 1)
      PROVE  /\ tokens'[i].length = 0 <=> IsEof(tokens'[i])
             /\ tokens'[i].gts <= tokens'[i].length
             /\ \A j \in (lexed + 2)..Len(source) : EndOf(tokens'[i]) <= source[j].offset
  <2>1. CASE i = n + 1
    BY <1>1, <1>2, <2>1, LexemeOrder
  <2>2. CASE i \in 1..n
    BY <1>1, <1>2, <2>2 DEF TextInv
  <2> QED
    BY <1>2, <2>1, <2>2
<1>8. (\A i \in 1..Len(tokens) :
          /\ tokens[i].length = 0 <=> IsEof(tokens[i])
          /\ tokens[i].gts <= tokens[i].length
          /\ \A j \in (lexed + 1)..Len(source) : EndOf(tokens[i]) <= source[j].offset)'
  BY <1>1, <1>2, <1>3, <1>7 DEF IsEof, EndOf
<1> QED
  BY <1>4, <1>5, <1>6, <1>8 DEF TextInv, TokensSpellSource

(* Skipping a bad character adds its report and nothing to the text.       *)
LEMMA LexUnknownText ==
    ASSUME IndexInv, TextInv, LexUnknown
    PROVE  TextInv'
<1> DEFINE lx == source[lexed + 1]
           m == Len(diags) + 1
<1>1. lexed + 1 \in 1..Len(source) /\ lx \in Lexeme /\ lexed \in Nat
  BY LexemeLeft DEF LexUnknown, IndexInv, TypeOK
<1>2. /\ source' = source /\ tokens' = tokens /\ lexed' = lexed + 1
      /\ lx.kind = "Unknown"
  BY DEF LexUnknown
<1>3. /\ Len(diags') = m /\ m \in Nat \ {0} /\ Len(diags) = m - 1
      /\ \A i \in 1..(m - 1) : diags'[i] = diags[i]
      /\ diags'[m].why = "character" /\ diags'[m].offset = lx.offset
  <2>1. diags' = Append(diags, [why |-> "character", offset |-> lx.offset, length |-> lx.length])
    BY DEF LexUnknown, Report
  <2>2. diags \in Seq(Diagnostic)
    BY DEF IndexInv, TypeOK
  <2> QED
    BY <2>1, <2>2
<1>4. TextChars(source, lexed + 1) = TextChars(source, lexed)
  <2>1. Significant(source, lexed + 1) = Significant(source, lexed)
    BY <1>1, <1>2 DEF Significant
  <2> QED
    BY <2>1 DEF TextChars
<1>5. TokensSpellSource'
  <2>1. ReadChars(Len(tokens))' = ReadChars(Len(tokens))
    BY <1>2 DEF ReadChars, Chars
  <2>2. TextChars(source, lexed)' = TextChars(source, lexed + 1)
    BY <1>2 DEF TextChars, Significant, Chars
  <2> QED
    BY <1>2, <1>4, <2>1, <2>2 DEF TextInv, TokensSpellSource, EndOf
<1>6. UnknownReportedOnce'
  <2>1. CharacterReports' = CharacterReports \cup {m}
    BY <1>3 DEF CharacterReports
  <2>2. UnknownLexemes(lexed)' = UnknownLexemes(lexed) \cup {lexed + 1}
    BY <1>1, <1>2 DEF UnknownLexemes
  <2>3. \A i \in CharacterReports : i \in 1..(m - 1) /\ diags'[i] = diags[i]
    BY <1>3 DEF CharacterReports
  <2>4. {diags[i].offset : i \in CharacterReports}'
          = {diags[i].offset : i \in CharacterReports} \cup {lx.offset}
    BY <1>3, <2>1, <2>3
  <2>5. {source[k].offset : k \in UnknownLexemes(lexed)}'
          = {source[k].offset : k \in UnknownLexemes(lexed)} \cup {lx.offset}
    BY <1>2, <2>2
  <2>6. ASSUME NEW i \in CharacterReports
        PROVE  diags[i].offset < lx.offset
    <3>1. PICK k \in UnknownLexemes(lexed) : diags[i].offset = source[k].offset
      BY DEF TextInv, UnknownReportedOnce
    <3>2. k \in 1..Len(source) /\ k < lexed + 1 /\ k # Len(source)
      BY <1>1, SourceFacts DEF UnknownLexemes
    <3>3. EndOf(source[k]) <= lx.offset
      BY <1>1, <3>2, LexemeOrder
    <3>4. source[k] \in Lexeme /\ source[k].length # 0
      BY <3>2, LexemeOrder, SourceFacts
    <3> QED
      BY <1>1, <3>1, <3>3, <3>4, SMTT(30) DEF EndOf, Lexeme
  <2>7. (\A i, j \in CharacterReports : i < j => diags[i].offset < diags[j].offset)'
    <3> SUFFICES ASSUME NEW i \in CharacterReports', NEW j \in CharacterReports', i < j
                 PROVE  diags'[i].offset < diags'[j].offset
      OBVIOUS
    <3>1. i \in CharacterReports
      BY <1>3, <2>1, <2>3
    <3>2. CASE j = m
      BY <1>3, <2>3, <2>6, <3>1, <3>2
    <3>3. CASE j \in CharacterReports
      BY <2>3, <3>1, <3>3 DEF TextInv, UnknownReportedOnce
    <3> QED
      BY <2>1, <3>2, <3>3
  <2> QED
    BY <2>4, <2>5, <2>7 DEF TextInv, UnknownReportedOnce
<1>7. \A i \in 1..Len(tokens), j \in (lexed + 2)..Len(source) :
        EndOf(tokens[i]) <= source[j].offset
  BY <1>1 DEF TextInv
<1> QED
  BY <1>1, <1>2, <1>5, <1>6, <1>7 DEF TextInv, EndOf, IsEof

(* A split leaves the buffer's text as it was.                             *)
LEMMA SplitText ==
    ASSUME IndexInv, TextInv, ConsumeOneGtReturns,
           CanConsumeGt(Peeked(0)), Peeked(0).length > 1
    PROVE  TextInv'
<1> DEFINE c == cursor
           n == Len(tokens)
           t == tokens[c + 1]
<1>1. call # NoCall /\ call.op # "peek" /\ Filled
  BY DEF ConsumeOneGtReturns, Returning, NoCall
<1>2. /\ c + 1 \in 1..n /\ n \in Nat /\ c \in Nat /\ t \in Lexeme
      /\ CanConsumeGt(t) /\ t.length > 1 /\ c < n
  BY <1>1, CurrentToken, SourceFacts
<1>3. tokens' = SplitAt(c)
  BY DEF ConsumeOneGtReturns
<1>4. /\ Len(tokens') = n + 1
      /\ \A i \in 1..c : tokens'[i] = tokens[i]
      /\ tokens'[c + 1] = FirstGt(t)
      /\ tokens'[c + 2] = AfterGt(t)
      /\ \A i \in (c + 3)..(n + 1) : tokens'[i] = tokens[i - 1]
  BY <1>2, <1>3, SplitTokens, SourceFacts
<1>5. UNCHANGED <<source, lexed, diags>>
  BY DEF ConsumeOneGtReturns
<1>6. /\ t.kind = "Punctuator" /\ t.offset \in Nat /\ t.length \in Nat
      /\ t.gts \in Nat /\ t.gts >= 1 /\ t.gts <= t.length
  BY <1>2 DEF Lexeme, CanConsumeGt, TextInv
<1>7. /\ FirstGt(t).offset = t.offset /\ EndOf(FirstGt(t)) = t.offset + 1
      /\ AfterGt(t).offset = t.offset + 1 /\ EndOf(AfterGt(t)) = EndOf(t)
  BY <1>6 DEF FirstGt, AfterGt, EndOf
<1>8. (\A i, j \in 1..Len(tokens) : i < j => EndOf(tokens[i]) <= tokens[j].offset)'
  <2> DEFINE old(i) == IF i <= c + 1 THEN i ELSE i - 1
  <2>1. ASSUME NEW i \in 1..(n + 1)
        PROVE  /\ old(i) \in 1..n /\ tokens[old(i)] \in Lexeme
               /\ tokens[old(i)].offset <= tokens'[i].offset
               /\ EndOf(tokens'[i]) <= EndOf(tokens[old(i)])
               /\ i = c + 1 => tokens'[i] = FirstGt(t)
               /\ i = c + 2 => tokens'[i] = AfterGt(t)
    <3>1. old(i) \in 1..n /\ tokens[old(i)] \in Lexeme
      BY <1>2, SourceFacts
    <3>2. tokens[old(i)].offset \in Nat /\ EndOf(tokens[old(i)]) \in Nat
      BY <3>1 DEF Lexeme, EndOf
    <3>3. CASE i = c + 1
      BY <1>2, <1>4, <1>6, <1>7, <3>1, <3>3 DEF EndOf
    <3>4. CASE i = c + 2
      BY <1>2, <1>4, <1>6, <1>7, <3>1, <3>4 DEF EndOf
    <3>5. CASE i <= c
      BY <1>2, <1>4, <3>1, <3>2, <3>5
    <3>6. CASE i >= c + 3
      BY <1>2, <1>4, <3>1, <3>2, <3>6
    <3> QED
      BY <1>2, <3>3, <3>4, <3>5, <3>6
  <2> SUFFICES ASSUME NEW i \in 1..(n + 1), NEW j \in 1..(n + 1), i < j
               PROVE  EndOf(tokens'[i]) <= tokens'[j].offset
    BY <1>4 DEF EndOf
  <2>2. CASE i = c + 1 /\ j = c + 2
    BY <1>4, <1>6, <1>7, <2>2
  <2>3. CASE ~(i = c + 1 /\ j = c + 2)
    <3>1. old(i) < old(j)
      BY <1>2, <2>3
    <3>2. EndOf(tokens[old(i)]) <= tokens[old(j)].offset
      BY <2>1, <3>1 DEF TextInv, TokensSpellSource
    <3>3. EndOf(tokens'[i]) <= EndOf(tokens[old(i)]) /\ tokens[old(j)].offset <= tokens'[j].offset
      BY <2>1
    <3>4. /\ EndOf(tokens[old(i)]) \in Nat /\ tokens[old(j)].offset \in Nat
          /\ EndOf(tokens'[i]) \in Nat /\ tokens'[j].offset \in Nat
      <4>1. tokens' \in Seq(Lexeme)
        BY <1>2, <1>3, SplitTokens, SourceFacts
      <4>2. tokens'[i] \in Lexeme /\ tokens'[j] \in Lexeme
        BY <1>4, <4>1
      <4>3. tokens[old(i)] \in Lexeme /\ tokens[old(j)] \in Lexeme
        BY <2>1
      <4> HIDE DEF old
      <4> QED
        BY <4>2, <4>3, LexemeNats
    <3> HIDE DEF old
    <3> QED
      BY <3>2, <3>3, <3>4
  <2> QED
    BY <2>2, <2>3
<1>9. ReadChars(Len(tokens))' = ReadChars(Len(tokens))
  <2>1. Chars(t) = Chars(FirstGt(t)) \cup Chars(AfterGt(t))
    BY <1>6 DEF Chars, FirstGt, AfterGt
  <2>2. ASSUME NEW x
        PROVE  (\E i \in 1..(n + 1) : x \in Chars(tokens'[i]))
                 <=> (\E i \in 1..n : x \in Chars(tokens[i]))
    <3>1. ASSUME NEW i \in 1..(n + 1), x \in Chars(tokens'[i])
          PROVE  \E j \in 1..n : x \in Chars(tokens[j])
      <4>1. CASE i <= c
        BY <1>2, <1>4, <3>1, <4>1
      <4>2. CASE i = c + 1 \/ i = c + 2
        BY <1>2, <1>4, <2>1, <3>1, <4>2
      <4>3. CASE i >= c + 3
        BY <1>2, <1>4, <3>1, <4>3
      <4> QED
        BY <1>2, <4>1, <4>2, <4>3, SMTT(30)
    <3>2. ASSUME NEW i \in 1..n, x \in Chars(tokens[i])
          PROVE  \E j \in 1..(n + 1) : x \in Chars(tokens'[j])
      <4>1. CASE i <= c
        BY <1>2, <1>4, <3>2, <4>1
      <4>2. CASE i = c + 1
        BY <1>2, <1>4, <2>1, <3>2, <4>2
      <4>3. CASE i >= c + 2
        <5>1. i + 1 \in (c + 3)..(n + 1) /\ tokens'[i + 1] = tokens[i]
          BY <1>2, <1>4, <4>3
        <5> QED
          BY <1>2, <3>2, <5>1
      <4> QED
        BY <1>2, <4>1, <4>2, <4>3
    <3> QED
      BY <3>1, <3>2
  <2>3. ASSUME NEW x
        PROVE  x \in ReadChars(Len(tokens))' <=> x \in ReadChars(Len(tokens))
    <3>1. x \in ReadChars(Len(tokens))' <=> \E i \in 1..(n + 1) : x \in Chars(tokens'[i])
      BY <1>4 DEF ReadChars, Chars
    <3> QED
      BY <1>2, <2>2, <3>1, InReadChars
  <2> QED
    BY <2>3
<1>10. TextChars(source, lexed)' = TextChars(source, lexed)
  BY <1>5 DEF TextChars, Significant, Chars
<1>11. UnknownReportedOnce'
  <2>1. UnknownLexemes(lexed)' = UnknownLexemes(lexed)
    BY <1>5 DEF UnknownLexemes
  <2> QED
    BY <1>5, <2>1, UnknownKept DEF TextInv
<1>12. ASSUME NEW i \in 1..(n + 1)
       PROVE  /\ tokens'[i].length = 0 <=> IsEof(tokens'[i])
              /\ tokens'[i].gts <= tokens'[i].length
              /\ \A j \in (lexed + 1)..Len(source) : EndOf(tokens'[i]) <= source[j].offset
  <2>1. CASE i <= c
    BY <1>2, <1>4, <2>1 DEF TextInv
  <2>2. CASE i = c + 1
    <3>1. FirstGt(t).length = 1 /\ FirstGt(t).gts = 1 /\ ~IsEof(FirstGt(t))
      BY DEF FirstGt, IsEof
    <3>2. \A j \in (lexed + 1)..Len(source) : EndOf(FirstGt(t)) <= source[j].offset
      <4> SUFFICES ASSUME NEW j \in (lexed + 1)..Len(source)
                   PROVE  EndOf(FirstGt(t)) <= source[j].offset
        OBVIOUS
      <4>1. EndOf(t) <= source[j].offset
        BY <1>2 DEF TextInv
      <4>2. source[j] \in Lexeme
        BY LexemeOrder, SourceFacts DEF IndexInv, TypeOK
      <4> QED
        BY <1>2, <1>6, <1>7, <4>1, <4>2, SMTT(30) DEF EndOf, Lexeme
    <3> QED
      BY <1>4, <2>2, <3>1, <3>2
  <2>3. CASE i = c + 2
    <3>1. /\ AfterGt(t).length = t.length - 1 /\ AfterGt(t).gts = t.gts - 1
          /\ ~IsEof(AfterGt(t))
      BY DEF AfterGt, IsEof
    <3>2. \A j \in (lexed + 1)..Len(source) : EndOf(AfterGt(t)) <= source[j].offset
      BY <1>2, <1>7 DEF TextInv
    <3> QED
      BY <1>2, <1>4, <1>6, <2>3, <3>1, <3>2
  <2>4. CASE i >= c + 3
    <3>1. i - 1 \in 1..n /\ tokens'[i] = tokens[i - 1]
      BY <1>2, <1>4, <2>4
    <3> QED
      BY <3>1 DEF TextInv
  <2> QED
    BY <1>2, <2>1, <2>2, <2>3, <2>4
<1>13. TokensSpellSource'
  BY <1>8, <1>9, <1>10 DEF TextInv, TokensSpellSource
<1>14. (\A i \in 1..Len(tokens) :
          /\ tokens[i].length = 0 <=> IsEof(tokens[i])
          /\ tokens[i].gts <= tokens[i].length
          /\ \A j \in (lexed + 1)..Len(source) : EndOf(tokens[i]) <= source[j].offset)'
  BY <1>4, <1>5, <1>12 DEF IsEof, EndOf
<1> QED
  BY <1>11, <1>13, <1>14 DEF TextInv

(* An answer that leaves the buffer alone reports, at most, a token.       *)
LEMMA OtherAnswersText ==
    ASSUME IndexInv, TextInv, UNCHANGED <<source, lexed, tokens>>,
           \/ diags' = diags
           \/ \E why \in {"token", "expected"} : Report(why, Peeked(0))
    PROVE  TextInv'
<1>1. TokensSpellSource'
  <2>1. ReadChars(Len(tokens))' = ReadChars(Len(tokens))
    BY DEF ReadChars, Chars
  <2>2. TextChars(source, lexed)' = TextChars(source, lexed)
    BY DEF TextChars, Significant, Chars
  <2> QED
    BY <2>1, <2>2 DEF TextInv, TokensSpellSource, EndOf
<1>2. UnknownLexemes(lexed)' = UnknownLexemes(lexed)
  BY DEF UnknownLexemes
<1>3. UnknownReportedOnce'
  <2>1. CASE diags' = diags
    BY <1>2, <2>1, UnknownKept DEF TextInv
  <2>2. CASE \E why \in {"token", "expected"} : Report(why, Peeked(0))
    <3>1. PICK why \in {"token", "expected"} : Report(why, Peeked(0))
      BY <2>2
    <3> DEFINE d == [why |-> why, offset |-> Peeked(0).offset, length |-> Peeked(0).length]
    <3>2. /\ Len(diags') = Len(diags) + 1 /\ Len(diags) \in Nat
          /\ \A i \in 1..Len(diags) : diags'[i] = diags[i]
          /\ diags'[Len(diags) + 1].why # "character"
      <4>1. diags \in Seq(Diagnostic) /\ diags' = Append(diags, d)
        BY <3>1 DEF IndexInv, TypeOK, Report
      <4>2. d.why # "character"
        OBVIOUS
      <4> HIDE DEF d
      <4> QED
        BY <4>1, <4>2
    <3>3. /\ CharacterReports' = CharacterReports
          /\ \A i \in CharacterReports : diags'[i] = diags[i]
      BY <3>2 DEF CharacterReports
    <3>4. {diags[i].offset : i \in CharacterReports}'
            = {diags[i].offset : i \in CharacterReports}
      BY <3>3
    <3>5. {source[k].offset : k \in UnknownLexemes(lexed)}'
            = {source[k].offset : k \in UnknownLexemes(lexed)}
      BY <1>2
    <3> QED
      BY <3>3, <3>4, <3>5 DEF TextInv, UnknownReportedOnce
  <2> QED
    BY <2>1, <2>2
<1> QED
  BY <1>1, <1>3 DEF TextInv, IsEof, EndOf

(* Every step of ParserContext keeps the invariant on the text.            *)
LEMMA NextText == IndexInv /\ TextInv /\ [Next]_vars => TextInv'
<1> SUFFICES ASSUME IndexInv, TextInv, [Next]_vars PROVE TextInv'
  OBVIOUS
<1>1. CASE LexToken
  BY <1>1, LexTokenText
<1>2. CASE LexUnknown
  BY <1>2, LexUnknownText
<1>3. CASE ConsumeOneGtReturns
  <2>1. CASE CanConsumeGt(Peeked(0)) /\ Peeked(0).length > 1
    BY <1>3, <2>1, SplitText
  <2>2. CASE ~(CanConsumeGt(Peeked(0)) /\ Peeked(0).length > 1)
    BY <1>3, <2>2, OtherAnswersText DEF ConsumeOneGtReturns
  <2> QED
    BY <2>1, <2>2
<1>4. CASE AdvanceErrorReturns \/ ExpectTokenReturns
  BY <1>4, OtherAnswersText DEF AdvanceErrorReturns, ExpectTokenReturns
<1>5. CASE \/ \E op \in Operations : Request(op)
           \/ PeekReturns
           \/ AdvanceReturns
           \/ Save
           \/ RewindTo
           \/ Forget
           \/ UNCHANGED vars
  BY <1>5, OtherAnswersText
     DEF Request, PeekReturns, AdvanceReturns, Save, RewindTo, Forget, vars
<1> QED
  BY <1>1, <1>2, <1>3, <1>4, <1>5 DEF Next, Serve

(* In every behaviour the buffer spells what was lexed.                    *)
LEMMA TextInvariance == Spec => []TextInv
<1> QED
  BY InitText, NextText, IndexInvariance, PTL DEF Spec

(* However the buffer was filled and split, its tokens spell the lexed     *)
(* text: in order, without overlap, nothing lost and nothing invented.     *)
THEOREM SpellsSource == Spec => []TokensSpellSource
<1>1. TextInv => TokensSpellSource
  BY DEF TextInv
<1> QED
  BY <1>1, TextInvariance, PTL

(* Every character no token starts with is reported exactly once, in       *)
(* source order, however the parser backtracks.                            *)
THEOREM UnknownOnce == Spec => []UnknownReportedOnce
<1>1. TextInv => UnknownReportedOnce
  BY DEF TextInv
<1> QED
  BY <1>1, TextInvariance, PTL
-----------------------------------------------------------------------------
(* The characters of a token, and the order of the buffer's tokens.        *)
LEMMA TokenOrder ==
    ASSUME IndexInv, TextInv
    PROVE  /\ \A i \in 1..Len(tokens) :
                /\ tokens[i] \in Lexeme
                /\ tokens[i].offset \in Nat /\ EndOf(tokens[i]) \in Nat
                /\ tokens[i].offset <= EndOf(tokens[i])
                /\ \A x : x \in Chars(tokens[i]) <=>
                      x \in Int /\ tokens[i].offset <= x /\ x < EndOf(tokens[i])
           /\ \A i, j \in 1..Len(tokens) : i < j => EndOf(tokens[i]) <= tokens[j].offset
<1>1. ASSUME NEW i \in 1..Len(tokens)
      PROVE  /\ tokens[i] \in Lexeme
             /\ tokens[i].offset \in Nat /\ EndOf(tokens[i]) \in Nat
             /\ tokens[i].offset <= EndOf(tokens[i])
             /\ \A x : x \in Chars(tokens[i]) <=>
                   x \in Int /\ tokens[i].offset <= x /\ x < EndOf(tokens[i])
  <2>1. tokens[i] \in Lexeme
    BY SourceFacts
  <2>2. tokens[i].offset \in Nat /\ tokens[i].length \in Nat
    BY <2>1 DEF Lexeme
  <2> QED
    BY <2>1, <2>2 DEF EndOf, Chars
<1> QED
  BY <1>1 DEF TextInv, TokensSpellSource

(* The same, for one character.                                            *)
LEMMA InChars ==
    ASSUME IndexInv, TextInv, NEW i \in 1..Len(tokens), NEW x
    PROVE  x \in Chars(tokens[i]) <=>
              x \in Int /\ tokens[i].offset <= x /\ x < EndOf(tokens[i])
BY TokenOrder

(* A token that has been consumed is not empty.                            *)
LEMMA ConsumedTokens ==
    ASSUME IndexInv, TextInv, NEW i \in 1..cursor
    PROVE  i \in 1..Len(tokens) /\ tokens[i].offset < EndOf(tokens[i])
<1>1. i \in 1..Len(tokens) /\ tokens[i] \in Lexeme
  BY SourceFacts DEF IndexInv
<1>2. ~IsEof(tokens[i])
  <2> SUFFICES ASSUME IsEof(tokens[i]) PROVE FALSE
    OBVIOUS
  <2>1. i = Len(tokens)
    BY <1>1 DEF IndexInv, EofStaysAhead
  <2>2. AtEofToken
    BY <1>1, <2>1 DEF AtEofToken
  <2> QED
    BY <2>1, <2>2, SourceFacts DEF IndexInv, EofStaysAhead
<1>3. tokens[i].length # 0 /\ tokens[i].offset \in Nat /\ tokens[i].length \in Nat
  BY <1>1, <1>2 DEF TextInv, Lexeme
<1> QED
  BY <1>1, <1>3 DEF EndOf

(* The span a parse function gives its node reaches from the first to the  *)
(* last character it has consumed, however its tokens were split.          *)
THEOREM SpansCover == Spec => []SpansCoverConsumed
<1>1. IndexInv /\ TextInv => SpansCoverConsumed
  <2> SUFFICES ASSUME IndexInv, TextInv, NEW k \in 1..Len(marks), marks[k] < cursor
               PROVE  LET m == marks[k]
                          consumed == ReadChars(cursor) \ ReadChars(m)
                      IN  /\ consumed \subseteq Chars(SpanFrom(m))
                          /\ SpanFrom(m).offset \in consumed
                          /\ EndOf(SpanFrom(m)) - 1 \in consumed
    BY DEF SpansCoverConsumed
  <2> DEFINE m == marks[k]
             first == tokens[m + 1]
             last == tokens[cursor]
  <2>1. /\ m \in Nat /\ cursor \in Nat /\ Len(tokens) \in Nat
        /\ m < cursor /\ cursor <= Len(tokens)
    BY SourceFacts DEF IndexInv, TypeOK
  <2>2. /\ m + 1 \in 1..cursor /\ cursor \in 1..cursor
        /\ m + 1 \in 1..Len(tokens) /\ cursor \in 1..Len(tokens)
    BY <2>1
  <2>3. /\ first.offset \in Nat /\ EndOf(first) \in Nat /\ first.offset < EndOf(first)
        /\ last.offset \in Nat /\ EndOf(last) \in Nat /\ last.offset < EndOf(last)
    BY <2>2, ConsumedTokens, TokenOrder
  <2>4. EndOf(first) <= EndOf(last) /\ first.offset <= last.offset
    <3>1. CASE m + 1 = cursor
      BY <2>3, <3>1
    <3>2. CASE m + 1 < cursor
      <4>1. EndOf(first) <= last.offset
        BY <2>2, <3>2, TokenOrder
      <4> QED
        BY <2>3, <4>1
    <3> QED
      BY <2>1, <3>1, <3>2
  <2>5. SpanFrom(m) = [offset |-> first.offset, length |-> EndOf(last) - first.offset]
    BY <2>1, <2>3, <2>4 DEF SpanFrom
  <2>6. /\ SpanFrom(m).offset = first.offset /\ EndOf(SpanFrom(m)) = EndOf(last)
        /\ Chars(SpanFrom(m)) = first.offset .. (EndOf(last) - 1)
    BY <2>3, <2>5 DEF EndOf, Chars
  <2>7. ASSUME NEW x, x \in ReadChars(m)
        PROVE  x \in Int /\ x < first.offset
    <3>1. PICK i \in 1..m : x \in Chars(tokens[i])
      BY <2>1, <2>7, InReadChars
    <3>2. i \in 1..Len(tokens) /\ i < m + 1
      BY <2>1
    <3>3. EndOf(tokens[i]) \in Nat /\ EndOf(tokens[i]) <= first.offset
      BY <2>2, <3>2, TokenOrder
    <3>4. x \in Int /\ x < EndOf(tokens[i])
      BY <3>1, <3>2, InChars
    <3> QED
      BY <2>3, <3>3, <3>4
  <2>8. ASSUME NEW x, x \in ReadChars(cursor), x \notin ReadChars(m)
        PROVE  x \in Int /\ first.offset <= x /\ x < EndOf(last)
    <3>1. PICK i \in 1..cursor : x \in Chars(tokens[i])
      BY <2>1, <2>8, InReadChars
    <3>2. i \in (m + 1)..cursor /\ i \in 1..Len(tokens)
      BY <2>1, <2>8, <3>1, InReadChars
    <3>3. /\ x \in Int /\ tokens[i].offset <= x /\ x < EndOf(tokens[i])
          /\ tokens[i].offset \in Nat /\ EndOf(tokens[i]) \in Nat
      BY <3>1, <3>2, TokenOrder
    <3>4. i = m + 1 \/ EndOf(first) <= tokens[i].offset
      BY <2>1, <2>2, <3>2, TokenOrder
    <3>5. i = cursor \/ EndOf(tokens[i]) <= last.offset
      BY <2>1, <2>2, <3>2, TokenOrder
    <3> QED
      BY <2>3, <3>3, <3>4, <3>5
  <2>9. first.offset \in ReadChars(cursor) /\ EndOf(last) - 1 \in ReadChars(cursor)
    <3>1. first.offset \in Chars(first) /\ EndOf(last) - 1 \in Chars(last)
      <4> HIDE DEF first, last
      <4>1. first.offset \in Chars(first)
        BY <2>2, <2>3, InChars DEF first
      <4>2. EndOf(last) - 1 \in Int /\ last.offset <= EndOf(last) - 1
            /\ EndOf(last) - 1 < EndOf(last)
        BY <2>3
      <4>3. EndOf(last) - 1 \in Chars(last)
        BY <2>2, <4>2, InChars DEF last
      <4> QED
        BY <4>1, <4>3
    <3> QED
      BY <2>2, <2>1, <3>1, InReadChars
  <2>10. first.offset \notin ReadChars(m) /\ EndOf(last) - 1 \notin ReadChars(m)
    BY <2>3, <2>4, <2>7
  <2>11. ReadChars(cursor) \ ReadChars(m) \subseteq Chars(SpanFrom(m))
    BY <2>3, <2>6, <2>8
  <2> QED
    BY <2>6, <2>9, <2>10, <2>11
<1> QED
  BY <1>1, IndexInvariance, TextInvariance, PTL
-----------------------------------------------------------------------------
(* No step touches the source, or the text that is unread after a cursor   *)
(* that has been reached.                                                  *)
LEMMA UnreadKept ==
    ASSUME IndexInv, [Next]_vars
    PROVE  /\ source' = source
           /\ \A n \in 0..cursor : Unread(n)' = Unread(n)
<1>1. source' = source
  BY DEF Next, Serve, vars, Request, LexToken, LexUnknown, PeekReturns,
         AdvanceReturns, ConsumeOneGtReturns, AdvanceErrorReturns,
         ExpectTokenReturns, Save, RewindTo, Forget
<1>2. ASSUME NEW n \in 0..cursor PROVE Unread(n)' = Unread(n)
  <2>1. n \in Nat /\ \A i \in 1..n : i \in 1..cursor
    BY SourceFacts
  <2>2. \A i \in 1..n : Chars(tokens[i])' = Chars(tokens[i])
    BY <2>1, PrefixKept DEF Chars
  <2>3. ReadChars(n)' = ReadChars(n)
    BY <2>2 DEF ReadChars
  <2>4. TextChars(source, Len(source))' = TextChars(source, Len(source))
    BY <1>1 DEF TextChars, Significant, Chars
  <2> QED
    BY <2>3, <2>4 DEF Unread
<1> QED
  BY <1>1, <1>2

(* The token consumed last is a piece of what was unread before it, and    *)
(* lies before all that is unread after it.                                *)
Piece ==
    cursor > 0 =>
        /\ Unread(cursor) \in SUBSET Unread(cursor - 1)
        /\ Unread(cursor) # Unread(cursor - 1)
        /\ \A p \in Unread(cursor - 1) \ Unread(cursor), q \in Unread(cursor) : p < q

(* So it does in every state the invariants allow.                         *)
LEMMA PieceTaken == IndexInv /\ TextInv => Piece
<1> SUFFICES ASSUME IndexInv, TextInv, cursor > 0
             PROVE  /\ Unread(cursor) \in SUBSET Unread(cursor - 1)
                    /\ Unread(cursor) # Unread(cursor - 1)
                    /\ \A p \in Unread(cursor - 1) \ Unread(cursor),
                          q \in Unread(cursor) : p < q
  BY DEF Piece
<1> DEFINE t == tokens[cursor]
           n == Len(tokens)
           c == cursor
<1>1. /\ c \in Nat /\ c - 1 \in Nat /\ n \in Nat /\ c <= n
      /\ c \in 1..n /\ c \in 1..c
  BY SourceFacts DEF IndexInv
<1>2. t.offset \in Nat /\ EndOf(t) \in Nat /\ t.offset < EndOf(t)
  BY <1>1, ConsumedTokens, TokenOrder
<1>3. lexed \in Nat /\ lexed <= Len(source) /\ Len(source) \in Nat
  BY SourceFacts DEF IndexInv, TypeOK
<1>4. \A x : x \in ReadChars(c) <=> x \in ReadChars(c - 1) \/ x \in Chars(t)
  <2> TAKE x
  <2>1. x \in ReadChars(c) <=> \E i \in 1..c : x \in Chars(tokens[i])
    BY <1>1, InReadChars
  <2>2. x \in ReadChars(c - 1) <=> \E i \in 1..(c - 1) : x \in Chars(tokens[i])
    BY <1>1, InReadChars
  <2>3. \A i : i \in 1..c <=> i \in 1..(c - 1) \/ i = c
    BY <1>1
  <2> QED
    BY <2>1, <2>2, <2>3
<1>5. Unread(c) \in SUBSET Unread(c - 1)
  BY <1>4 DEF Unread
<1>6. t.offset \in Unread(c - 1) \ Unread(c)
  <2>1. t.offset \in Chars(t)
    <3> HIDE DEF t
    <3> QED
      BY <1>1, <1>2, InChars DEF t
  <2>2. t.offset \in ReadChars(n)
    BY <1>1, <2>1, InReadChars
  <2>3. t.offset \in TextChars(source, lexed)
    BY <2>2 DEF TextInv, TokensSpellSource
  <2>4. t.offset \in TextChars(source, Len(source))
    <3>1. PICK i \in 1..lexed : source[i].kind # "Unknown" /\ t.offset \in Chars(source[i])
      BY <1>3, <2>3, InTextChars
    <3>2. i \in 1..Len(source)
      BY <1>3
    <3> QED
      BY <1>3, <3>1, <3>2, InTextChars
  <2>5. t.offset \notin ReadChars(c - 1)
    <3> SUFFICES ASSUME NEW i \in 1..(c - 1), t.offset \in Chars(tokens[i])
                 PROVE  FALSE
      BY <1>1, InReadChars
    <3>1. i \in 1..n /\ i < c
      BY <1>1
    <3>2. EndOf(tokens[i]) \in Nat /\ EndOf(tokens[i]) <= t.offset
      BY <1>1, <3>1, TokenOrder
    <3>3. t.offset < EndOf(tokens[i])
      BY <3>1, InChars
    <3> QED
      BY <1>2, <3>2, <3>3
  <2> QED
    BY <1>4, <2>1, <2>4, <2>5 DEF Unread
<1>7. ASSUME NEW p \in Unread(c - 1) \ Unread(c), NEW q \in Unread(c)
      PROVE  p < q
  <2>1. p \in Chars(t)
    BY <1>4 DEF Unread
  <2>2. p \in Int /\ p < EndOf(t)
    <3> HIDE DEF t
    <3> QED
      BY <1>1, <2>1, InChars DEF t
  <2>3. q \in Int /\ EndOf(t) <= q
    <3>1. PICK j \in 1..Len(source) :
             source[j].kind # "Unknown" /\ q \in Chars(source[j])
      BY <1>3, InTextChars DEF Unread
    <3>2. CASE j \in 1..lexed
      <4>1. q \in ReadChars(n)
        BY <1>3, <3>1, <3>2, InTextChars DEF TextInv, TokensSpellSource
      <4>2. PICK i \in 1..n : q \in Chars(tokens[i])
        BY <1>1, <4>1, InReadChars
      <4>3. c < i
        <5>1. q \notin ReadChars(c)
          BY DEF Unread
        <5>2. i \notin 1..c
          BY <1>1, <4>2, <5>1, InReadChars
        <5> QED
          BY <1>1, <5>2
      <4>4. EndOf(t) <= tokens[i].offset /\ tokens[i].offset \in Nat
        BY <1>1, <4>3, TokenOrder
      <4>5. q \in Int /\ tokens[i].offset <= q
        BY <4>2, InChars
      <4> QED
        BY <1>2, <4>4, <4>5
    <3>3. CASE j \notin 1..lexed
      <4>1. j \in (lexed + 1)..Len(source)
        BY <1>3, <3>3
      <4>2. EndOf(t) <= source[j].offset
        BY <1>1, <4>1 DEF TextInv
      <4>3. source[j].offset \in Nat /\ source[j].length \in Nat
        BY LexemeOrder DEF Lexeme
      <4>4. q \in Int /\ source[j].offset <= q
        BY <3>1, <4>3 DEF Chars
      <4> QED
        BY <1>2, <4>2, <4>3, <4>4
    <3> QED
      BY <3>2, <3>3
  <2> QED
    BY <1>2, <2>2, <2>3
<1> QED
  BY <1>5, <1>6, <1>7
-----------------------------------------------------------------------------
(* The abstract state of ParserContext.                                    *)
Text == TextChars(source, Len(source))

Marked == [k \in 1..Len(marks) |-> Unread(marks[k])]

(* Its marks one by one, none of them ahead of the cursor.                 *)
LEMMA MarkedSeq ==
    ASSUME IndexInv
    PROVE  /\ Marked \in Seq({Unread(marks[k]) : k \in 1..Len(marks)})
           /\ Len(Marked) = Len(marks) /\ Len(marks) \in Nat
           /\ \A k \in 1..Len(marks) :
                 /\ Marked[k] = Unread(marks[k])
                 /\ marks[k] \in 0..cursor
<1>1. Len(marks) \in Nat /\ \A k \in 1..Len(marks) : marks[k] \in 0..cursor
  BY SourceFacts DEF IndexInv, TypeOK
<1> QED
  BY <1>1 DEF Marked

(* Marks that stay keep what was unread when they were taken.              *)
LEMMA MarkedKept ==
    ASSUME IndexInv, [Next]_vars
    PROVE  \A k \in 1..Len(marks) : k <= Len(marks') =>
              Unread(marks[k])' = Unread(marks[k])
<1> SUFFICES ASSUME NEW k \in 1..Len(marks), k <= Len(marks')
             PROVE  Unread(marks[k])' = Unread(marks[k])
  OBVIOUS
<1>1. marks'[k] = marks[k]
  BY MarksPrefix
<1>2. PICK n \in 0..cursor : n = marks[k]
  BY MarkedSeq
<1>3. Unread(marks[k])' = Unread(n)'
  BY <1>1, <1>2 DEF Unread, ReadChars
<1> QED
  BY <1>2, <1>3, UnreadKept

(* Nothing abstract changes when the cursor and the marks stay ...         *)
LEMMA StaysStutters ==
    ASSUME IndexInv, [Next]_vars, cursor' = cursor, marks' = marks
    PROVE  UNCHANGED Reader!vars
<1>1. Text' = Text
  BY UnreadKept DEF Text, TextChars, Significant, Chars
<1>2. Unread(cursor)' = Unread(cursor)
  <2>1. cursor \in 0..cursor
    BY SourceFacts
  <2> QED
    BY <2>1, UnreadKept DEF Unread
<1>3. Marked' = Marked
  BY MarkedKept, MarkedSeq DEF Marked
<1> QED
  BY <1>1, <1>2, <1>3 DEF Reader!vars, Text, Marked

(* ... and to step over one token is to take a piece.                      *)
LEMMA StepTakes ==
    ASSUME IndexInv, [Next]_vars, Piece', cursor' = cursor + 1, marks' = marks
    PROVE  Reader!Take
<1>1. Text' = Text
  BY UnreadKept DEF Text, TextChars, Significant, Chars
<1>2. Marked' = Marked
  BY MarkedKept, MarkedSeq DEF Marked
<1>3. cursor' > 0 /\ cursor' - 1 = cursor /\ cursor \in 0..cursor
  BY SourceFacts
<1>4. Unread(cursor - 1)' = Unread(cursor)
  BY <1>3, UnreadKept DEF Unread
<1>5. /\ Unread(cursor)' \in SUBSET Unread(cursor)
      /\ Unread(cursor)' # Unread(cursor)
      /\ \A p \in Unread(cursor) \ Unread(cursor)', q \in Unread(cursor)' : p < q
  BY <1>3, <1>4 DEF Piece
<1> QED
  BY <1>1, <1>2, <1>5 DEF Reader!Take, Text, Marked

(* Saving a cursor is to mark what is unread.                              *)
LEMMA SaveMarks ==
    ASSUME IndexInv, Save
    PROVE  Reader!Mark
<1>1. [Next]_vars /\ cursor' = cursor /\ marks' = Append(marks, cursor)
  BY DEF Save, Next
<1>2. Text' = Text
  BY <1>1, UnreadKept DEF Text, TextChars, Significant, Chars
<1>3. Unread(cursor)' = Unread(cursor)
  <2>1. cursor \in 0..cursor
    BY SourceFacts
  <2> QED
    BY <1>1, <2>1, UnreadKept DEF Unread
<1>4. PICK n \in Nat : n = Len(marks)
  BY DEF IndexInv, TypeOK
<1>5. /\ Len(marks') = n + 1 /\ marks'[n + 1] = cursor
      /\ \A k \in 1..n : marks'[k] = marks[k]
  BY <1>1, <1>4, SourceFacts DEF IndexInv, TypeOK
<1>6. \A k \in 1..n : Unread(marks[k])' = Marked[k]
  BY <1>1, <1>4, <1>5, MarkedKept, MarkedSeq
<1>7. Unread(marks[n + 1])' = Unread(cursor)
  <2>1. Unread(marks[n + 1])' = Unread(cursor)'
    BY <1>1, <1>5 DEF Unread, ReadChars
  <2> QED
    BY <1>3, <2>1
<1>8. Marked' = Append(Marked, Unread(cursor))
  <2> DEFINE S == {Unread(marks[k]) : k \in 1..Len(marks)} \cup {Unread(cursor)}
  <2>1. Marked \in Seq(S) /\ Unread(cursor) \in S /\ Len(Marked) = n
    <3>1. \A k \in 1..n : Marked[k] \in S
      BY <1>4, MarkedSeq
    <3>2. Marked = [k \in 1..n |-> Marked[k]]
      BY <1>4 DEF Marked
    <3>3. Unread(cursor) \in S
      OBVIOUS
    <3> HIDE DEF S
    <3> QED
      BY <1>4, <3>1, <3>2, <3>3, MarkedSeq
  <2>2. Marked' = [k \in 1..(n + 1) |-> Unread(marks[k])']
    BY <1>5 DEF Marked
  <2>3. \A k \in 1..(n + 1) :
           Unread(marks[k])' = (IF k = n + 1 THEN Unread(cursor) ELSE Marked[k])
    <3> TAKE k \in 1..(n + 1)
    <3>1. CASE k = n + 1
      BY <1>7, <3>1
    <3>2. CASE k # n + 1
      BY <1>6, <3>2
    <3> QED
      BY <3>1, <3>2
  <2> HIDE DEF S
  <2>4. /\ Append(Marked, Unread(cursor)) \in Seq(S)
        /\ Len(Append(Marked, Unread(cursor))) = n + 1
        /\ \A k \in 1..(n + 1) : Append(Marked, Unread(cursor))[k]
              = (IF k = n + 1 THEN Unread(cursor) ELSE Marked[k])
    BY <2>1, AppendProperties
  <2>5. \A k \in 1..(n + 1) : Marked'[k] = Append(Marked, Unread(cursor))[k]
    BY <2>2, <2>3, <2>4
  <2>6. Len(Marked') = n + 1 /\ Marked' \in Seq(S)
    BY <2>1, <2>2, <2>3
  <2> QED
    BY <2>4, <2>5, <2>6, SeqEqual
<1> QED
  BY <1>2, <1>3, <1>8 DEF Reader!Mark, Text, Marked

(* Marks that go take nothing else with them.                              *)
LEMMA MarksForgotten ==
    ASSUME IndexInv, [Next]_vars, NEW n \in 0..Len(marks),
           marks' = SubSeq(marks, 1, n)
    PROVE  /\ Text' = Text
           /\ Len(Marked') = n /\ Marked' = SubSeq(Marked, 1, n)
<1>1. Text' = Text
  BY UnreadKept DEF Text, TextChars, Significant, Chars
<1>2. marks \in Seq(Nat) /\ Len(marks) \in Nat
  BY DEF IndexInv, TypeOK
<1>3. Len(marks') = n
  BY <1>2, FirstElements
<1>4. \A k \in 1..n : Unread(marks[k])' = Marked[k]
  BY <1>2, <1>3, MarkedKept, MarkedSeq
<1>5. Marked' = [k \in 1..n |-> Marked[k]]
  BY <1>3, <1>4 DEF Marked
<1>6. SubSeq(Marked, 1, n) = [k \in 1..n |-> Marked[k]]
  BY <1>2, MarkedSeq
<1> QED
  BY <1>1, <1>2, <1>5, <1>6

(* Rewinding puts back what was consumed since the mark.                   *)
LEMMA RewindPutsBack ==
    ASSUME IndexInv, RewindTo
    PROVE  Reader!PutBack
<1>1. PICK i \in 1..Len(marks) : cursor' = marks[i] /\ marks' = SubSeq(marks, 1, i)
  BY DEF RewindTo
<1>2. [Next]_vars
  BY DEF Next
<1>3. Len(marks) \in Nat /\ i \in 0..Len(marks)
  BY MarkedSeq
<1>4. Text' = Text /\ Len(Marked') = i /\ Marked' = SubSeq(Marked, 1, i)
  BY <1>1, <1>2, <1>3, MarksForgotten
<1>5. Unread(cursor)' = Marked[i]
  <2>1. marks[i] \in 0..cursor /\ Marked[i] = Unread(marks[i])
    BY MarkedSeq
  <2>2. Unread(marks[i])' = Unread(marks[i])
    <3>1. i <= Len(marks')
      BY <1>1, <1>3, FirstElements DEF IndexInv, TypeOK
    <3> QED
      BY <1>2, <3>1, MarkedKept
  <2>3. marks'[i] = cursor'
    BY <1>1, <1>3, FirstElements DEF IndexInv, TypeOK
  <2> QED
    BY <2>1, <2>2, <2>3 DEF Unread
<1>6. i \in {Len(Marked'), Len(Marked') + 1} \cap 1..Len(Marked)
  BY <1>3, <1>4, MarkedSeq
<1>7. /\ Len(Marked') <= Len(Marked)
      /\ Marked' = SubSeq(Marked, 1, Len(Marked'))
      /\ \E j \in {Len(Marked'), Len(Marked') + 1} \cap 1..Len(Marked) :
            Unread(cursor)' = Marked[j]
      /\ Text' = Text
  <2>1. Len(Marked') <= Len(Marked) /\ Marked' = SubSeq(Marked, 1, Len(Marked'))
    BY <1>3, <1>4, MarkedSeq
  <2>2. \E j \in {Len(Marked'), Len(Marked') + 1} \cap 1..Len(Marked) :
           Unread(cursor)' = Marked[j]
    BY <1>5, <1>6
  <2> QED
    BY <1>4, <2>1, <2>2
<1> QED
  BY <1>7 DEF Reader!PutBack, Reader!Forgetting, Text, Marked

(* The function that took the innermost mark returns.                      *)
LEMMA ForgetUnmarks ==
    ASSUME IndexInv, Forget
    PROVE  Reader!Unmark
<1>1. /\ [Next]_vars /\ cursor' = cursor /\ marks # << >>
      /\ marks' = SubSeq(marks, 1, Len(marks) - 1)
  BY DEF Forget, Next
<1>2. Len(marks) \in Nat /\ Len(marks) - 1 \in 0..Len(marks) /\ cursor \in 0..cursor
  BY <1>1, SourceFacts DEF IndexInv, TypeOK
<1>3. Text' = Text /\ Len(Marked') = Len(marks) - 1
      /\ Marked' = SubSeq(Marked, 1, Len(marks) - 1)
  BY <1>1, <1>2, MarksForgotten
<1>4. Unread(cursor)' = Unread(cursor)
  BY <1>1, <1>2, UnreadKept DEF Unread
<1>5. Len(Marked') < Len(Marked) /\ Marked' = SubSeq(Marked, 1, Len(Marked'))
  BY <1>2, <1>3, MarkedSeq
<1> QED
  BY <1>3, <1>4, <1>5 DEF Reader!Unmark, Reader!Forgetting, Text, Marked

(* An answer moves the cursor by one token, or not at all.                 *)
LEMMA AnswersMove ==
    ASSUME IndexInv, Serve
    PROVE  marks' = marks /\ (cursor' = cursor \/ cursor' = cursor + 1)
BY DEF Serve, LexToken, LexUnknown, PeekReturns, AdvanceReturns, Stepped,
       ConsumeOneGtReturns, AdvanceErrorReturns, ExpectTokenReturns

(* However it lexes, looks ahead, splits and rewinds, ParserContext is to  *)
(* its callers a reader that hands out the source's text in order, and     *)
(* puts it back exactly as it was.                                         *)
THEOREM Refinement == Spec => ImplementsReader
<1>1. Init => Reader!Init
  <2> SUFFICES ASSUME Init PROVE Reader!Init
    OBVIOUS
  <2>1. source \in Sources /\ cursor = 0 /\ marks = << >>
    BY DEF Init
  <2>2. Unread(cursor) = Text
    BY <2>1, InReadChars DEF Unread, Text
  <2>3. Marked = << >>
    BY <2>1 DEF Marked
  <2> QED
    BY <2>1, <2>2, <2>3 DEF Reader!Init, Text, Marked
<1>2. (IndexInv /\ TextInv => Piece)'
  BY PieceTaken, PTL
<1>3. IndexInv /\ IndexInv' /\ TextInv' /\ [Next]_vars => [Reader!Next]_(Reader!vars)
  <2> SUFFICES ASSUME IndexInv, IndexInv', TextInv', [Next]_vars
               PROVE  Reader!Next \/ UNCHANGED Reader!vars
    OBVIOUS
  <2>1. CASE Serve
    <3>1. CASE marks' = marks /\ cursor' = cursor
      BY <3>1, StaysStutters
    <3>2. CASE marks' = marks /\ cursor' = cursor + 1
      BY <1>2, <3>2, StepTakes DEF Reader!Next
    <3> QED
      BY <2>1, <3>1, <3>2, AnswersMove
  <2>2. CASE UNCHANGED vars \/ \E op \in Operations : Request(op)
    BY <2>2, StaysStutters DEF vars, Request
  <2>3. CASE Save
    BY <2>3, SaveMarks DEF Reader!Next
  <2>4. CASE RewindTo
    BY <2>4, RewindPutsBack DEF Reader!Next
  <2>5. CASE Forget
    BY <2>5, ForgetUnmarks DEF Reader!Next
  <2> QED
    BY <2>1, <2>2, <2>3, <2>4, <2>5 DEF Next
<1> QED
  BY <1>1, <1>3, IndexInvariance, TextInvariance, PTL
     DEF Spec, ImplementsReader, Reader!Spec
=============================================================================
