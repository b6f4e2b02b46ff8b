---------------------------- MODULE Lexer_proofs ----------------------------
(***************************************************************************)
(* What Lex yields is what ParserContext assumes of its sources: for every *)
(* source the lexemes come in order, apart from each other and not empty,  *)
(* and end in one end of file (theorem WellLexedAlways).  Nothing but      *)
(* white space and comments lies between them (GapsAlwaysSilent),          *)
(* punctuation is read as bnf.txt has it (LongestAlways), a report shows a *)
(* token where it is (CaretsAlwaysUnder), and a token is what its own text *)
(* makes it (TokensStandAlone).                                            *)
(*                                                                         *)
(* The argument: a scan never leaves the source and ends behind the        *)
(* character that began it (EndInside, CommentEndInside), so that every    *)
(* step moves the offset forward inside the source, and a lexeme fits      *)
(* between the offset before a step and the one after it.                  *)
(***************************************************************************)
EXTENDS SourceLines, FiniteSetTheorems, SequenceTheorems, WellFoundedInduction, TLAPS

(* A set of natural numbers that is not empty has the minimum Min chooses. *)
LEMMA MinIsMinimum ==
    ASSUME NEW S \in SUBSET Nat, S # {}
    PROVE  Min(S) \in S /\ \A y \in S : Min(S) <= y
<1>1. PICK m \in S : \A y \in S : <<y, m>> \notin OpToRel(<, Nat)
  BY WFMin, NatLessThanWellFounded, Zenon
<1>2. \A y \in S : m <= y
  <2>1. \A y \in S : ~(y < m)
    BY <1>1, Zenon DEF OpToRel
  <2>2. QED
    BY <2>1
<1>3. \E x \in S : \A y \in S : x <= y
  BY <1>2
<1>4. QED
  BY <1>3 DEF Min

(* There are characters only inside the source.                            *)
LEMMA AtInside ==
    ASSUME NEW s \in Seq(STRING), NEW p \in Nat, At(s, p) # Nul
    PROVE  p < Len(s)
BY DEF At

(* A run ends inside the source, and not before the place it begins at.    *)
LEMMA BeyondInside ==
    ASSUME NEW s \in Seq(STRING), NEW p \in 0..Len(s), NEW class
    PROVE  /\ Beyond(s, p, class) \in p..Len(s)
           /\ p < Len(s) /\ At(s, p) \in class => Beyond(s, p, class) > p
<1> DEFINE S == {q \in p..Len(s) : q = Len(s) \/ At(s, q) \notin class}
<1>1. S \in SUBSET Nat /\ Len(s) \in S
  OBVIOUS
<1>2. Min(S) \in S
  BY <1>1, MinIsMinimum
<1>3. QED
  BY <1>2 DEF Beyond

LEMMA UntilInside ==
    ASSUME NEW s \in Seq(STRING), NEW p \in 0..Len(s), NEW class
    PROVE  Until(s, p, class) \in p..Len(s)
<1> DEFINE S == {q \in p..Len(s) : q = Len(s) \/ At(s, q) \in class}
<1>1. S \in SUBSET Nat /\ Len(s) \in S
  OBVIOUS
<1>2. Min(S) \in S
  BY <1>1, MinIsMinimum
<1>3. QED
  BY <1>2 DEF Until

(* A text of characters that is spelled somewhere lies inside the source.  *)
IsText(text) ==
    /\ Len(text) \in Nat \ {0}
    /\ \A i \in 1..Len(text) : text[i] # Nul

LEMMA SpelledInside ==
    ASSUME NEW s \in Seq(STRING), NEW p \in Nat, NEW text, IsText(text),
           Spells(s, p, text)
    PROVE  p + Len(text) <= Len(s)
<1> DEFINE n == Len(text)
<1>1. n \in 1..n /\ text[n] # Nul /\ n \in Nat
  BY DEF IsText
<1>2. At(s, p + n - 1) = text[n]
  BY <1>1 DEF Spells
<1>3. p + n - 1 < Len(s)
  BY <1>1, <1>2, AtInside
<1>4. QED
  BY <1>1, <1>3

LEMMA PastInside ==
    ASSUME NEW s \in Seq(STRING), NEW p \in 0..Len(s), NEW text, IsText(text)
    PROVE  Past(s, p, text) \in p..Len(s)
<1> DEFINE ends == {q \in p..Len(s) : Spells(s, q, text)}
<1>1. CASE ends = {}
  BY <1>1 DEF Past
<1>2. CASE ends # {}
  <2>1. ends \in SUBSET Nat
    OBVIOUS
  <2>2. Min(ends) \in ends
    BY <1>2, <2>1, MinIsMinimum
  <2>3. Min(ends) \in p..Len(s) /\ Min(ends) + Len(text) <= Len(s) /\ Len(text) \in Nat
    BY <2>2, SpelledInside DEF IsText
  <2>4. Past(s, p, text) = Min(ends) + Len(text)
    BY <1>2 DEF Past
  <2>5. QED
    BY <2>3, <2>4
<1>3. QED
  BY <1>1, <1>2
-----------------------------------------------------------------------------
LEMMA FractionInside ==
    ASSUME NEW s \in Seq(STRING), NEW p \in 0..Len(s)
    PROVE  /\ FractionEnd(s, p) \in p..Len(s)
           /\ At(s, p) = "." /\ At(s, p + 1) \in Digits => FractionEnd(s, p) > p
<1>1. CASE At(s, p) = "." /\ At(s, p + 1) \in Digits
  <2>1. p < Len(s)
    BY <1>1 DEF At, Nul
  <2>2. Beyond(s, p + 1, Digits) \in (p + 1)..Len(s)
    BY <2>1, BeyondInside
  <2>3. QED
    BY <1>1, <2>2 DEF FractionEnd
<1>2. CASE ~(At(s, p) = "." /\ At(s, p + 1) \in Digits)
  BY <1>2 DEF FractionEnd
<1>3. QED
  BY <1>1, <1>2

LEMMA DigitsAreCharacters == Nul \notin Digits /\ DigitsOf(Nul) = {}
BY DEF Digits, OctalDigits, BinaryDigits, DigitsOf, Nul

LEMMA ExponentInside ==
    ASSUME NEW s \in Seq(STRING), NEW p \in 0..Len(s)
    PROVE  ExponentEnd(s, p) \in p..Len(s)
<1> DEFINE Plain == At(s, p) \in {"e", "E"} /\ At(s, p + 1) \in Digits
           Signed == /\ At(s, p) \in {"e", "E"} /\ At(s, p + 1) \in {"+", "-"}
                     /\ At(s, p + 2) \in Digits
<1>1. CASE Plain
  <2>1. p + 1 < Len(s)
    BY <1>1, AtInside, DigitsAreCharacters
  <2>2. Beyond(s, p + 2, Digits) \in (p + 2)..Len(s)
    BY <2>1, BeyondInside
  <2>3. ExponentEnd(s, p) = Beyond(s, p + 2, Digits)
    BY <1>1 DEF ExponentEnd, Digits, OctalDigits, BinaryDigits
  <2>4. QED
    BY <2>2, <2>3
<1>2. CASE ~Plain /\ Signed
  <2>1. p + 2 < Len(s)
    BY <1>2, AtInside, DigitsAreCharacters
  <2>2. Beyond(s, p + 3, Digits) \in (p + 3)..Len(s)
    BY <2>1, BeyondInside
  <2>3. ExponentEnd(s, p) = Beyond(s, p + 3, Digits)
    BY <1>2 DEF ExponentEnd
  <2>4. QED
    BY <2>2, <2>3
<1>3. CASE ~Plain /\ ~Signed
  BY <1>3 DEF ExponentEnd
<1>4. QED
  BY <1>1, <1>2, <1>3

LEMMA NumberInside ==
    ASSUME NEW s \in Seq(STRING), NEW p \in 0..(Len(s) - 1), BeginsNumber(s, p)
    PROVE  NumberEnd(s, p) \in (p + 1)..Len(s)
<1> DEFINE whole == Beyond(s, p, Digits)
           fraction == FractionEnd(s, whole)
           digits == ExponentEnd(s, fraction)
<1>1. CASE At(s, p) = "0" /\ DigitsOf(At(s, p + 1)) # {}
  <2>1. p + 1 < Len(s)
    BY <1>1, AtInside, DigitsAreCharacters
  <2>2. Beyond(s, p + 2, DigitsOf(At(s, p + 1))) \in (p + 2)..Len(s)
    BY <2>1, BeyondInside
  <2>3. QED
    BY <1>1, <2>2 DEF NumberEnd
<1>2. CASE ~(At(s, p) = "0" /\ DigitsOf(At(s, p + 1)) # {})
  <2>1. whole \in p..Len(s) /\ (At(s, p) \in Digits => whole > p)
    BY BeyondInside
  <2>2. fraction \in whole..Len(s)
    BY <2>1, FractionInside
  <2>3. fraction > p
    <3>1. CASE At(s, p) \in Digits
      BY <2>1, <2>2, <3>1
    <3>2. CASE At(s, p) = "." /\ At(s, p + 1) \in Digits
      <4>1. whole = p => fraction > p
        BY <3>2, FractionInside
      <4>2. QED
        BY <2>1, <2>2, <4>1
    <3>3. QED
      BY <3>1, <3>2 DEF BeginsNumber
  <2>4. digits \in fraction..Len(s)
    BY <2>1, <2>2, ExponentInside
  <2>5. NumberEnd(s, p) = IF digits > whole /\ At(s, digits) \in {"f", "F"}
                          THEN digits + 1 ELSE digits
    BY <1>2, Zenon DEF NumberEnd
  <2>6. At(s, digits) \in {"f", "F"} => digits < Len(s)
    BY <2>1, <2>2, <2>4, AtInside DEF Nul
  <2>7. QED
    BY <2>1, <2>2, <2>3, <2>4, <2>5, <2>6
<1>3. QED
  BY <1>1, <1>2
-----------------------------------------------------------------------------
LEMMA StringInside ==
    ASSUME NEW s \in Seq(STRING), NEW p \in 0..(Len(s) - 1), BeginsString(s, p)
    PROVE  StringEnd(s, p) \in (p + 1)..Len(s)
<1>1. IsText(Heredoc)
  BY DEF IsText, Heredoc, Nul
<1>2. CASE Spells(s, p, Heredoc)
  <2>1. p + 3 <= Len(s)
    BY <1>1, <1>2, SpelledInside, SMTT(30) DEF Heredoc
  <2>2. Past(s, p + 3, Heredoc) \in (p + 3)..Len(s)
    BY <1>1, <2>1, PastInside
  <2>3. QED
    BY <1>2, <2>2 DEF StringEnd
<1>3. CASE ~Spells(s, p, Heredoc)
  <2> DEFINE escaping[q \in (p + 1)..Len(s)] ==
                 q > p + 1 /\ At(s, q - 1) = "BACKSLASH" /\ ~escaping[q - 1]
             S == {q \in (p + 1)..Len(s) :
                      \/ q = Len(s)
                      \/ At(s, q) \in Breaks
                      \/ At(s, q) = At(s, p) /\ ~escaping[q]}
             stop == Min(S)
  <2> HIDE DEF escaping
  <2>1. S \in SUBSET Nat /\ Len(s) \in S
    OBVIOUS
  <2>2. stop \in S
    BY <2>1, MinIsMinimum
  <2>3. stop \in (p + 1)..Len(s)
    BY <2>2
  <2>4. StringEnd(s, p) = IF stop < Len(s) /\ At(s, stop) = At(s, p) THEN stop + 1 ELSE stop
    BY <1>3, Zenon DEF StringEnd, escaping
  <2> HIDE DEF stop
  <2>5. QED
    BY <2>3, <2>4
<1>4. QED
  BY <1>2, <1>3

(* What the code tries for a character is text, and if it tries anything,  *)
(* the character alone is among it.                                        *)
LEMMA PunctuatorsAreText ==
    ASSUME NEW c \in STRING, c # Nul
    PROVE  /\ Len(PunctuatorsFrom(c)) \in Nat
           /\ \A i \in 1..Len(PunctuatorsFrom(c)) : IsText(PunctuatorsFrom(c)[i])
           /\ PunctuatorsFrom(c) # << >> =>
                 \E i \in 1..Len(PunctuatorsFrom(c)) : PunctuatorsFrom(c)[i] = <<c>>
<1> DEFINE Good(ts) ==
        /\ Len(ts) \in Nat
        /\ \A i \in 1..Len(ts) : IsText(ts[i])
        /\ ts # << >> => \E i \in 1..Len(ts) : ts[i] = <<c>>
<1>1. IsText(<<c>>) /\ \A d \in {c, "="} : IsText(<<c, d>>)
  BY DEF IsText, Nul
<1>2. /\ IsText(<<c, c, "=">>) /\ IsText(<<c, c, c>>) /\ IsText(<<c, "i", "s">>)
      /\ IsText(<<c, c, c, "=">>)
  BY DEF IsText, Nul
<1>3. /\ Good(<< >>) /\ Good(<<<<c>>>>)
      /\ Good(<<<<c, "=">>, <<c>>>>) /\ Good(<<<<c, c>>, <<c>>>>)
      /\ Good(<<<<c, c, c>>, <<c>>>>)
  BY <1>1, <1>2, SMTT(20)
<1>4. Good(<<<<c, "i", "s">>, <<c, "=">>, <<c>>>>)
  BY <1>1, <1>2, SMTT(20)
<1>5. Good(<<<<c, "=">>, <<c, c>>, <<c>>>>)
  BY <1>1, SMTT(20)
<1>6. Good(<<<<c, c, "=">>, <<c, c>>, <<c, "=">>, <<c>>>>)
  BY <1>1, <1>2, SMTT(20)
<1>7. Good(<<<<c, c, "=">>, <<c, "=">>, <<c, c>>, <<c>>>>)
  BY <1>1, <1>2, SMTT(20)
<1>8. Good(GtPunctuators(c))
  BY <1>1, <1>2, SMTT(20) DEF GtPunctuators
<1> HIDE DEF Good
<1>9. Good(PunctuatorsFrom(c))
  BY <1>1, <1>2, <1>3, <1>4, <1>5, <1>6, <1>7, <1>8 DEF PunctuatorsFrom
<1>10. QED
  BY <1>9 DEF Good

LEMMA PunctuatorInside ==
    ASSUME NEW s \in Seq(STRING), NEW p \in 0..(Len(s) - 1), At(s, p) # Nul,
           PunctuatorsFrom(At(s, p)) # << >>
    PROVE  PunctuatorEnd(s, p) \in (p + 1)..Len(s)
<1> DEFINE tried == PunctuatorsFrom(At(s, p))
           fit == {i \in 1..Len(tried) : Fits(s, p, tried[i])}
<1>1. At(s, p) \in STRING
  BY DEF At
<1>2. /\ Len(tried) \in Nat
      /\ \A i \in 1..Len(tried) : IsText(tried[i])
      /\ \E i \in 1..Len(tried) : tried[i] = <<At(s, p)>>
  BY <1>1, PunctuatorsAreText
<1> HIDE DEF tried
<1>3. Fits(s, p, <<At(s, p)>>)
  BY DEF Fits, Spells, NotIs
<1>4. fit # {} /\ fit \in SUBSET Nat
  BY <1>2, <1>3
<1>5. Min(fit) \in fit
  BY <1>4, MinIsMinimum
<1>6. IsText(tried[Min(fit)]) /\ Spells(s, p, tried[Min(fit)])
  BY <1>2, <1>5 DEF Fits
<1>7. p + Len(tried[Min(fit)]) <= Len(s)
  BY <1>6, SpelledInside
<1>8. PunctuatorEnd(s, p) = p + Len(tried[Min(fit)])
  BY <1>4, Zenon DEF PunctuatorEnd, tried
<1>9. QED
  BY <1>6, <1>7, <1>8 DEF IsText
-----------------------------------------------------------------------------
LexemeKinds == {"Number", "String", "Punctuator", "Name", "Unknown"}

(* A token ends inside the source, behind the character it begins with.    *)
LEMMA EndInside ==
    ASSUME NEW s \in Seq(STRING), NEW p \in 0..(Len(s) - 1),
           NEW kind \in LexemeKinds, Begins(kind, s, p)
    PROVE  EndAt(kind, s, p) \in (p + 1)..Len(s)
<1>1. CASE kind = "Number"
  BY <1>1, NumberInside DEF Begins, EndAt
<1>2. CASE kind = "String"
  BY <1>2, StringInside DEF Begins, EndAt
<1>3. CASE kind = "Punctuator"
  <2>1. PunctuatorsFrom(At(s, p)) # << >>
    BY <1>3 DEF Begins
  <2>2. PunctuatorsFrom(Nul) = << >>
    BY DEF PunctuatorsFrom, Singles, Nul
  <2>3. PunctuatorEnd(s, p) \in (p + 1)..Len(s)
    BY <2>1, <2>2, PunctuatorInside
  <2>4. QED
    BY <1>3, <2>3 DEF EndAt
<1>4. CASE kind = "Name"
  <2>1. At(s, p) \in NameChars
    BY <1>4 DEF Begins, NameChars
  <2>2. Beyond(s, p, NameChars) \in (p + 1)..Len(s)
    BY <2>1, BeyondInside
  <2>3. QED
    BY <1>4, <2>2 DEF EndAt
<1>5. CASE kind = "Unknown"
  BY <1>5 DEF EndAt
<1>6. QED
  BY <1>1, <1>2, <1>3, <1>4, <1>5 DEF LexemeKinds

LEMMA CommentEndInside ==
    ASSUME NEW s \in Seq(STRING), NEW p \in 0..(Len(s) - 1), BeginsComment(s, p)
    PROVE  CommentEnd(s, p) \in (p + 1)..Len(s)
<1>1. IsText(LineComment) /\ IsText(CommentOpens) /\ IsText(CommentCloses)
  BY DEF IsText, LineComment, CommentOpens, CommentCloses, Nul
<1>2. p + 2 <= Len(s)
  BY <1>1, SpelledInside, SMTT(20) DEF BeginsComment, LineComment, CommentOpens
<1>3. Until(s, p + 2, Breaks) \in (p + 2)..Len(s)
  BY <1>2, UntilInside
<1>4. Past(s, p + 2, CommentCloses) \in (p + 2)..Len(s)
  BY <1>1, <1>2, PastInside
<1>5. QED
  BY <1>3, <1>4 DEF CommentEnd

(* A lexeme from p to end is one, and starts with no more '>' than it has  *)
(* characters.                                                             *)
LEMMA LexemeFits ==
    ASSUME NEW s \in Seq(STRING), NEW p \in 0..Len(s), NEW end \in p..Len(s),
           NEW kind \in Kinds
    PROVE  /\ LexemeAt(kind, s, p, end) \in Lexeme
           /\ LexemeAt(kind, s, p, end).gts <= LexemeAt(kind, s, p, end).length
<1> DEFINE run == Beyond(s, p, {">"})
<1>1. run \in p..Len(s)
  BY BeyondInside
<1> HIDE DEF run
<1>2. {end, run} \in SUBSET Nat /\ {end, run} # {}
  BY <1>1
<1>3. Min({end, run}) \in {end, run} /\ Min({end, run}) <= end
  BY <1>2, MinIsMinimum
<1>4. Min({end, run}) - p \in 0..(end - p)
  BY <1>1, <1>3
<1>5. Gts(kind, s, p, end) \in 0..(end - p)
  BY <1>4 DEF Gts, run
<1>6. QED
  BY <1>5 DEF LexemeAt, Lexeme
-----------------------------------------------------------------------------
Eof(o) == [kind |-> "EndOfFile", offset |-> o, length |-> 0, gts |-> 0]

(* Tokens in order and apart, before position o.                           *)
TokensBefore(ls, o) ==
    /\ ls \in Seq(Lexeme)
    /\ \A i \in 1..Len(ls) :
          /\ ls[i].kind # "EndOfFile"
          /\ ls[i].length # 0
          /\ ls[i].gts <= ls[i].length
          /\ EndOf(ls[i]) <= o
    /\ \A i, j \in 1..Len(ls) : i < j => EndOf(ls[i]) <= ls[j].offset

(* What is inductive: before the end every token lies in front of the      *)
(* offset, and once the end of file is yielded the offset is at the end.   *)
LexInv ==
    /\ TypeOK
    /\ ~Finished => TokensBefore(lexemes, offset)
    /\ Finished => offset = Len(source) /\ WellLexed(lexemes)

LEMMA EndsAreNumbers ==
    ASSUME NEW ls \in Seq(Lexeme), NEW i \in 1..Len(ls)
    PROVE  ls[i] \in Lexeme /\ EndOf(ls[i]) \in Nat
<1>1. ls[i] \in Lexeme
  OBVIOUS
<1>2. ls[i].offset \in Nat /\ ls[i].length \in Nat
  BY <1>1 DEF Lexeme
<1>3. QED
  BY <1>1, <1>2 DEF EndOf

LEMMA TokensThenEof ==
    ASSUME NEW o \in Nat, NEW ls, TokensBefore(ls, o)
    PROVE  WellLexed(Append(ls, Eof(o)))
<1> DEFINE all == Append(ls, Eof(o))
           n == Len(ls)
<1>1. ls \in Seq(Lexeme) /\ n \in Nat
  BY DEF TokensBefore
<1>2. Eof(o) \in Lexeme
  BY DEF Eof, Lexeme, Kinds
<1>3. /\ all \in Seq(Lexeme)
      /\ Len(all) = n + 1
      /\ \A i \in 1..n : all[i] = ls[i]
      /\ all[n + 1] = Eof(o)
  BY <1>1, <1>2
<1> HIDE DEF all, n
<1>4. \A i \in 1..n : /\ all[i] \in Lexeme
                      /\ all[i].kind # "EndOfFile" /\ all[i].length # 0
                      /\ all[i].gts <= all[i].length
                      /\ all[i].offset + all[i].length <= o
  BY <1>1, <1>3 DEF TokensBefore, EndOf, n
<1>5. all[n + 1].kind = "EndOfFile" /\ all[n + 1].length = 0 /\ all[n + 1].gts = 0
      /\ all[n + 1].offset = o
  BY <1>3 DEF Eof
<1>6. ASSUME NEW i \in 1..(n + 1), NEW j \in 1..(n + 1), i < j
      PROVE  all[i].offset + all[i].length <= all[j].offset
  <2>1. CASE j = n + 1
    BY <1>1, <1>4, <1>5, <1>6, <2>1
  <2>2. CASE j \in 1..n
    <3>1. i \in 1..n
      BY <1>1, <1>6, <2>2
    <3>2. EndOf(ls[i]) <= ls[j].offset
      BY <1>6, <2>2, <3>1 DEF TokensBefore, n
    <3>3. QED
      BY <1>3, <2>2, <3>1, <3>2 DEF EndOf
  <2>3. QED
    BY <1>1, <2>1, <2>2
<1>7. ASSUME NEW i \in 1..(n + 1)
      PROVE  /\ all[i].kind = "EndOfFile" <=> i = n + 1
             /\ all[i].length = 0 <=> i = n + 1
             /\ all[i].gts <= all[i].length
  <2>1. CASE i = n + 1
    BY <1>5, <2>1
  <2>2. CASE i \in 1..n
    BY <1>1, <1>4, <2>2
  <2>3. QED
    BY <1>1, <2>1, <2>2
<1>8. QED
  BY <1>1, <1>3, <1>6, <1>7 DEF WellLexed, all

LEMMA TokensThenToken ==
    ASSUME NEW o \in Nat, NEW end \in Nat, NEW ls, TokensBefore(ls, o), NEW t \in Lexeme,
           t.kind # "EndOfFile", t.offset = o, t.length # 0, t.gts <= t.length,
           EndOf(t) <= end, o <= end
    PROVE  TokensBefore(Append(ls, t), end)
<1> DEFINE all == Append(ls, t)
           n == Len(ls)
<1>1. ls \in Seq(Lexeme) /\ n \in Nat
  BY DEF TokensBefore
<1>2. /\ all \in Seq(Lexeme)
      /\ Len(all) = n + 1
      /\ \A i \in 1..n : all[i] = ls[i] /\ all[i] \in Lexeme
      /\ all[n + 1] = t
  BY <1>1
<1>3. \A i \in 1..n : EndOf(all[i]) \in Nat /\ EndOf(all[i]) <= o
  BY <1>1, <1>2, EndsAreNumbers DEF TokensBefore
<1> HIDE DEF all, n
<1>4. ASSUME NEW i \in 1..(n + 1)
      PROVE  /\ all[i].kind # "EndOfFile" /\ all[i].length # 0
             /\ all[i].gts <= all[i].length
             /\ EndOf(all[i]) <= end
  <2>1. CASE i = n + 1
    BY <1>2, <2>1
  <2>2. CASE i \in 1..n
    <3>1. /\ ls[i].kind # "EndOfFile" /\ ls[i].length # 0
          /\ ls[i].gts <= ls[i].length
      BY <2>2 DEF TokensBefore, n
    <3>2. QED
      BY <1>2, <1>3, <2>2, <3>1
  <2>3. QED
    BY <1>1, <2>1, <2>2
<1>5. ASSUME NEW i \in 1..(n + 1), NEW j \in 1..(n + 1), i < j
      PROVE  EndOf(all[i]) <= all[j].offset
  <2>1. i \in 1..n
    BY <1>1, <1>5
  <2>2. CASE j = n + 1
    BY <1>2, <1>3, <2>1, <2>2
  <2>3. CASE j \in 1..n
    BY <1>2, <1>5, <2>1, <2>3 DEF TokensBefore, n
  <2>4. QED
    BY <1>1, <2>2, <2>3
<1>6. QED
  BY <1>2, <1>4, <1>5 DEF TokensBefore, all
-----------------------------------------------------------------------------
LEMMA InitLexInv == Init => LexInv
BY SourcesAssumption DEF Init, LexInv, TypeOK, Finished, TokensBefore

(* Skipping moves on inside the source.                                    *)
LEMMA SkipKeeps ==
    ASSUME LexInv, NEW end \in (offset + 1)..Len(source), Skip(end), offset < Len(source)
    PROVE  LexInv'
<1>1. ~Finished /\ TokensBefore(lexemes, offset)
  BY DEF LexInv
<1>2. ~Finished' /\ offset' = end /\ lexemes' = lexemes /\ source' = source
  BY <1>1 DEF Skip, Finished
<1>3. TypeOK'
  BY <1>2 DEF LexInv, TypeOK
<1>4. TokensBefore(lexemes, end)
  <2>1. offset \in Nat /\ end \in Nat /\ offset <= end /\ lexemes \in Seq(Lexeme)
    BY DEF LexInv, TypeOK
  <2>2. \A i \in 1..Len(lexemes) : EndOf(lexemes[i]) \in Nat
    BY <2>1, EndsAreNumbers
  <2>3. \A i \in 1..Len(lexemes) : EndOf(lexemes[i]) <= end
    BY <1>1, <2>1, <2>2 DEF TokensBefore
  <2>4. QED
    BY <1>1, <2>3 DEF TokensBefore
<1>5. QED
  BY <1>2, <1>3, <1>4 DEF LexInv

LEMMA YieldKeeps ==
    ASSUME LexInv, NEW kind \in LexemeKinds, Yield(kind)
    PROVE  LexInv'
<1> DEFINE end == EndAt(kind, source, offset)
           t == LexemeAt(kind, source, offset, end)
<1>1. /\ source \in Seq(STRING) /\ offset \in 0..(Len(source) - 1)
      /\ lexemes \in Seq(Lexeme) /\ TokensBefore(lexemes, offset)
  BY DEF LexInv, TypeOK, Yield
<1>2. end \in (offset + 1)..Len(source)
  BY <1>1, EndInside DEF Yield
<1>3. source' = source /\ offset' = end /\ lexemes' = Append(lexemes, t)
  BY DEF Yield
<1>4. kind \in Kinds /\ kind # "EndOfFile"
  BY DEF LexemeKinds, Kinds
<1> HIDE DEF end
<1>5. t \in Lexeme /\ t.gts <= t.length
  BY <1>1, <1>2, <1>4, LexemeFits
<1>6. t.kind = kind /\ t.offset = offset /\ t.length # 0 /\ EndOf(t) = end
  BY <1>1, <1>2 DEF LexemeAt, EndOf
<1> HIDE DEF t
<1>7. TokensBefore(lexemes', offset')
  BY <1>1, <1>2, <1>3, <1>4, <1>5, <1>6, TokensThenToken
<1>8. ~Finished'
  <2>1. lexemes'[Len(lexemes')] = t
    BY <1>1, <1>3, <1>5
  <2>2. QED
    BY <1>4, <1>6, <2>1 DEF Finished, IsEof
<1>9. TypeOK'
  BY <1>1, <1>2, <1>3, <1>5 DEF TypeOK
<1>10. QED
  BY <1>7, <1>8, <1>9 DEF LexInv

LEMMA LexEndKeeps ==
    ASSUME LexInv, LexEnd
    PROVE  LexInv'
<1>1. /\ source \in Seq(STRING) /\ offset = Len(source) /\ offset \in Nat
      /\ lexemes \in Seq(Lexeme) /\ TokensBefore(lexemes, offset)
  BY DEF LexInv, TypeOK, LexEnd
<1>2. EndOfFile(source) = Eof(offset)
  BY <1>1 DEF EndOfFile, LexemeAt, Gts, Eof
<1>3. lexemes' = Append(lexemes, Eof(offset)) /\ source' = source /\ offset' = offset
  BY <1>2 DEF LexEnd
<1>4. WellLexed(lexemes')
  BY <1>1, <1>3, TokensThenEof
<1>5. Eof(offset) \in Lexeme
  BY <1>1 DEF Eof, Lexeme, Kinds
<1>6. Finished'
  BY <1>1, <1>3, <1>5 DEF Finished, IsEof, Eof
<1>7. TypeOK'
  BY <1>1, <1>3, <1>5 DEF TypeOK
<1>8. QED
  BY <1>1, <1>3, <1>4, <1>6, <1>7 DEF LexInv

LEMMA NextKeeps == LexInv /\ [Next]_vars => LexInv'
<1> SUFFICES ASSUME LexInv, [Next]_vars PROVE LexInv'
  OBVIOUS
<1>1. source \in Seq(STRING) /\ offset \in 0..Len(source)
  BY DEF LexInv, TypeOK
<1>2. CASE SkipByteOrderMark
  <2>1. IsText(ByteOrderMark) /\ Len(ByteOrderMark) = 3
    BY DEF IsText, ByteOrderMark, Nul
  <2>2. Spells(source, offset, ByteOrderMark) /\ offset < Len(source)
        /\ Skip(offset + Len(ByteOrderMark))
    BY <1>2 DEF SkipByteOrderMark
  <2>3. offset \in Nat
    BY <1>1
  <2>4. offset + Len(ByteOrderMark) <= Len(source)
    BY <1>1, <2>1, <2>2, <2>3, SpelledInside
  <2>5. offset + Len(ByteOrderMark) \in (offset + 1)..Len(source)
    BY <1>1, <2>1, <2>4
  <2>6. QED
    BY <2>2, <2>5, SkipKeeps
<1>3. CASE SkipBlank
  <2>1. offset + 1 \in (offset + 1)..Len(source)
    BY <1>1, <1>3 DEF SkipBlank
  <2>2. QED
    BY <1>3, <2>1, SkipKeeps DEF SkipBlank
<1>4. CASE SkipComment
  <2>1. CommentEnd(source, offset) \in (offset + 1)..Len(source)
    BY <1>1, <1>4, CommentEndInside DEF SkipComment
  <2>2. QED
    BY <1>4, <2>1, SkipKeeps DEF SkipComment
<1>5. CASE \E kind \in LexemeKinds : Yield(kind)
  BY <1>5, YieldKeeps
<1>6. CASE LexEnd
  BY <1>6, LexEndKeeps
<1>7. CASE UNCHANGED vars
  BY <1>7 DEF vars, LexInv, TypeOK, Finished
<1>8. QED
  BY <1>2, <1>3, <1>4, <1>5, <1>6, <1>7
     DEF Next, LexNumber, LexString, LexPunctuator, LexName, LexUnknown, LexemeKinds

(* LexInv is an invariant of the lexer, for every set of sources.          *)
THEOREM LexInvariance == Spec => []LexInv
<1>1. Init => LexInv
  BY InitLexInv
<1>2. LexInv /\ [Next]_vars => LexInv'
  BY NextKeeps
<1>3. QED
  BY <1>1, <1>2, PTL DEF Spec

(* The offset never leaves the source, and what is yielded are lexemes.    *)
THEOREM LexerTypeCorrect == Spec => []TypeOK
<1>1. LexInv => TypeOK
  BY DEF LexInv
<1>2. QED
  BY <1>1, LexInvariance, PTL

(* The lexer keeps what ParserContext's SourcesAssumption asks of it:      *)
(* stopped anywhere, and in particular at the end, what it has yielded,    *)
(* with an end of file, is well lexed.                                     *)
THEOREM WellLexedAlways == Spec => []YieldsWellLexed
<1>1. LexInv => YieldsWellLexed
  <2>1. SUFFICES ASSUME LexInv PROVE YieldsWellLexed
    OBVIOUS
  <2>2. CASE Finished
    BY <2>1, <2>2 DEF LexInv, YieldsWellLexed
  <2>3. CASE ~Finished
    <3>1. offset \in Nat /\ TokensBefore(lexemes, offset)
      BY <2>1, <2>3 DEF LexInv, TypeOK
    <3>2. WellLexed(Append(lexemes, Eof(offset)))
      BY <3>1, TokensThenEof
    <3>3. QED
      BY <2>3, <3>2 DEF YieldsWellLexed, Eof
  <2>4. QED
    BY <2>2, <2>3
<1>2. QED
  BY <1>1, LexInvariance, PTL
-----------------------------------------------------------------------------
LEMMA NothingIsSilent ==
    ASSUME NEW s, NEW i \in Nat
    PROVE  AllSilent(s, i, i)
<1> DEFINE cuts == {i}
<1>1. cuts \in SUBSET (i..i) /\ {i, i} \subseteq cuts /\ cuts \ {i} = {}
  OBVIOUS
<1>2. QED
  BY <1>1 DEF AllSilent

(* One more piece.                                                         *)
LEMMA SilentGrows ==
    ASSUME NEW s, NEW i \in Nat, NEW j \in Nat, NEW k \in Nat, i <= j, j < k,
           AllSilent(s, i, j), Silent(s, j, k)
    PROVE  AllSilent(s, i, k)
<1>1. PICK cuts \in SUBSET (i..j) :
         /\ {i, j} \subseteq cuts
         /\ \A h \in cuts \ {j} : Silent(s, h, Min({l \in cuts : l > h}))
  BY DEF AllSilent
<1> DEFINE more == cuts \cup {k}
<1>2. more \in SUBSET (i..k) /\ {i, k} \subseteq more
  BY <1>1
<1>3. ASSUME NEW h \in more \ {k} PROVE Silent(s, h, Min({l \in more : l > h}))
  <2> DEFINE next == {l \in more : l > h}
             before == {l \in cuts : l > h}
  <2>1. h \in cuts /\ h \in i..j /\ k \in next /\ next \in SUBSET Nat
    <3>1. h \in cuts
      BY <1>3
    <3>2. h \in i..j
      BY <1>1, <3>1
    <3>3. h \in Nat /\ h <= j
      BY <3>2
    <3>4. k > h /\ more \in SUBSET Nat
      BY <1>1, <3>3
    <3>5. QED
      BY <3>1, <3>2, <3>4
  <2>2. Min(next) \in next /\ \A y \in next : Min(next) <= y
    BY <2>1, MinIsMinimum
  <2>3. CASE h = j
    <3>1. next = {k}
      <4>1. \A l \in cuts : ~(l > h)
        BY <1>1, <2>3
      <4>2. QED
        BY <2>1, <4>1
    <3>2. Min(next) = k
      BY <2>2, <3>1
    <3>3. QED
      BY <2>3, <3>2
  <2>4. CASE h # j
    <3>1. j \in before /\ before \in SUBSET Nat /\ before \subseteq next
          /\ next = before \cup {k}
      BY <1>1, <2>1, <2>4
    <3>2. Min(before) \in before /\ \A y \in before : Min(before) <= y
      BY <3>1, MinIsMinimum
    <3> HIDE DEF next, before
    <3>3. Min(next) <= Min(before) /\ Min(before) <= j
      BY <2>2, <3>1, <3>2
    <3>4. Min(next) \in before
      <4>1. Min(next) \in Nat /\ Min(before) \in Nat
        BY <2>1, <2>2, <3>1, <3>2
      <4>2. Min(next) # k
        BY <3>3, <4>1
      <4>3. QED
        BY <2>2, <3>1, <4>2
    <3>5. Min(next) = Min(before)
      <4>1. Min(before) <= Min(next) /\ Min(next) <= Min(before)
        BY <3>2, <3>3, <3>4
      <4>2. Min(next) \in Nat /\ Min(before) \in Nat
        BY <3>1, <3>2, <3>4
      <4>3. \A x \in Nat, y \in Nat : x <= y /\ y <= x => x = y
        OBVIOUS
      <4>4. QED
        BY <4>1, <4>2, <4>3
    <3>6. Silent(s, h, Min(before))
      BY <1>1, <2>1, <2>4 DEF before
    <3>7. QED
      BY <3>5, <3>6 DEF next
  <2>5. QED
    BY <2>3, <2>4
<1>4. QED
  BY <1>2, <1>3, Zenon DEF AllSilent

LEMMA CommentIsSilent ==
    ASSUME NEW s \in Seq(STRING), NEW p \in 0..(Len(s) - 1), BeginsComment(s, p)
    PROVE  Silent(s, p, CommentEnd(s, p))
<1>1. /\ Len(LineComment) = 2 /\ LineComment[1] = "/" /\ LineComment[2] = "/"
      /\ IsText(LineComment)
  BY DEF LineComment, IsText, Nul
<1>2. /\ Len(CommentOpens) = 2 /\ CommentOpens[1] = "/" /\ CommentOpens[2] = "*"
      /\ IsText(CommentOpens)
  BY DEF CommentOpens, IsText, Nul
<1>3. Len(CommentCloses) = 2 /\ IsText(CommentCloses)
  BY DEF CommentCloses, IsText, Nul
<1>4. p + 2 <= Len(s) /\ p \in Nat /\ Len(s) \in Nat
  <2>1. PICK open \in {LineComment, CommentOpens} : Spells(s, p, open)
    BY DEF BeginsComment
  <2>2. IsText(open) /\ Len(open) = 2
    BY <1>1, <1>2
  <2>3. p \in Nat /\ Len(s) \in Nat
    OBVIOUS
  <2>4. p + Len(open) <= Len(s)
    BY <2>1, <2>2, <2>3, SpelledInside, Zenon
  <2>5. QED
    BY <2>2, <2>3, <2>4
<1>5. CASE Spells(s, p, LineComment)
  <2> DEFINE S == {q \in (p + 2)..Len(s) : q = Len(s) \/ At(s, q) \in Breaks}
             j == Min(S)
  <2>1. S \in SUBSET Nat /\ Len(s) \in S
    BY <1>4
  <2>2. j \in S /\ \A q \in S : j <= q
    BY <2>1, MinIsMinimum
  <2>3. CommentEnd(s, p) = j
    BY <1>5, Zenon DEF CommentEnd, Until
  <2> HIDE DEF j
  <2>4. At(s, p) = "/" /\ At(s, p + 1) = "/"
    <3>1. \A i \in 1..2 : At(s, p + i - 1) = LineComment[i]
      BY <1>1, <1>5 DEF Spells
    <3>2. 1 \in 1..2 /\ 2 \in 1..2 /\ p + 1 - 1 = p /\ p + 2 - 1 = p + 1
      BY <1>4
    <3>3. QED
      BY <1>1, <3>1, <3>2
  <2>5. ASSUME NEW k \in p..(j - 1) PROVE At(s, k) \notin Breaks
    <3>1. "/" \notin Breaks
      BY DEF Breaks
    <3>2. CASE k \in p..(p + 1)
      <4>1. k = p \/ k = p + 1
        BY <1>4, <3>2
      <4>2. QED
        BY <2>4, <3>1, <4>1
    <3>3. CASE k \in (p + 2)..(j - 1)
      <4>1. k \in (p + 2)..Len(s) /\ k < j
        BY <1>4, <2>2, <3>3
      <4>2. k \notin S
        BY <1>4, <2>2, <4>1
      <4>3. QED
        BY <4>1, <4>2
    <3>4. QED
      BY <1>4, <2>2, <3>2, <3>3
  <2>6. p + 2 <= j /\ (j = Len(s) \/ At(s, j) \in Breaks)
    BY <1>4, <2>2
  <2>7. QED
    BY <1>5, <2>3, <2>5, <2>6, Zenon DEF Silent
<1>6. CASE ~Spells(s, p, LineComment)
  <2> DEFINE ends == {q \in (p + 2)..Len(s) : Spells(s, q, CommentCloses)}
             j == CommentEnd(s, p)
  <2>1. Spells(s, p, CommentOpens)
    BY <1>6 DEF BeginsComment
  <2>2. j = Past(s, p + 2, CommentCloses)
    BY <1>6 DEF CommentEnd
  <2>3. CASE ends = {}
    <3>1. j = Len(s)
      BY <2>2, <2>3 DEF Past
    <3>2. ASSUME NEW k \in (p + 2)..(j - 3) PROVE ~Spells(s, k, CommentCloses)
      <4>1. k \in (p + 2)..Len(s)
        BY <1>4, <3>1
      <4>2. QED
        BY <2>3, <4>1
    <3> HIDE DEF j
    <3>3. QED
      BY <1>4, <2>1, <3>1, <3>2, Zenon DEF Silent, j
  <2>4. CASE ends # {}
    <3>1. ends \in SUBSET Nat
      BY <1>4
    <3>2. Min(ends) \in ends /\ \A q \in ends : Min(ends) <= q
      BY <2>4, <3>1, MinIsMinimum
    <3>3. j = Min(ends) + 2
      BY <1>3, <2>2, <2>4 DEF Past
    <3>4. Min(ends) \in (p + 2)..Len(s) /\ Spells(s, Min(ends), CommentCloses)
      BY <3>2
    <3> HIDE DEF j
    <3>5. p + 2 <= j /\ j - 2 = Min(ends) /\ j - 2 + 2 <= j /\ j >= p + 4
      BY <1>4, <3>3, <3>4
    <3>6. ASSUME NEW k \in (p + 2)..(j - 3) PROVE ~Spells(s, k, CommentCloses)
      <4>1. k \in (p + 2)..Len(s) /\ k < Min(ends)
        BY <1>4, <3>3, <3>4
      <4>2. k \notin ends
        BY <1>4, <3>2, <3>4, <4>1
      <4>3. QED
        BY <4>1, <4>2
    <3>7. Spells(s, j - 2, CommentCloses)
      BY <3>4, <3>5
    <3> HIDE DEF ends
    <3>8. QED
      BY <2>1, <3>5, <3>6, <3>7, Zenon DEF Silent, j
  <2>5. QED
    BY <2>3, <2>4
<1>7. QED
  BY <1>5, <1>6

(* Where the last token ends.                                              *)
LastEnd(ls) == IF ls = << >> THEN 0 ELSE EndOf(ls[Len(ls)])

(* The gaps between tokens, and from the last one to position o.           *)
GapsTo(s, ls, o) ==
    /\ \A i \in 1..Len(ls) :
          AllSilent(s, IF i = 1 THEN 0 ELSE EndOf(ls[i - 1]), ls[i].offset)
    /\ AllSilent(s, LastEnd(ls), o)

GapInv == LexInv /\ GapsTo(source, lexemes, offset)

LEMMA LastEndBefore ==
    ASSUME LexInv, ~Finished
    PROVE  LastEnd(lexemes) \in Nat /\ LastEnd(lexemes) <= offset
<1>1. lexemes \in Seq(Lexeme) /\ offset \in Nat /\ TokensBefore(lexemes, offset)
  BY DEF LexInv, TypeOK
<1>2. CASE lexemes = << >>
  BY <1>1, <1>2 DEF LastEnd
<1>3. CASE lexemes # << >>
  <2>1. Len(lexemes) \in 1..Len(lexemes)
    BY <1>1, <1>3
  <2>2. EndOf(lexemes[Len(lexemes)]) \in Nat /\ EndOf(lexemes[Len(lexemes)]) <= offset
    BY <1>1, <2>1, EndsAreNumbers DEF TokensBefore
  <2>3. QED
    BY <1>3, <2>2 DEF LastEnd
<1>4. QED
  BY <1>2, <1>3

LEMMA SkipSilent ==
    ASSUME GapInv, ~Finished, NEW end \in (offset + 1)..Len(source), Skip(end),
           Silent(source, offset, end)
    PROVE  GapsTo(source, lexemes, offset)'
<1>1. source' = source /\ lexemes' = lexemes /\ offset' = end
  BY DEF Skip
<1>2. offset \in Nat /\ end \in Nat /\ offset < end
  BY DEF GapInv, LexInv, TypeOK
<1>3. LastEnd(lexemes) \in Nat /\ LastEnd(lexemes) <= offset
  BY LastEndBefore DEF GapInv
<1>4. AllSilent(source, LastEnd(lexemes), offset)
  BY DEF GapInv, GapsTo
<1>5. AllSilent(source, LastEnd(lexemes), end)
  BY <1>2, <1>3, <1>4, SilentGrows
<1>6. QED
  BY <1>1, <1>5 DEF GapInv, GapsTo

(* A token ends one gap and begins the next.                               *)
LEMMA TokenEndsGap ==
    ASSUME NEW s, NEW ls \in Seq(Lexeme), NEW o, GapsTo(s, ls, o), NEW t \in Lexeme,
           t.offset = o
    PROVE  GapsTo(s, Append(ls, t), EndOf(t))
<1> DEFINE all == Append(ls, t)
           n == Len(ls)
<1>1. /\ n \in Nat /\ Len(all) = n + 1 /\ all[n + 1] = t /\ all # << >>
      /\ \A i \in 1..n : all[i] = ls[i]
  OBVIOUS
<1>2. t.offset \in Nat /\ t.length \in Nat
  BY DEF Lexeme
<1>3. EndOf(t) \in Nat
  BY <1>2 DEF EndOf
<1> HIDE DEF all
<1>4. LastEnd(all) = EndOf(t)
  BY <1>1 DEF LastEnd
<1>5. AllSilent(s, LastEnd(all), EndOf(t))
  BY <1>3, <1>4, NothingIsSilent
<1>6. ASSUME NEW i \in 1..(n + 1)
      PROVE  AllSilent(s, IF i = 1 THEN 0 ELSE EndOf(all[i - 1]), all[i].offset)
  <2>1. CASE i \in 1..n
    <3>1. all[i] = ls[i] /\ (i # 1 => all[i - 1] = ls[i - 1])
      BY <1>1, <2>1
    <3>2. AllSilent(s, IF i = 1 THEN 0 ELSE EndOf(ls[i - 1]), ls[i].offset)
      BY <2>1 DEF GapsTo, n
    <3>3. QED
      BY <3>1, <3>2
  <2>2. CASE i = n + 1
    <3>1. LastEnd(ls) = IF i = 1 THEN 0 ELSE EndOf(all[i - 1])
      <4>1. ls = << >> <=> n = 0
        OBVIOUS
      <4>2. n # 0 => n \in 1..n /\ i # 1 /\ i - 1 = n
        BY <1>1, <2>2
      <4>3. n = 0 => i = 1
        BY <2>2
      <4> HIDE DEF n
      <4>4. QED
        BY <1>1, <4>1, <4>2, <4>3 DEF LastEnd, n
    <3>2. AllSilent(s, LastEnd(ls), o)
      BY DEF GapsTo
    <3>3. QED
      BY <1>1, <2>2, <3>1, <3>2
  <2>3. QED
    BY <1>1, <2>1, <2>2
<1>7. QED
  BY <1>1, <1>5, <1>6 DEF GapsTo, all

LEMMA GapsKept == GapInv /\ [Next]_vars => GapInv'
<1> SUFFICES ASSUME GapInv, [Next]_vars PROVE GapsTo(source, lexemes, offset)'
  BY NextKeeps, Zenon DEF GapInv
<1>1. /\ source \in Seq(STRING) /\ offset \in 0..Len(source) /\ lexemes \in Seq(Lexeme)
      /\ Finished => offset = Len(source)
  BY DEF GapInv, LexInv, TypeOK
<1>2. CASE SkipByteOrderMark
  <2>1. IsText(ByteOrderMark) /\ Len(ByteOrderMark) = 3
    BY DEF IsText, ByteOrderMark, Nul
  <2>2. Spells(source, offset, ByteOrderMark) /\ offset < Len(source)
        /\ Skip(offset + Len(ByteOrderMark))
    BY <1>2 DEF SkipByteOrderMark
  <2>3. offset \in Nat
    BY <1>1
  <2>4. offset + Len(ByteOrderMark) <= Len(source)
    BY <1>1, <2>1, <2>2, <2>3, SpelledInside
  <2>5. /\ offset + Len(ByteOrderMark) \in (offset + 1)..Len(source)
        /\ offset + Len(ByteOrderMark) = offset + 3
    BY <1>1, <2>1, <2>4
  <2>6. Silent(source, offset, offset + Len(ByteOrderMark))
    BY <2>2, <2>5, Zenon DEF Silent
  <2>7. ~Finished
    BY <1>1, <2>2
  <2>8. QED
    BY <2>2, <2>5, <2>6, <2>7, SkipSilent
<1>3. CASE SkipBlank
  <2>1. offset < Len(source) /\ At(source, offset) \in Blanks /\ Skip(offset + 1)
    BY <1>3 DEF SkipBlank
  <2>2. offset + 1 \in (offset + 1)..Len(source)
    BY <1>1, <2>1
  <2>3. Silent(source, offset, offset + 1)
    BY <2>1, Zenon DEF Silent
  <2>4. ~Finished
    BY <1>1, <2>1
  <2>5. QED
    BY <2>1, <2>2, <2>3, <2>4, SkipSilent
<1>4. CASE SkipComment
  <2>1. /\ offset < Len(source) /\ BeginsComment(source, offset)
        /\ Skip(CommentEnd(source, offset))
    BY <1>4 DEF SkipComment
  <2>2. offset \in 0..(Len(source) - 1)
    BY <1>1, <2>1
  <2>3. /\ CommentEnd(source, offset) \in (offset + 1)..Len(source)
        /\ Silent(source, offset, CommentEnd(source, offset))
    BY <1>1, <2>1, <2>2, CommentEndInside, CommentIsSilent
  <2>4. ~Finished
    BY <1>1, <2>1
  <2>5. QED
    BY <2>1, <2>3, <2>4, SkipSilent
<1>5. ASSUME NEW kind \in LexemeKinds, Yield(kind)
      PROVE  GapsTo(source, lexemes, offset)'
  <2> DEFINE end == EndAt(kind, source, offset)
             t == LexemeAt(kind, source, offset, end)
  <2>1. /\ source' = source /\ offset' = end /\ lexemes' = Append(lexemes, t)
        /\ Begins(kind, source, offset) /\ offset \in 0..(Len(source) - 1)
    BY <1>1, <1>5 DEF Yield
  <2>2. end \in (offset + 1)..Len(source)
    BY <1>1, <2>1, EndInside
  <2>3. kind \in Kinds
    BY DEF LexemeKinds, Kinds
  <2> HIDE DEF end
  <2>4. t \in Lexeme
    BY <1>1, <2>1, <2>2, <2>3, LexemeFits
  <2>5. t.offset = offset /\ EndOf(t) = end
    BY <1>1, <2>2 DEF LexemeAt, EndOf
  <2>6. GapsTo(source, lexemes, offset)
    BY DEF GapInv
  <2> HIDE DEF t
  <2>7. GapsTo(source, Append(lexemes, t), EndOf(t))
    BY <1>1, <2>4, <2>5, <2>6, TokenEndsGap
  <2>8. QED
    BY <2>1, <2>5, <2>7
<1>6. CASE LexEnd
  <2> DEFINE t == EndOfFile(source)
  <2>1. /\ source' = source /\ offset' = offset /\ lexemes' = Append(lexemes, t)
        /\ offset = Len(source)
    BY <1>6 DEF LexEnd
  <2>2. t \in Lexeme /\ t.offset = offset /\ EndOf(t) = offset
    <3>1. EndOfFile(source) = Eof(offset)
      BY <1>1, <2>1 DEF EndOfFile, LexemeAt, Gts, Eof
    <3>2. Eof(offset) \in Lexeme /\ Eof(offset).offset = offset /\ EndOf(Eof(offset)) = offset
      BY <1>1 DEF Eof, Lexeme, Kinds, EndOf
    <3>3. QED
      BY <3>1, <3>2
  <2>3. GapsTo(source, lexemes, offset)
    BY DEF GapInv
  <2> HIDE DEF t
  <2>4. GapsTo(source, Append(lexemes, t), EndOf(t))
    BY <1>1, <2>2, <2>3, TokenEndsGap
  <2>5. QED
    BY <2>1, <2>2, <2>4
<1>7. CASE UNCHANGED vars
  BY <1>7 DEF vars, GapInv
<1>8. QED
  BY <1>2, <1>3, <1>4, <1>5, <1>6, <1>7
     DEF Next, LexNumber, LexString, LexPunctuator, LexName, LexUnknown, LexemeKinds

(* No text is dropped: whatever Lex skips between two tokens, and in front *)
(* of the first, can be cut into white space, byte-order marks and whole   *)
(* comments.                                                               *)
THEOREM GapsAlwaysSilent == Spec => []GapsAreSilent
<1>1. Init => GapInv
  <2> SUFFICES ASSUME Init PROVE GapsTo(source, lexemes, offset)
    BY InitLexInv DEF GapInv
  <2>1. lexemes = << >> /\ offset = 0
    BY DEF Init
  <2>2. LastEnd(lexemes) = 0 /\ Len(lexemes) = 0
    BY <2>1 DEF LastEnd
  <2>3. AllSilent(source, 0, 0)
    BY NothingIsSilent
  <2>4. QED
    BY <2>1, <2>2, <2>3 DEF GapsTo
<1>2. GapInv /\ [Next]_vars => GapInv'
  BY GapsKept
<1>3. GapInv => GapsAreSilent
  BY Zenon DEF GapInv, GapsTo, GapsAreSilent, GapBefore
<1>4. QED
  BY <1>1, <1>2, <1>3, PTL DEF Spec
-----------------------------------------------------------------------------
Pairs == {"&", "+", "-", "^", "|"}
Equals == {"%", "/", "="}

(* What the code tries, character by character: the cases of               *)
(* PunctuatorsFrom exclude each other.                                     *)
LEMMA SinglesApart ==
    /\ \A c \in Singles : c \notin Pairs \cup Equals \cup {"!", "*", ".", ":", "<", ">"}
BY DEF Singles, Pairs, Equals

LEMMA PairsTried ==
    \A c \in Pairs : PunctuatorsFrom(c) = <<<<c, "=">>, <<c, c>>, <<c>>>>
<1> SUFFICES ASSUME NEW c \in Pairs
             PROVE  PunctuatorsFrom(c) = <<<<c, "=">>, <<c, c>>, <<c>>>>
  OBVIOUS
<1>1. c \notin Singles
  BY SinglesApart
<1>2. c \in {"&", "+", "-", "^", "|"} /\ c \notin {"!", "%", "/", "=", "*", ".", ":", "<", ">"}
  BY DEF Pairs
<1>3. QED
  BY <1>1, <1>2 DEF PunctuatorsFrom

LEMMA EqualsTried ==
    \A c \in Equals : PunctuatorsFrom(c) = <<<<c, "=">>, <<c>>>>
<1> SUFFICES ASSUME NEW c \in Equals
             PROVE  PunctuatorsFrom(c) = <<<<c, "=">>, <<c>>>>
  OBVIOUS
<1>1. c \notin Singles
  BY SinglesApart
<1>2. c \in {"%", "/", "="} /\ c \notin {"!", "&", "+", "-", "^", "|", "*", ".", ":", "<", ">"}
  BY DEF Equals
<1>3. QED
  BY <1>1, <1>2 DEF PunctuatorsFrom

LEMMA SinglesTried ==
    \A c \in Singles : PunctuatorsFrom(c) = <<<<c>>>>
<1> SUFFICES ASSUME NEW c \in Singles PROVE PunctuatorsFrom(c) = <<<<c>>>>
  OBVIOUS
<1>1. c \notin Pairs \cup Equals \cup {"!", "*", ".", ":", "<", ">"}
  BY SinglesApart
<1>2. QED
  BY <1>1 DEF PunctuatorsFrom, Pairs, Equals

LEMMA OthersTried ==
    /\ PunctuatorsFrom("!") = <<<<"!", "i", "s">>, <<"!", "=">>, <<"!">>>>
    /\ PunctuatorsFrom("*") = <<<<"*", "*", "=">>, <<"*", "*">>, <<"*", "=">>, <<"*">>>>
    /\ PunctuatorsFrom(".") = <<<<".", ".", ".">>, <<".">>>>
    /\ PunctuatorsFrom(":") = <<<<":", ":">>, <<":">>>>
    /\ PunctuatorsFrom("<") = <<<<"<", "<", "=">>, <<"<", "=">>, <<"<", "<">>, <<"<">>>>
    /\ PunctuatorsFrom(">") = GtPunctuators(">")
<1>1. \A c \in {"!", "*", ".", ":", "<", ">"} : c \notin Singles
  BY SinglesApart
<1>2. QED
  BY <1>1 DEF PunctuatorsFrom

(* What is tried, as a set.                                                *)
Tried(c) == {PunctuatorsFrom(c)[i] : i \in 1..Len(PunctuatorsFrom(c))}

LEMMA TriedSets ==
    /\ \A c \in Singles : Tried(c) = {<<c>>}
    /\ \A c \in Pairs : Tried(c) = {<<c, "=">>, <<c, c>>, <<c>>}
    /\ \A c \in Equals : Tried(c) = {<<c, "=">>, <<c>>}
    /\ Tried("!") = {<<"!", "i", "s">>, <<"!", "=">>, <<"!">>}
    /\ Tried("*") = {<<"*", "*", "=">>, <<"*", "*">>, <<"*", "=">>, <<"*">>}
    /\ Tried(".") = {<<".", ".", ".">>, <<".">>}
    /\ Tried(":") = {<<":", ":">>, <<":">>}
    /\ Tried("<") = {<<"<", "<", "=">>, <<"<", "=">>, <<"<", "<">>, <<"<">>}
    /\ Tried(">") = {<<">", ">", ">", "=">>, <<">", ">", "=">>, <<">", ">", ">">>,
                     <<">", "=">>, <<">", ">">>, <<">">>}
<1>1. \A a : Tried(a) = {PunctuatorsFrom(a)[i] : i \in 1..Len(PunctuatorsFrom(a))}
  BY DEF Tried
<1>2. ASSUME NEW a1, NEW c, PunctuatorsFrom(c) = <<a1>> PROVE Tried(c) = {a1}
  BY <1>2 DEF Tried
<1>3. ASSUME NEW a1, NEW a2, NEW c, PunctuatorsFrom(c) = <<a1, a2>> PROVE Tried(c) = {a1, a2}
  BY <1>3 DEF Tried
<1>4. ASSUME NEW a1, NEW a2, NEW a3, NEW c, PunctuatorsFrom(c) = <<a1, a2, a3>>
      PROVE Tried(c) = {a1, a2, a3}
  BY <1>4 DEF Tried
<1>5. ASSUME NEW a1, NEW a2, NEW a3, NEW a4, NEW c, PunctuatorsFrom(c) = <<a1, a2, a3, a4>>
      PROVE Tried(c) = {a1, a2, a3, a4}
  BY <1>5 DEF Tried
<1>6. ASSUME NEW a1, NEW a2, NEW a3, NEW a4, NEW a5, NEW a6, NEW c,
             PunctuatorsFrom(c) = <<a1, a2, a3, a4, a5, a6>>
      PROVE Tried(c) = {a1, a2, a3, a4, a5, a6}
  BY <1>6 DEF Tried
<1>7. \A c \in Singles : Tried(c) = {<<c>>}
  BY <1>2, SinglesTried
<1>8. \A c \in Pairs : Tried(c) = {<<c, "=">>, <<c, c>>, <<c>>}
  BY <1>4, PairsTried
<1>9. \A c \in Equals : Tried(c) = {<<c, "=">>, <<c>>}
  BY <1>3, EqualsTried
<1>10. /\ Tried("!") = {<<"!", "i", "s">>, <<"!", "=">>, <<"!">>}
       /\ Tried("*") = {<<"*", "*", "=">>, <<"*", "*">>, <<"*", "=">>, <<"*">>}
       /\ Tried(".") = {<<".", ".", ".">>, <<".">>}
       /\ Tried(":") = {<<":", ":">>, <<":">>}
       /\ Tried("<") = {<<"<", "<", "=">>, <<"<", "=">>, <<"<", "<">>, <<"<">>}
  BY <1>3, <1>4, <1>5, OthersTried
<1>11. Tried(">") = {<<">", ">", ">", "=">>, <<">", ">", "=">>, <<">", ">", ">">>,
                     <<">", "=">>, <<">", ">">>, <<">">>}
  BY <1>6, OthersTried, SMTT(20) DEF GtPunctuators
<1>12. QED
  BY <1>7, <1>8, <1>9, <1>10, <1>11
(* Every operator is tried where its first character stands,               *)
LEMMA OperatorsAreTried ==
    \A op \in Operators : op \in Tried(op[1])
<1>1. ASSUME NEW c \in Singles \ {"#"} PROVE <<c>> \in Tried(c)
  BY TriedSets
<1>2. ASSUME NEW c \in {"+", "-", "*", "/", "%", "&", "|", "^", "!", "=", "<", ">", ".", ":"}
      PROVE  <<c>> \in Tried(c)
  <2>1. c \in Pairs \/ c \in Equals \/ c \in {"!", "*", ".", ":", "<", ">"}
    BY DEF Pairs, Equals
  <2>2. QED
    BY <2>1, TriedSets
<1>3. ASSUME NEW c \in {"+", "-", "*", "/", "%", "&", "|", "^", "=", "!", "<", ">"}
      PROVE  <<c, "=">> \in Tried(c)
  <2>1. c \in Pairs \/ c \in Equals \/ c \in {"!", "*", "<", ">"}
    BY DEF Pairs, Equals
  <2>2. QED
    BY <2>1, TriedSets
<1>4. ASSUME NEW c \in {"+", "-", "*", "&", "|", "^", "<", ">", ":"}
      PROVE  <<c, c>> \in Tried(c)
  <2>1. c \in Pairs \/ c \in {"*", ":", "<", ">"}
    BY DEF Pairs
  <2>2. QED
    BY <2>1, TriedSets
<1>5. ASSUME NEW c \in {"*", "<", ">"}
      PROVE  <<c, c, "=">> \in Tried(c)
  BY TriedSets
<1>6. /\ NotIs \in Tried("!") /\ <<".", ".", ".">> \in Tried(".")
      /\ <<">", ">", ">">> \in Tried(">") /\ <<">", ">", ">", "=">> \in Tried(">")
  BY TriedSets DEF NotIs
<1>7. QED
  <2> TAKE op \in Operators
  <2>1. CASE op \in {<<c>> : c \in Singles \ {"#"}}
    BY <1>1, <2>1
  <2>2. CASE op \in {<<c>> : c \in {"+", "-", "*", "/", "%", "&", "|", "^", "!", "=", "<", ">",
                                    ".", ":"}}
    BY <1>2, <2>2
  <2>3. CASE op \in {<<c, "=">> : c \in {"+", "-", "*", "/", "%", "&", "|", "^", "=", "!", "<",
                                         ">"}}
    BY <1>3, <2>3
  <2>4. CASE op \in {<<c, c>> : c \in {"+", "-", "*", "&", "|", "^", "<", ">", ":"}}
    BY <1>4, <2>4
  <2>5. CASE op \in {<<c, c, "=">> : c \in {"*", "<", ">"}}
    BY <1>5, <2>5
  <2>6. CASE op \in {NotIs, <<".", ".", ".">>, <<">", ">", ">">>, <<">", ">", ">", "=">>}
    <3>1. /\ NotIs[1] = "!" /\ <<".", ".", ".">>[1] = "."
          /\ <<">", ">", ">">>[1] = ">" /\ <<">", ">", ">", "=">>[1] = ">"
      BY DEF NotIs
    <3>2. QED
      BY <1>6, <2>6, <3>1, Zenon
  <2>7. QED
    BY <2>1, <2>2, <2>3, <2>4, <2>5, <2>6, Zenon DEF Operators

(* and nothing else is tried, but '#'.                                     *)
LEMMA TriedAreOperators ==
    \A c : PunctuatorsFrom(c) # << >> => Tried(c) \subseteq Operators \cup {<<"#">>}
<1> DEFINE One == {<<c>> : c \in {"+", "-", "*", "/", "%", "&", "|", "^", "!", "=", "<", ">",
                                  ".", ":"}}
           WithEquals == {<<c, "=">> : c \in {"+", "-", "*", "/", "%", "&", "|", "^", "=", "!",
                                              "<", ">"}}
           Two == {<<c, c>> : c \in {"+", "-", "*", "&", "|", "^", "<", ">", ":"}}
           TwoWithEquals == {<<c, c, "=">> : c \in {"*", "<", ">"}}
           Rest == {NotIs, <<".", ".", ".">>, <<">", ">", ">">>, <<">", ">", ">", "=">>}
<1>1. One \cup WithEquals \cup Two \cup TwoWithEquals \cup Rest \subseteq Operators
  BY Zenon DEF Operators
<1> HIDE DEF One, WithEquals, Two, TwoWithEquals, Rest
<1>2. ASSUME NEW c \in Singles PROVE Tried(c) \subseteq Operators \cup {<<"#">>}
  <2>1. c # "#" => <<c>> \in {<<d>> : d \in Singles \ {"#"}}
    OBVIOUS
  <2>2. c # "#" => <<c>> \in Operators
    BY <2>1, Zenon DEF Operators
  <2>3. QED
    BY <2>2, TriedSets
<1>3. ASSUME NEW c \in Pairs PROVE Tried(c) \subseteq Operators
  <2>1. <<c, "=">> \in WithEquals /\ <<c, c>> \in Two /\ <<c>> \in One
    BY DEF WithEquals, Two, One, Pairs
  <2>2. QED
    BY <1>1, <2>1, TriedSets
<1>4. ASSUME NEW c \in Equals PROVE Tried(c) \subseteq Operators
  <2>1. <<c, "=">> \in WithEquals /\ <<c>> \in One
    BY DEF WithEquals, One, Equals
  <2>2. QED
    BY <1>1, <2>1, TriedSets
<1>5. Tried("!") \subseteq Operators
  <2>1. <<"!", "i", "s">> \in Rest /\ <<"!", "=">> \in WithEquals /\ <<"!">> \in One
    BY DEF WithEquals, One, Rest, NotIs
  <2>2. QED
    BY <1>1, <2>1, TriedSets
<1>6. ASSUME NEW c \in {"*", "<", ">"}
      PROVE  /\ <<c, "=">> \in Operators /\ <<c>> \in Operators /\ <<c, c>> \in Operators
             /\ <<c, c, "=">> \in Operators
  <2>1. <<c, "=">> \in WithEquals /\ <<c>> \in One /\ <<c, c>> \in Two
        /\ <<c, c, "=">> \in TwoWithEquals
    BY DEF WithEquals, One, Two, TwoWithEquals
  <2>2. QED
    BY <1>1, <2>1
<1>7. /\ <<".", ".", ".">> \in Operators /\ <<">", ">", ">">> \in Operators
      /\ <<">", ">", ">", "=">> \in Operators
  BY <1>1 DEF Rest
<1>8. <<".">> \in Operators /\ <<":">> \in Operators /\ <<":", ":">> \in Operators
  <2>1. <<".">> \in One /\ <<":">> \in One /\ <<":", ":">> \in Two
    BY DEF One, Two
  <2>2. QED
    BY <1>1, <2>1
<1>9. \A c \in {"*", "<", ">", ".", ":"} : Tried(c) \subseteq Operators
  <2>1. Tried("*") \subseteq Operators /\ Tried("<") \subseteq Operators
    BY <1>6, TriedSets
  <2>2. Tried(">") \subseteq Operators
    BY <1>6, <1>7, TriedSets
  <2>3. Tried(".") \subseteq Operators /\ Tried(":") \subseteq Operators
    BY <1>7, <1>8, TriedSets
  <2>4. QED
    BY <2>1, <2>2, <2>3
<1>10. ASSUME NEW c, PunctuatorsFrom(c) # << >>
       PROVE  \/ c \in Singles \/ c \in Pairs \/ c \in Equals
              \/ c \in {"!", "*", ".", ":", "<", ">"}
  BY <1>10 DEF PunctuatorsFrom, Pairs, Equals
<1>11. QED
  BY <1>2, <1>3, <1>4, <1>5, <1>9, <1>10
(* The longer operators are tried first.                                   *)
LEMMA LongestFirst ==
    ASSUME NEW c
    PROVE  LET ts == PunctuatorsFrom(c) IN
           /\ Len(ts) \in Nat
           /\ \A i \in 1..Len(ts) : Len(ts[i]) \in Nat
           /\ \A i, j \in 1..Len(ts) : i < j => Len(ts[j]) <= Len(ts[i])
<1> DEFINE Good(ts) ==
        /\ Len(ts) \in Nat
        /\ \A i \in 1..Len(ts) : Len(ts[i]) \in Nat
        /\ \A i, j \in 1..Len(ts) : i < j => Len(ts[j]) <= Len(ts[i])
<1>1. ASSUME NEW a1, NEW a2, NEW a3, NEW a4, NEW a5, NEW a6,
             Len(a1) \in 4..4, Len(a2) \in 3..3, Len(a3) \in 3..3, Len(a4) \in 2..2,
             Len(a5) \in 2..2, Len(a6) \in 1..1
      PROVE  /\ Good(<< >>) /\ Good(<<a6>>)
             /\ Good(<<a5, a6>>) /\ Good(<<a3, a6>>)
             /\ Good(<<a4, a5, a6>>) /\ Good(<<a3, a5, a6>>)
             /\ Good(<<a3, a4, a5, a6>>)
             /\ Good(<<a1, a2, a3, a4, a5, a6>>)
  <2>1. /\ Len(a1) \in Nat /\ Len(a2) \in Nat /\ Len(a3) \in Nat
        /\ Len(a4) \in Nat /\ Len(a5) \in Nat /\ Len(a6) \in Nat
        /\ Len(a2) <= Len(a1) /\ Len(a3) <= Len(a2) /\ Len(a4) <= Len(a3)
        /\ Len(a5) <= Len(a4) /\ Len(a6) <= Len(a5)
    <3>1. \A m, n : m \in 4..4 /\ n \in 3..3 => m \in Nat /\ n \in Nat /\ n <= m
      OBVIOUS
    <3>2. \A m, n : m \in 3..3 /\ n \in 2..3 => m \in Nat /\ n \in Nat /\ n <= m
      OBVIOUS
    <3>3. \A m, n : m \in 2..2 /\ n \in 1..2 => m \in Nat /\ n \in Nat /\ n <= m
      OBVIOUS
    <3>4. \A m : (m \in 3..3 => m \in 2..3) /\ (m \in 2..2 => m \in 2..3 /\ m \in 1..2)
                 /\ (m \in 1..1 => m \in 1..2)
      OBVIOUS
    <3>5. QED
      BY <1>1, <3>1, <3>2, <3>3, <3>4, Zenon
  <2>2. Good(<< >>) /\ Good(<<a6>>)
    BY <2>1
  <2>3. ASSUME NEW b, NEW d, Len(b) \in Nat, Len(d) \in Nat, Len(d) <= Len(b)
        PROVE  Good(<<b, d>>)
    <3> DEFINE ts == <<b, d>>
    <3>1. Len(ts) = 2 /\ ts[1] = b /\ ts[2] = d
      OBVIOUS
    <3> HIDE DEF ts
    <3>2. QED
      BY <2>3, <3>1
  <2>4. ASSUME NEW a, NEW b, NEW d, Len(a) \in Nat, Len(b) \in Nat, Len(d) \in Nat,
               Len(b) <= Len(a), Len(d) <= Len(b)
        PROVE  Good(<<a, b, d>>)
    <3> DEFINE ts == <<a, b, d>>
    <3>1. Len(ts) = 3 /\ ts[1] = a /\ ts[2] = b /\ ts[3] = d
      OBVIOUS
    <3> HIDE DEF ts
    <3>2. QED
      BY <2>4, <3>1
  <2>5. ASSUME NEW a, NEW b, NEW d, NEW e,
               Len(a) \in Nat, Len(b) \in Nat, Len(d) \in Nat, Len(e) \in Nat,
               Len(b) <= Len(a), Len(d) <= Len(b), Len(e) <= Len(d)
        PROVE  Good(<<a, b, d, e>>)
    <3> DEFINE ts == <<a, b, d, e>>
    <3>1. Len(ts) = 4 /\ ts[1] = a /\ ts[2] = b /\ ts[3] = d /\ ts[4] = e
      OBVIOUS
    <3> HIDE DEF ts
    <3>2. \A i \in 1..Len(ts) : i = 1 \/ i = 2 \/ i = 3 \/ i = 4
      BY <3>1
    <3>3. QED
      BY <2>5, <3>1, <3>2, SMTT(20)
  <2>6. Good(<<a1, a2, a3, a4, a5, a6>>)
    <3> DEFINE ts == <<a1, a2, a3, a4, a5, a6>>
    <3>1. /\ Len(ts) = 6 /\ ts[1] = a1 /\ ts[2] = a2 /\ ts[3] = a3
          /\ ts[4] = a4 /\ ts[5] = a5 /\ ts[6] = a6
      OBVIOUS
    <3> HIDE DEF ts
    <3>2. \A i \in 1..Len(ts) : i = 1 \/ i = 2 \/ i = 3 \/ i = 4 \/ i = 5 \/ i = 6
      BY <3>1
    <3>3. \A i \in 1..Len(ts) : Len(ts[i]) \in Nat
      BY <2>1, <3>1, <3>2
    <3>4. ASSUME NEW i \in 1..Len(ts), NEW j \in 1..Len(ts), i < j
          PROVE  Len(ts[j]) <= Len(ts[i])
      BY <2>1, <3>1, <3>2, <3>4, SMTT(20)
    <3>5. QED
      BY <3>1, <3>3, <3>4, SMTT(20)
  <2> HIDE DEF Good
  <2>7. QED
    BY <2>1, <2>2, <2>3, <2>4, <2>5, <2>6
<1>2. /\ Len(<<c>>) \in 1..1 /\ Len(<<c, "=">>) \in 2..2 /\ Len(<<c, c>>) \in 2..2
      /\ Len(<<c, c, "=">>) \in 3..3 /\ Len(<<c, c, c>>) \in 3..3
      /\ Len(<<c, "i", "s">>) \in 3..3 /\ Len(<<c, c, c, "=">>) \in 4..4
  OBVIOUS
<1> HIDE DEF Good
<1>3. /\ Good(<< >>) /\ Good(<<<<c>>>>)
      /\ Good(<<<<c, "=">>, <<c>>>>) /\ Good(<<<<c, c>>, <<c>>>>)
      /\ Good(<<<<c, c, c>>, <<c>>>>)
  BY <1>1, <1>2
<1>4. Good(<<<<c, "i", "s">>, <<c, "=">>, <<c>>>>)
  BY <1>1, <1>2
<1>5. Good(<<<<c, "=">>, <<c, c>>, <<c>>>>)
  BY <1>1, <1>2
<1>6. Good(<<<<c, c, "=">>, <<c, c>>, <<c, "=">>, <<c>>>>)
  BY <1>1, <1>2
<1>7. Good(<<<<c, c, "=">>, <<c, "=">>, <<c, c>>, <<c>>>>)
  BY <1>1, <1>2
<1>8. Good(GtPunctuators(c))
  BY <1>1, <1>2 DEF GtPunctuators
<1>9. Good(PunctuatorsFrom(c))
  BY <1>3, <1>4, <1>5, <1>6, <1>7, <1>8 DEF PunctuatorsFrom
<1>10. QED
  BY <1>9 DEF Good

(* Of the operators only `!is' ends in a letter.                           *)
LEMMA OperatorEnds ==
    \A op \in Operators : /\ Len(op) \in Nat \ {0}
                          /\ op # NotIs => op[Len(op)] \notin NameChars
<1> DEFINE Marks == {"+", "-", "*", "/", "%", "&", "|", "^", "!", "=", "<", ">", ".", ":"}
<1>1. \A c \in Singles : c \notin NameChars
  <2>1. \A c \in Singles : c \notin Letters
    BY ZenonT(40) DEF Singles, Letters
  <2>2. \A c \in Singles : c \notin Digits /\ c \notin HighBytes
    BY ZenonT(40) DEF Singles, HighBytes, Digits, OctalDigits, BinaryDigits
  <2>3. QED
    BY <2>1, <2>2, Zenon DEF NameChars, NameStarts
<1>2. \A c \in Marks : c \notin NameChars
  <2>1. \A c \in Marks : c \notin Letters
    <3>1. \A c \in {"+", "-", "*", "/", "%"} : c \notin Letters
      BY ZenonT(40) DEF Letters
    <3>2. \A c \in {"&", "|", "^", "!", "="} : c \notin Letters
      BY ZenonT(40) DEF Letters
    <3>3. \A c \in {"<", ">", ".", ":"} : c \notin Letters
      BY ZenonT(40) DEF Letters
    <3>4. QED
      BY <3>1, <3>2, <3>3, Zenon
  <2>2. \A c \in Marks : c \notin Digits /\ c \notin HighBytes
    BY ZenonT(40) DEF HighBytes, Digits, OctalDigits, BinaryDigits
  <2> HIDE DEF Marks
  <2>3. QED
    BY <2>1, <2>2, Zenon DEF NameChars, NameStarts
<1>3. QED
  <2> DEFINE Ends(op) == Len(op) \in Nat \ {0} /\ op[Len(op)] \notin NameChars
  <2>1. \A c : c \notin NameChars => Ends(<<c>>) /\ Ends(<<c, c>>)
    OBVIOUS
  <2>2. \A c : Ends(<<c, "=">>) /\ Ends(<<c, c, "=">>)
    BY <1>2
  <2>3. /\ Ends(<<".", ".", ".">>) /\ Ends(<<">", ">", ">">>)
        /\ Ends(<<">", ">", ">", "=">>) /\ Len(NotIs) \in Nat \ {0}
    BY <1>2 DEF NotIs
  <2> HIDE DEF Ends
  <2> TAKE op \in Operators
  <2> SUFFICES Ends(op) \/ op = NotIs
    BY <2>3 DEF Ends
  <2>4. CASE op \in {<<c>> : c \in Singles \ {"#"}}
    BY <1>1, <2>1, <2>4
  <2>5. CASE op \in {<<c>> : c \in {"+", "-", "*", "/", "%", "&", "|", "^", "!", "=", "<", ">",
                                    ".", ":"}}
    BY <1>2, <2>1, <2>5, Zenon
  <2>6. CASE op \in {<<c, "=">> : c \in {"+", "-", "*", "/", "%", "&", "|", "^", "=", "!", "<",
                                         ">"}}
    BY <2>2, <2>6, Zenon
  <2>7. CASE op \in {<<c, c>> : c \in {"+", "-", "*", "&", "|", "^", "<", ">", ":"}}
    BY <1>2, <2>1, <2>7, Zenon
  <2>8. CASE op \in {<<c, c, "=">> : c \in {"*", "<", ">"}}
    BY <2>2, <2>8, Zenon
  <2>9. CASE op \in {NotIs, <<".", ".", ".">>, <<">", ">", ">">>, <<">", ">", ">", "=">>}
    BY <2>3, <2>9, Zenon
  <2>10. QED
    BY <2>4, <2>5, <2>6, <2>7, <2>8, <2>9, Zenon DEF Operators
-----------------------------------------------------------------------------
(* The operators that are spelled are the ones that the lexer takes to fit. *)
LEMMA SpelledFits ==
    ASSUME NEW s \in Seq(STRING), NEW p \in Nat, NEW op \in Operators
    PROVE  Fits(s, p, op) <=> op \in SpelledOps(s, p)
<1>1. Len(op) \in Nat \ {0} /\ (op # NotIs => op[Len(op)] \notin NameChars)
  BY OperatorEnds
<1>2. Spells(s, p, op) => At(s, p + Len(op) - 1) = op[Len(op)]
  BY <1>1 DEF Spells
<1>3. CASE op # NotIs
  BY <1>1, <1>2, <1>3 DEF Fits, SpelledOps
<1>4. CASE op = NotIs
  <2>1. Len(op) = 3 /\ op[3] = "s"
    BY <1>4 DEF NotIs
  <2>2. "s" \in NameChars
    BY Zenon DEF NameChars, NameStarts, Letters
  <2>3. Spells(s, p, op) => At(s, p + 3 - 1) \in NameChars
    BY <1>2, <2>1, <2>2
  <2>4. p + Len(op) - 1 = p + 3 - 1 /\ p + Len(op) = p + 3
    BY <2>1
  <2>5. QED
    BY <1>4, <2>3, <2>4, Zenon DEF Fits, SpelledOps
<1>5. QED
  BY <1>3, <1>4

(* One that is spelled begins with the character that stands there.        *)
LEMMA SpelledIsTried ==
    ASSUME NEW s \in Seq(STRING), NEW p \in Nat, NEW op \in SpelledOps(s, p)
    PROVE  op \in Operators /\ op \in Tried(At(s, p)) /\ Len(op) \in Nat \ {0}
<1>1. op \in Operators /\ Spells(s, p, op)
  BY DEF SpelledOps
<1>2. Len(op) \in Nat \ {0}
  BY <1>1, OperatorEnds
<1>3. 1 \in 1..Len(op) /\ p + 1 - 1 = p
  BY <1>2
<1>4. At(s, p) = op[1]
  BY <1>1, <1>3 DEF Spells
<1>5. QED
  BY <1>1, <1>2, <1>4, OperatorsAreTried

LEMMA NothingSpelled ==
    ASSUME NEW s \in Seq(STRING), NEW p \in Nat, PunctuatorsFrom(At(s, p)) = << >>
    PROVE  SpelledOps(s, p) = {}
<1>1. Len(PunctuatorsFrom(At(s, p))) = 0
  OBVIOUS
<1>2. Tried(At(s, p)) = {}
  BY <1>1 DEF Tried
<1>3. QED
  BY <1>2, SpelledIsTried

LEMMA LongestIsTaken ==
    ASSUME NEW s \in Seq(STRING), NEW p \in 0..(Len(s) - 1),
           PunctuatorsFrom(At(s, p)) # << >>
    PROVE  /\ \/ \E op \in SpelledOps(s, p) : Len(op) = PunctuatorEnd(s, p) - p
              \/ At(s, p) = "#" /\ PunctuatorEnd(s, p) - p = 1
           /\ \A op \in SpelledOps(s, p) : Len(op) <= PunctuatorEnd(s, p) - p
<1> DEFINE c == At(s, p)
           tried == PunctuatorsFrom(c)
           fit == {i \in 1..Len(tried) : Fits(s, p, tried[i])}
           first == Min(fit)
<1>1. /\ Len(tried) \in Nat /\ \A i \in 1..Len(tried) : Len(tried[i]) \in Nat
      /\ \A i, j \in 1..Len(tried) : i < j => Len(tried[j]) <= Len(tried[i])
  BY LongestFirst, Zenon
<1>2. Tried(c) = {tried[i] : i \in 1..Len(tried)} /\ Tried(c) \subseteq Operators \cup {<<"#">>}
  BY TriedAreOperators DEF Tried
<1>3. \E i \in 1..Len(tried) : tried[i] = <<c>>
  <2>1. c \in STRING
    BY DEF At
  <2>2. PunctuatorsFrom(Nul) = << >>
    BY DEF PunctuatorsFrom, Singles, Nul
  <2>3. QED
    BY <2>1, <2>2, PunctuatorsAreText
<1>4. Fits(s, p, <<c>>)
  BY DEF Fits, Spells, NotIs
<1>5. PunctuatorEnd(s, p) = IF fit = {} THEN p ELSE p + Len(tried[Min(fit)])
  BY Zenon DEF PunctuatorEnd
<1> HIDE DEF tried
<1>6. fit # {} /\ fit \in SUBSET Nat
  <2>1. PICK i \in 1..Len(tried) : tried[i] = <<c>>
    BY <1>3
  <2>2. Fits(s, p, tried[i])
    BY <1>4, <2>1
  <2>3. i \in fit
    BY <2>2
  <2>4. QED
    BY <1>1, <2>3
<1>7. first \in fit /\ \A i \in fit : first <= i
  BY <1>6, MinIsMinimum
<1>8. PunctuatorEnd(s, p) = p + Len(tried[first])
  BY <1>5, <1>6
<1> HIDE DEF first
<1>9. first \in 1..Len(tried) /\ Fits(s, p, tried[first]) /\ Len(tried[first]) \in Nat
  BY <1>1, <1>7
<1>10. PunctuatorEnd(s, p) - p = Len(tried[first])
  BY <1>8, <1>9
<1>11. \/ \E op \in SpelledOps(s, p) : Len(op) = PunctuatorEnd(s, p) - p
       \/ At(s, p) = "#" /\ PunctuatorEnd(s, p) - p = 1
  <2>1. tried[first] \in Operators \cup {<<"#">>}
    BY <1>2, <1>9
  <2>2. CASE tried[first] \in Operators
    <3>1. tried[first] \in SpelledOps(s, p)
      BY <1>9, <2>2, SpelledFits
    <3>2. QED
      BY <1>10, <3>1
  <2>3. CASE tried[first] = <<"#">>
    <3>1. Spells(s, p, <<"#">>)
      BY <1>9, <2>3 DEF Fits
    <3>2. Len(<<"#">>) = 1 /\ <<"#">>[1] = "#" /\ 1 \in 1..1 /\ p + 1 - 1 = p
      OBVIOUS
    <3>3. At(s, p) = "#"
      BY <3>1, <3>2 DEF Spells
    <3>4. QED
      BY <1>10, <2>3, <3>2, <3>3
  <2>4. QED
    BY <2>1, <2>2, <2>3
<1>12. ASSUME NEW op \in SpelledOps(s, p) PROVE Len(op) <= PunctuatorEnd(s, p) - p
  <2>1. op \in Operators /\ op \in Tried(c)
    BY SpelledIsTried
  <2>2. Fits(s, p, op)
    BY <2>1, SpelledFits
  <2>3. PICK i \in 1..Len(tried) : tried[i] = op
    BY <1>2, <2>1
  <2>4. first <= i
    BY <1>7, <2>2, <2>3
  <2>5. Len(tried[i]) <= Len(tried[first])
    BY <1>1, <1>9, <2>4
  <2>6. QED
    BY <1>10, <2>3, <2>5
<1>13. QED
  BY <1>11, <1>12

LEMMA LongestKept ==
    ASSUME LexInv, LongestOperator, [Next]_vars
    PROVE  LongestOperator'
<1>1. /\ source \in Seq(STRING) /\ lexemes \in Seq(Lexeme) /\ offset \in 0..Len(source)
      /\ \A i \in 1..Len(lexemes) : LongestAt(source, lexemes[i])
  BY DEF LexInv, TypeOK, LongestOperator
<1>2. ASSUME NEW t, source' = source, lexemes' = Append(lexemes, t), LongestAt(source, t)
      PROVE  LongestOperator'
  <2>1. \A i \in 1..Len(lexemes') : lexemes'[i] = t \/ \E j \in 1..Len(lexemes) :
                                                          lexemes'[i] = lexemes[j]
    BY <1>1, <1>2
  <2>2. \A i \in 1..Len(lexemes') : LongestAt(source', lexemes'[i])
    BY <1>1, <1>2, <2>1
  <2>3. QED
    BY <2>2 DEF LongestOperator
<1>3. ASSUME source' = source, lexemes' = lexemes PROVE LongestOperator'
  BY <1>3 DEF LongestOperator
<1>4. ASSUME NEW kind \in LexemeKinds, Yield(kind) PROVE LongestOperator'
  <2> DEFINE end == EndAt(kind, source, offset)
             t == LexemeAt(kind, source, offset, end)
  <2>1. /\ source' = source /\ lexemes' = Append(lexemes, t)
        /\ Begins(kind, source, offset) /\ offset \in 0..(Len(source) - 1)
    BY <1>1, <1>4 DEF Yield
  <2>2. t.kind = kind /\ t.offset = offset /\ t.length = end - offset
    BY DEF LexemeAt
  <2> HIDE DEF t
  <2>3. CASE kind = "Unknown"
    <3>1. PunctuatorsFrom(At(source, offset)) = << >>
      BY <2>1, <2>3 DEF Begins
    <3>2. SpelledOps(source, offset) = {}
      BY <1>1, <2>1, <3>1, NothingSpelled
    <3>3. QED
      BY <1>2, <2>1, <2>2, <2>3, <3>2 DEF LongestAt
  <2>4. CASE kind = "Punctuator"
    <3>1. PunctuatorsFrom(At(source, offset)) # << >> /\ end = PunctuatorEnd(source, offset)
      BY <2>1, <2>4 DEF Begins, EndAt
    <3> HIDE DEF end
    <3>2. LongestAt(source, t)
      BY <1>1, <2>1, <2>2, <2>4, <3>1, LongestIsTaken DEF LongestAt
    <3>3. QED
      BY <1>2, <2>1, <3>2
  <2>5. CASE kind \notin {"Unknown", "Punctuator"}
    BY <1>2, <2>1, <2>2, <2>5 DEF LongestAt
  <2>6. QED
    BY <2>3, <2>4, <2>5
<1>5. CASE LexEnd
  <2> DEFINE t == EndOfFile(source)
  <2>1. source' = source /\ lexemes' = Append(lexemes, t)
    BY <1>5 DEF LexEnd
  <2>2. t.kind = "EndOfFile"
    BY DEF EndOfFile, LexemeAt
  <2> HIDE DEF t
  <2>3. QED
    BY <1>2, <2>1, <2>2 DEF LongestAt
<1>6. QED
  BY <1>3, <1>4, <1>5
     DEF Next, vars, SkipByteOrderMark, SkipBlank, SkipComment, Skip, LexNumber, LexString,
         LexPunctuator, LexName, LexUnknown, LexemeKinds

(* Punctuation is the longest operator that stands there, the order in     *)
(* which tryLexPunctuator tries them notwithstanding; and where Lex yields *)
(* an unknown character, none begins.                                      *)
THEOREM LongestAlways == Spec => []LongestOperator
<1>1. Init => LongestOperator
  BY DEF Init, LongestOperator
<1>2. LexInv /\ LongestOperator /\ [Next]_vars => LongestOperator'
  BY LongestKept
<1>3. QED
  BY <1>1, <1>2, LexInvariance, PTL DEF Spec
-----------------------------------------------------------------------------
(* Where the line that an offset is on begins.                             *)
LineBegin(s, o) == Max({0} \cup {q + 1 : q \in LineFeeds(s, o)})

Starts(s, o, b) ==
    /\ b \in 0..o
    /\ b = 0 \/ At(s, b - 1) = "LF"
    /\ \A q \in b..(o - 1) : At(s, q) # "LF"

LEMMA MaxIsMaximum ==
    ASSUME NEW n \in Nat, NEW S \in SUBSET (0..n), S # {}
    PROVE  Max(S) \in S /\ \A y \in S : Max(S) >= y
<1> DEFINE T == {n - x : x \in S}
<1>1. T \in SUBSET Nat /\ T # {}
  <2>1. \A x \in S : n - x \in Nat
    OBVIOUS
  <2>2. PICK x \in S : TRUE
    OBVIOUS
  <2>3. n - x \in T
    OBVIOUS
  <2>4. QED
    BY <2>1, <2>3
<1>2. Min(T) \in T /\ \A y \in T : Min(T) <= y
  BY <1>1, MinIsMinimum
<1> DEFINE m == n - Min(T)
<1>3. m \in S /\ \A y \in S : m >= y
  <2>1. PICK x \in S : Min(T) = n - x
    BY <1>2
  <2>2. m = x
    BY <2>1
  <2>3. ASSUME NEW y \in S PROVE x >= y
    <3>1. n - x <= n - y
      BY <1>2, <2>1
    <3>2. x \in Int /\ y \in Int
      OBVIOUS
    <3>3. QED
      BY <3>1, <3>2
  <2>4. QED
    BY <2>2, <2>3
<1> HIDE DEF m
<1>4. \E x \in S : \A y \in S : x >= y
  BY <1>3
<1>5. QED
  BY <1>4 DEF Max

LEMMA LineBeginStarts ==
    ASSUME NEW s, NEW o \in Nat
    PROVE  Starts(s, o, LineBegin(s, o))
<1> DEFINE S == {0} \cup {q + 1 : q \in LineFeeds(s, o)}
           b == LineBegin(s, o)
<1>1. S \in SUBSET (0..o) /\ S # {}
  BY DEF LineFeeds
<1>2. b \in S /\ \A y \in S : b >= y
  BY <1>1, MaxIsMaximum DEF LineBegin
<1> HIDE DEF b
<1>3. b \in 0..o
  BY <1>1, <1>2
<1>4. b = 0 \/ At(s, b - 1) = "LF"
  <2>1. SUFFICES ASSUME b # 0 PROVE At(s, b - 1) = "LF"
    OBVIOUS
  <2>2. PICK q \in LineFeeds(s, o) : b = q + 1
    BY <1>2, <2>1
  <2>3. q \in Nat /\ At(s, q) = "LF"
    BY DEF LineFeeds
  <2>4. b - 1 = q
    BY <2>2, <2>3
  <2>5. QED
    BY <2>3, <2>4
<1>5. ASSUME NEW q \in b..(o - 1), At(s, q) = "LF" PROVE FALSE
  <2>1. q \in LineFeeds(s, o)
    BY <1>3, <1>5 DEF LineFeeds
  <2>2. q + 1 \in S
    BY <2>1
  <2>3. b >= q + 1
    BY <1>2, <2>2
  <2>4. QED
    BY <1>3, <2>3
<1>6. QED
  BY <1>3, <1>4, <1>5 DEF Starts, b

LEMMA StartsOnce ==
    ASSUME NEW s, NEW o \in Nat, NEW b, NEW c, Starts(s, o, b), Starts(s, o, c)
    PROVE  b = c
<1>1. b \in 0..o /\ c \in 0..o
  BY DEF Starts
<1>2. ~(b < c)
  <2>1. SUFFICES ASSUME b < c PROVE FALSE
    OBVIOUS
  <2>2. c - 1 \in b..(o - 1) /\ c # 0
    BY <1>1, <2>1
  <2>3. QED
    BY <2>2 DEF Starts
<1>3. ~(c < b)
  <2>1. SUFFICES ASSUME c < b PROVE FALSE
    OBVIOUS
  <2>2. b - 1 \in c..(o - 1) /\ b # 0
    BY <1>1, <2>1
  <2>3. QED
    BY <2>2 DEF Starts
<1>4. QED
  BY <1>1, <1>2, <1>3

(* One character further, a line begins or goes on.                        *)
LEMMA NextLine ==
    ASSUME NEW s, NEW i \in Nat
    PROVE  LineBegin(s, i + 1) = IF At(s, i) = "LF" THEN i + 1 ELSE LineBegin(s, i)
<1> DEFINE b == LineBegin(s, i)
           c == IF At(s, i) = "LF" THEN i + 1 ELSE b
<1>1. Starts(s, i, b)
  BY LineBeginStarts
<1>2. Starts(s, i + 1, LineBegin(s, i + 1))
  BY LineBeginStarts
<1> HIDE DEF b
<1>3. Starts(s, i + 1, c)
  <2>1. CASE At(s, i) = "LF"
    <3>1. i + 1 - 1 = i /\ (i + 1)..(i + 1 - 1) = {}
      OBVIOUS
    <3>2. QED
      BY <2>1, <3>1 DEF Starts
  <2>2. CASE At(s, i) # "LF"
    <3>1. b \in 0..i /\ b \in 0..(i + 1)
      BY <1>1 DEF Starts
    <3>2. \A q \in b..(i + 1 - 1) : q = i \/ q \in b..(i - 1)
      BY <3>1
    <3>3. QED
      BY <1>1, <2>2, <3>1, <3>2 DEF Starts
  <2>3. QED
    BY <2>1, <2>2
<1>4. QED
  BY <1>2, <1>3, StartsOnce DEF b

LEMMA LineFeedsFinite ==
    ASSUME NEW s, NEW i \in Nat
    PROVE  IsFiniteSet(LineFeeds(s, i)) /\ Cardinality(LineFeeds(s, i)) \in Nat
<1>1. LineFeeds(s, i) \in SUBSET (0..(i - 1)) /\ IsFiniteSet(0..(i - 1))
  BY FS_Interval DEF LineFeeds
<1>2. IsFiniteSet(LineFeeds(s, i))
  BY <1>1, FS_Subset
<1>3. QED
  BY <1>2, FS_CardinalityType

LEMMA NextLineFeeds ==
    ASSUME NEW s, NEW i \in Nat
    PROVE  Cardinality(LineFeeds(s, i + 1)) =
               IF At(s, i) = "LF" THEN Cardinality(LineFeeds(s, i)) + 1
               ELSE Cardinality(LineFeeds(s, i))
<1>1. 0..(i + 1 - 1) = 0..(i - 1) \cup {i} /\ i \notin 0..(i - 1)
  OBVIOUS
<1>2. LineFeeds(s, i + 1) =
          IF At(s, i) = "LF" THEN LineFeeds(s, i) \cup {i} ELSE LineFeeds(s, i)
  BY <1>1 DEF LineFeeds
<1>3. i \notin LineFeeds(s, i)
  BY <1>1 DEF LineFeeds
<1>4. Cardinality(LineFeeds(s, i) \cup {i}) = Cardinality(LineFeeds(s, i)) + 1
  BY <1>3, LineFeedsFinite, FS_AddElement
<1>5. QED
  BY <1>2, <1>4

(* The place that offsetToLineColumn counts up to, where no carriage       *)
(* return stands alone.                                                    *)
AfterReturn(s, i) == i > 0 /\ At(s, i - 1) = "CR"

ColumnOf(s, i) == i - LineBegin(s, i) + (IF AfterReturn(s, i) THEN 0 ELSE 1)

Place(s, i) == [line |-> Cardinality(LineFeeds(s, i)) + 1, column |-> ColumnOf(s, i)]

LEMMA ColumnsAre ==
    ASSUME NEW s \in Seq(STRING), ~LoneReturn(s), NEW i \in 0..(Len(s) - 1)
    PROVE  ColumnOf(s, i + 1) =
               CASE At(s, i) = "LF" -> 1
                 [] At(s, i) = "CR" -> ColumnOf(s, i)
                 [] OTHER -> ColumnOf(s, i) + 1
<1>1. Len(s) \in Nat /\ i \in Nat /\ i + 1 - 1 = i
  OBVIOUS
<1>2. AfterReturn(s, i + 1) <=> At(s, i) = "CR"
  BY <1>1 DEF AfterReturn
<1>3. AfterReturn(s, i) => At(s, i) = "LF"
  <2>1. SUFFICES ASSUME AfterReturn(s, i) PROVE At(s, i) = "LF"
    OBVIOUS
  <2>2. i - 1 \in 0..(Len(s) - 1) /\ At(s, i - 1) = "CR" /\ i - 1 + 1 = i
    BY <1>1, <2>1 DEF AfterReturn
  <2>3. QED
    BY <2>2 DEF LoneReturn
<1>4. LineBegin(s, i + 1) = IF At(s, i) = "LF" THEN i + 1 ELSE LineBegin(s, i)
  BY NextLine
<1>5. LineBegin(s, i) \in 0..i
  BY LineBeginStarts DEF Starts
<1> DEFINE b == LineBegin(s, i)
           c == LineBegin(s, i + 1)
<1>6. /\ b \in 0..i /\ c = IF At(s, i) = "LF" THEN i + 1 ELSE b
      /\ ColumnOf(s, i) = i - b + (IF AfterReturn(s, i) THEN 0 ELSE 1)
      /\ ColumnOf(s, i + 1) = i + 1 - c + (IF AfterReturn(s, i + 1) THEN 0 ELSE 1)
  BY <1>4, <1>5 DEF ColumnOf
<1> HIDE DEF b, c
<1>7. CASE At(s, i) = "LF"
  BY <1>1, <1>2, <1>6, <1>7
<1>8. CASE At(s, i) = "CR"
  <2>1. ~AfterReturn(s, i) /\ AfterReturn(s, i + 1) /\ c = b
    BY <1>2, <1>3, <1>6, <1>8
  <2>2. QED
    BY <1>1, <1>6, <1>8, <2>1
<1>9. CASE At(s, i) \notin {"LF", "CR"}
  <2>1. ~AfterReturn(s, i) /\ ~AfterReturn(s, i + 1) /\ c = b
    BY <1>2, <1>3, <1>6, <1>9
  <2>2. QED
    BY <1>1, <1>6, <1>9, <2>1
<1>10. QED
  BY <1>7, <1>8, <1>9

LEMMA LineColumnIs ==
    ASSUME NEW s \in Seq(STRING), ~LoneReturn(s), NEW o \in 0..Len(s)
    PROVE  LineColumn(s, o) = Place(s, o)
<1> DEFINE end == Min({o, Len(s)})
           Step(f, i) ==
               IF i = 0 THEN [line |-> 1, column |-> 1]
               ELSE IF s[i] = "LF" THEN [line |-> f[i - 1].line + 1, column |-> 1]
               ELSE [f[i - 1] EXCEPT !.column = IF s[i] = "CR" THEN @ ELSE @ + 1]
           f == CHOOSE f : f = [i \in 0..end |-> Step(f, i)]
           g == [i \in 0..o |-> Place(s, i)]
<1>1. Len(s) \in Nat /\ o \in Nat /\ {o, Len(s)} \in SUBSET Nat
  OBVIOUS
<1>2. end = o
  <2>1. end \in {o, Len(s)} /\ end <= o /\ end <= Len(s)
    BY <1>1, MinIsMinimum
  <2>2. QED
    BY <1>1, <2>1
<1>3. LineColumn(s, o) = f[end]
  BY DEF LineColumn
<1> HIDE DEF end
<1>4. ASSUME NEW h, NEW i \in 0..o, i # 0 => h[i - 1] = Place(s, i - 1)
      PROVE  Step(h, i) = Place(s, i)
  <2>1. CASE i = 0
    <3>1. LineFeeds(s, 0) = {}
      BY DEF LineFeeds
    <3>2. LineBegin(s, 0) = 0 /\ ~AfterReturn(s, 0)
      BY LineBeginStarts DEF Starts, AfterReturn
    <3>3. Cardinality(LineFeeds(s, 0)) = 0
      BY <3>1, FS_EmptySet
    <3>4. QED
      BY <2>1, <3>2, <3>3 DEF Place, ColumnOf
  <2>2. CASE i # 0
    <3> DEFINE p == i - 1
    <3>1. p \in 0..(Len(s) - 1) /\ p \in Nat /\ p + 1 = i /\ h[p] = Place(s, p)
      BY <1>1, <1>4, <2>2
    <3>2. s[i] = At(s, p)
      BY <1>1, <3>1 DEF At
    <3> HIDE DEF p
    <3>3. ColumnOf(s, i) =
               CASE At(s, p) = "LF" -> 1
                 [] At(s, p) = "CR" -> ColumnOf(s, p)
                 [] OTHER -> ColumnOf(s, p) + 1
      BY <3>1, ColumnsAre
    <3>4. Cardinality(LineFeeds(s, i)) =
               IF At(s, p) = "LF" THEN Cardinality(LineFeeds(s, p)) + 1
               ELSE Cardinality(LineFeeds(s, p))
      BY <3>1, NextLineFeeds
    <3>5. h[p].line = Cardinality(LineFeeds(s, p)) + 1 /\ h[p].column = ColumnOf(s, p)
          /\ h[p] = [line |-> h[p].line, column |-> h[p].column]
      BY <3>1 DEF Place
    <3>6. Step(h, i) = IF s[i] = "LF" THEN [line |-> h[p].line + 1, column |-> 1]
                       ELSE [h[p] EXCEPT !.column = IF s[i] = "CR" THEN @ ELSE @ + 1]
      BY <2>2 DEF p
    <3> HIDE DEF Step
    <3>7. CASE At(s, p) = "LF"
      BY <3>2, <3>3, <3>4, <3>5, <3>6, <3>7 DEF Place
    <3>8. CASE At(s, p) = "CR"
      BY <3>2, <3>3, <3>4, <3>5, <3>6, <3>8 DEF Place
    <3>9. CASE At(s, p) \notin {"LF", "CR"}
      BY <3>2, <3>3, <3>4, <3>5, <3>6, <3>9 DEF Place
    <3>10. QED
      BY <3>7, <3>8, <3>9
  <2>3. QED
    BY <2>1, <2>2
<1> HIDE DEF Step
<1>5. g = [i \in 0..end |-> Step(g, i)]
  <2>1. \A i \in 0..o : i # 0 => i - 1 \in 0..o
    BY <1>1
  <2>2. \A i \in 0..o : i # 0 => g[i - 1] = Place(s, i - 1)
    BY <2>1
  <2> HIDE DEF g
  <2>3. \A i \in 0..o : Step(g, i) = Place(s, i)
    BY <1>4, <2>2
  <2>4. QED
    BY <1>2, <2>3 DEF g
<1>6. f = [i \in 0..end |-> Step(f, i)]
  <2> HIDE DEF g
  <2>1. \E h : h = [i \in 0..end |-> Step(h, i)]
    BY <1>5
  <2>2. QED
    BY <2>1, Zenon
<1> HIDE DEF f
<1> DEFINE D == {i \in 0..o : f[i] # Place(s, i)}
<1>7. ASSUME D # {} PROVE FALSE
  <2>1. D \in SUBSET Nat
    OBVIOUS
  <2>2. Min(D) \in D /\ \A y \in D : Min(D) <= y
    BY <1>7, <2>1, MinIsMinimum
  <2> DEFINE m == Min(D)
  <2> HIDE DEF m
  <2>3. m \in 0..o /\ f[m] # Place(s, m) /\ \A y \in D : m <= y
    BY <2>2 DEF m
  <2>4. m # 0 => f[m - 1] = Place(s, m - 1)
    <3>1. m # 0 => m - 1 \in 0..o /\ ~(m <= m - 1)
      BY <1>1, <2>3
    <3>2. QED
      BY <2>3, <3>1
  <2>5. Step(f, m) = Place(s, m)
    BY <1>4, <2>3, <2>4
  <2>6. f[m] = Step(f, m)
    BY <1>2, <1>6, <2>3
  <2>7. QED
    BY <2>3, <2>5, <2>6
<1>8. f[o] = Place(s, o)
  BY <1>1, <1>7
<1>9. QED
  BY <1>2, <1>3, <1>8
-----------------------------------------------------------------------------
LEMMA UntilIs ==
    ASSUME NEW s \in Seq(STRING), NEW p \in 0..Len(s), NEW class
    PROVE  LET q == Until(s, p, class)
           IN  /\ q \in p..Len(s)
               /\ q = Len(s) \/ At(s, q) \in class
               /\ \A r \in p..(q - 1) : At(s, r) \notin class
<1> DEFINE S == {q \in p..Len(s) : q = Len(s) \/ At(s, q) \in class}
           q == Until(s, p, class)
<1>1. S \in SUBSET Nat /\ Len(s) \in S
  OBVIOUS
<1>2. q \in S /\ \A r \in S : q <= r
  BY <1>1, MinIsMinimum DEF Until
<1> HIDE DEF q
<1>3. q \in p..Len(s) /\ (q = Len(s) \/ At(s, q) \in class)
  BY <1>2
<1>4. ASSUME NEW r \in p..(q - 1), At(s, r) \in class PROVE FALSE
  <2>1. r \in p..Len(s) /\ ~(q <= r)
    BY <1>3, <1>4
  <2>2. QED
    BY <1>2, <1>4, <2>1
<1>5. QED
  BY <1>3, <1>4 DEF q

(* The line that getSourceLine finds for an offset's line number is the    *)
(* one that the offset is on.                                              *)
LEMMA FewerLineFeeds ==
    ASSUME NEW s, NEW b \in Nat, NEW o \in Nat, Starts(s, o, b), NEW q \in 0..(b - 1)
    PROVE  Cardinality(LineFeeds(s, q)) < Cardinality(LineFeeds(s, o))
<1>1. b \in 0..o /\ b # 0 /\ At(s, b - 1) = "LF"
  BY DEF Starts
<1>2. LineFeeds(s, q) \subseteq LineFeeds(s, o)
  BY <1>1 DEF LineFeeds
<1>3. b - 1 \in LineFeeds(s, o) /\ b - 1 \notin LineFeeds(s, q)
  BY <1>1 DEF LineFeeds
<1>4. LineFeeds(s, q) # LineFeeds(s, o)
  BY <1>3
<1>5. QED
  BY <1>1, <1>2, <1>4, LineFeedsFinite, FS_Subset

LEMMA SameLineFeeds ==
    ASSUME NEW s, NEW b, NEW o \in Nat, Starts(s, o, b)
    PROVE  LineFeeds(s, b) = LineFeeds(s, o)
<1>1. b \in 0..o /\ \A q \in b..(o - 1) : At(s, q) # "LF"
  BY DEF Starts
<1>2. \A q \in 0..(o - 1) : q \in 0..(b - 1) \/ q \in b..(o - 1)
  BY <1>1
<1>3. \A q \in 0..(b - 1) : q \in 0..(o - 1)
  BY <1>1
<1>4. QED
  BY <1>1, <1>2, <1>3 DEF LineFeeds

LineEnd(s, b) == Until(s, b, {"LF"})

Trailing(s, b) == IF b < LineEnd(s, b) /\ At(s, LineEnd(s, b) - 1) = "CR" THEN 1 ELSE 0

LEMMA SourceLineIs ==
    ASSUME NEW s \in Seq(STRING), NEW o \in 0..Len(s), NEW b, Starts(s, o, b)
    PROVE  SourceLine(s, Place(s, o).line) = SubSeq(s, b + 1, LineEnd(s, b) - Trailing(s, b))
<1> DEFINE line == Place(s, o).line
           S == {q \in 0..Len(s) : /\ q = 0 \/ At(s, q - 1) = "LF"
                                   /\ Cardinality(LineFeeds(s, q)) = line - 1}
<1>1. Len(s) \in Nat /\ o \in Nat /\ b \in Nat /\ b \in 0..Len(s)
      /\ (b = 0 \/ At(s, b - 1) = "LF")
  BY DEF Starts
<1>2. line - 1 = Cardinality(LineFeeds(s, o))
  <2>1. line = Cardinality(LineFeeds(s, o)) + 1
    BY DEF Place
  <2>2. Cardinality(LineFeeds(s, o)) \in Nat
    BY <1>1, LineFeedsFinite
  <2> HIDE DEF line
  <2>3. QED
    BY <2>1, <2>2
<1> HIDE DEF line
<1>3. b \in S
  BY <1>1, <1>2, SameLineFeeds
<1>4. S \in SUBSET Nat /\ S # {}
  BY <1>3
<1>5. Min(S) \in S /\ \A q \in S : Min(S) <= q
  BY <1>4, MinIsMinimum
<1>6. Min(S) = b
  <2> DEFINE m == Min(S)
  <2>1. m \in S /\ m <= b
    BY <1>3, <1>5
  <2>2. m \in Nat /\ Cardinality(LineFeeds(s, m)) = Cardinality(LineFeeds(s, o))
    BY <1>2, <2>1
  <2> HIDE DEF m, S
  <2>3. SUFFICES ASSUME m # b PROVE FALSE
    BY DEF m
  <2>4. m \in 0..(b - 1)
    BY <1>1, <2>1, <2>2, <2>3
  <2>5. Cardinality(LineFeeds(s, m)) < Cardinality(LineFeeds(s, o))
    BY <1>1, <2>4, FewerLineFeeds
  <2>6. Cardinality(LineFeeds(s, o)) \in Nat
    BY <1>1, LineFeedsFinite
  <2>7. QED
    BY <2>2, <2>5, <2>6
<1>7. SourceLine(s, line) = LET begin == Min(S)
                                end == Until(s, begin, {"LF"})
                                trailing == IF begin < end /\ At(s, end - 1) = "CR" THEN 1 ELSE 0
                            IN  IF S = {} THEN << >> ELSE SubSeq(s, begin + 1, end - trailing)
  BY DEF SourceLine
<1> HIDE DEF S
<1>8. QED
  BY <1>4, <1>6, <1>7 DEF LineEnd, Trailing, line
-----------------------------------------------------------------------------
(* Where a lexeme is: inside the source; a token begins with what is not   *)
(* blank, and the end of file is at the end.                               *)
Placed(s, t) ==
    /\ t.offset \in 0..Len(s) /\ t.length \in Nat /\ EndOf(t) \in t.offset..Len(s)
    /\ IsEof(t) => t.offset = Len(s)
    /\ ~IsEof(t) => t.length # 0 /\ At(s, t.offset) \notin Blanks

AllPlaced == \A i \in 1..Len(lexemes) : Placed(source, lexemes[i])

LEMMA PlacedKept ==
    ASSUME LexInv, AllPlaced, [Next]_vars
    PROVE  AllPlaced'
<1>1. /\ source \in Seq(STRING) /\ lexemes \in Seq(Lexeme) /\ offset \in 0..Len(source)
  BY DEF LexInv, TypeOK
<1>2. ASSUME NEW t, source' = source, lexemes' = Append(lexemes, t), Placed(source, t)
      PROVE  AllPlaced'
  <2>1. \A i \in 1..Len(lexemes') : lexemes'[i] = t \/ \E j \in 1..Len(lexemes) :
                                                          lexemes'[i] = lexemes[j]
    BY <1>1, <1>2
  <2>2. \A i \in 1..Len(lexemes') : Placed(source', lexemes'[i])
    BY <1>1, <1>2, <2>1 DEF AllPlaced
  <2>3. QED
    BY <2>2 DEF AllPlaced
<1>3. ASSUME source' = source, lexemes' = lexemes PROVE AllPlaced'
  BY <1>3 DEF AllPlaced
<1>4. ASSUME NEW kind \in LexemeKinds, Yield(kind) PROVE AllPlaced'
  <2> DEFINE end == EndAt(kind, source, offset)
             t == LexemeAt(kind, source, offset, end)
  <2>1. /\ source' = source /\ lexemes' = Append(lexemes, t)
        /\ Begins(kind, source, offset) /\ offset \in 0..(Len(source) - 1)
        /\ At(source, offset) \notin Blanks
    BY <1>1, <1>4 DEF Yield, Skippable
  <2>2. end \in (offset + 1)..Len(source)
    BY <1>1, <1>4, <2>1, EndInside DEF Yield
  <2>3. kind # "EndOfFile"
    BY DEF LexemeKinds
  <2> HIDE DEF end
  <2>4. t.kind = kind /\ t.offset = offset /\ t.length = end - offset
    BY DEF LexemeAt
  <2> HIDE DEF t
  <2>5. Placed(source, t)
    BY <1>1, <2>1, <2>2, <2>3, <2>4 DEF Placed, IsEof, EndOf
  <2>6. QED
    BY <1>2, <2>1, <2>5
<1>5. CASE LexEnd
  <2> DEFINE t == EndOfFile(source)
  <2>1. source' = source /\ lexemes' = Append(lexemes, t)
    BY <1>5 DEF LexEnd
  <2>2. t.kind = "EndOfFile" /\ t.offset = Len(source) /\ t.length = 0
    BY <1>1 DEF EndOfFile, LexemeAt
  <2> HIDE DEF t
  <2>3. Placed(source, t)
    BY <1>1, <2>2 DEF Placed, IsEof, EndOf
  <2>4. QED
    BY <1>2, <2>1, <2>3
<1>6. QED
  BY <1>3, <1>4, <1>5
     DEF Next, vars, SkipByteOrderMark, SkipBlank, SkipComment, Skip, LexNumber, LexString,
         LexPunctuator, LexName, LexUnknown, LexemeKinds

LEMMA NotAfterReturn ==
    ASSUME NEW s \in Seq(STRING), ~LoneReturn(s), NEW t, Placed(s, t)
    PROVE  ~AfterReturn(s, t.offset)
<1>1. SUFFICES ASSUME AfterReturn(s, t.offset) PROVE FALSE
  OBVIOUS
<1> DEFINE o == t.offset
<1>2. o \in 0..Len(s) /\ Len(s) \in Nat
  BY DEF Placed
<1> HIDE DEF o
<1>3. o > 0 /\ At(s, o - 1) = "CR"
  BY <1>1 DEF AfterReturn, o
<1>4. o - 1 \in 0..(Len(s) - 1) /\ o - 1 + 1 = o
  BY <1>2, <1>3
<1>5. At(s, o) = "LF"
  BY <1>3, <1>4 DEF LoneReturn
<1>6. o < Len(s)
  BY <1>2, <1>5 DEF At, Nul
<1>7. QED
  BY <1>2, <1>5, <1>6 DEF Placed, Blanks, Breaks, o

LEMMA CaretIsUnder ==
    ASSUME NEW s \in Seq(STRING), ~LoneReturn(s), NEW t, Placed(s, t)
    PROVE  LET line == SourceLine(s, LineColumn(s, t.offset).line)
               carets == Carets(s, t)
               begin == Max({0} \cup {q + 1 : q \in LineFeeds(s, t.offset)})
               broken == \E q \in t.offset..(EndOf(t) - 1) : At(s, q) \in Breaks
           IN  /\ carets.column \in 1..(Len(line) + 1)
               /\ SubSeq(line, 1, carets.column - 1) = SubSeq(s, begin + 1, t.offset)
               /\ ~IsEof(t) => At(line, carets.column - 1) = At(s, t.offset)
               /\ ~IsEof(t) /\ ~broken => carets.column + carets.length - 1 <= Len(line)
<1> DEFINE o == t.offset
           b == LineBegin(s, o)
           e == LineEnd(s, b)
           k == Trailing(s, b)
           line == SourceLine(s, LineColumn(s, o).line)
           carets == Carets(s, t)
           broken == \E q \in o..(EndOf(t) - 1) : At(s, q) \in Breaks
<1>1. /\ o \in 0..Len(s) /\ o \in Nat /\ Len(s) \in Nat
      /\ EndOf(t) \in o..Len(s) /\ t.length \in Nat /\ EndOf(t) = o + t.length
      /\ ~IsEof(t) => t.length # 0 /\ At(s, o) \notin Blanks
  BY DEF Placed, EndOf
<1>2. Starts(s, o, b) /\ b \in 0..o /\ b \in 0..Len(s)
  BY <1>1, LineBeginStarts DEF Starts
<1>3. ~AfterReturn(s, o)
  BY NotAfterReturn
<1>4. LineColumn(s, o) = Place(s, o) /\ ColumnOf(s, o) = o - b + 1
  BY <1>1, <1>3, LineColumnIs DEF ColumnOf
<1>5. line = SubSeq(s, b + 1, e - k)
  BY <1>1, <1>2, <1>4, SourceLineIs
<1>6. carets.column = o - b + 1 /\ carets.length = Max({t.length, 1})
  BY <1>4 DEF Carets, Place
<1>7. /\ e \in b..Len(s) /\ (e = Len(s) \/ At(s, e) = "LF")
      /\ k = IF b < e /\ At(s, e - 1) = "CR" THEN 1 ELSE 0
      /\ \A q \in b..(e - 1) : At(s, q) # "LF"
  BY <1>2, UntilIs DEF LineEnd, Trailing
<1> HIDE DEF o, b, e, k, line, carets
<1>8. o <= e
  <2>1. SUFFICES ASSUME e < o PROVE FALSE
    BY <1>1, <1>7
  <2>2. At(s, e) = "LF" /\ e \in b..(o - 1)
    BY <1>1, <1>2, <1>7, <2>1
  <2>3. QED
    BY <1>2, <2>2 DEF Starts
<1>9. o + k <= e
  <2>1. SUFFICES ASSUME o = e, k = 1 PROVE FALSE
    BY <1>1, <1>7, <1>8
  <2>2. b < o /\ At(s, o - 1) = "CR"
    BY <1>7, <2>1
  <2>3. QED
    BY <1>1, <1>2, <1>3, <2>2 DEF AfterReturn
<1>10. e - k \in b..Len(s) /\ k \in {0, 1}
  BY <1>1, <1>2, <1>7, <1>9
<1>11. /\ Len(line) = e - k - b
       /\ \A i \in 1..(e - k - b) : line[i] = s[b + i]
       /\ line \in Seq(STRING)
  <2>1. SubSeq(s, b + 1, e - k) \in Seq(STRING)
        /\ Len(SubSeq(s, b + 1, e - k)) = e - k - b
        /\ \A i \in 1..(e - k - b) : SubSeq(s, b + 1, e - k)[i] = s[b + i]
    BY <1>1, <1>2, <1>10
  <2>2. QED
    BY <1>5, <2>1
<1>12. carets.column \in 1..(Len(line) + 1)
  BY <1>1, <1>2, <1>6, <1>7, <1>9, <1>10, <1>11
<1>13. SubSeq(line, 1, carets.column - 1) = SubSeq(s, b + 1, o)
  <2>1. carets.column - 1 = o - b /\ o - b \in 0..Len(line) /\ o - b \in Nat
    BY <1>1, <1>2, <1>6, <1>7, <1>9, <1>10, <1>11
  <2>2. SubSeq(line, 1, o - b) = [i \in 1..(o - b) |-> line[i]]
    BY <1>11, <2>1
  <2>3. SubSeq(s, b + 1, o) = [i \in 1..(o - b) |-> s[b + i]]
    BY <1>1, <1>2, <2>1
  <2>4. \A i \in 1..(o - b) : line[i] = s[b + i]
    BY <1>11, <2>1
  <2>5. QED
    BY <2>1, <2>2, <2>3, <2>4
<1>14. ASSUME ~IsEof(t) PROVE At(line, carets.column - 1) = At(s, o)
  <2>1. At(s, o) \notin {"LF", "CR"} /\ o < Len(s)
    BY <1>1, <1>14 DEF Blanks, Breaks
  <2>2. o # e
    BY <1>7, <2>1
  <2>3. ~(o = e - 1 /\ k = 1)
    BY <1>7, <2>1
  <2>4. o - b < Len(line) /\ o - b \in Nat /\ carets.column - 1 = o - b
    BY <1>1, <1>2, <1>6, <1>7, <1>8, <1>10, <1>11, <2>2, <2>3
  <2>5. line[o - b + 1] = s[b + (o - b + 1)] /\ b + (o - b + 1) = o + 1
    BY <1>1, <1>2, <1>11, <2>4
  <2>6. QED
    BY <2>1, <2>4, <2>5 DEF At
<1>15. ASSUME ~IsEof(t), ~broken PROVE carets.column + carets.length - 1 <= Len(line)
  <2>1. \A q \in o..(EndOf(t) - 1) : At(s, q) \notin {"LF", "CR"}
    BY <1>15 DEF Breaks
  <2>2. carets.length = t.length
    <3>1. {t.length, 1} \in SUBSET (0..t.length) /\ {t.length, 1} # {}
      BY <1>1, <1>15
    <3>2. Max({t.length, 1}) \in {t.length, 1} /\ Max({t.length, 1}) >= t.length
      BY <1>1, <3>1, MaxIsMaximum
    <3>3. QED
      BY <1>1, <1>6, <1>15, <3>2
  <2>3. EndOf(t) <= e
    <3>1. SUFFICES ASSUME e < EndOf(t) PROVE FALSE
      BY <1>1, <1>7
    <3>2. At(s, e) = "LF" /\ e \in o..(EndOf(t) - 1)
      BY <1>1, <1>7, <1>8, <3>1
    <3>3. QED
      BY <2>1, <3>2
  <2>4. EndOf(t) <= e - k
    <3>1. SUFFICES ASSUME EndOf(t) = e, k = 1 PROVE FALSE
      BY <1>1, <1>7, <2>3
    <3>2. e - 1 \in o..(EndOf(t) - 1) /\ At(s, e - 1) = "CR"
      BY <1>1, <1>7, <1>15, <3>1
    <3>3. QED
      BY <2>1, <3>2
  <2>5. QED
    BY <1>1, <1>2, <1>6, <1>7, <1>10, <1>11, <2>2, <2>4
<1>16. QED
  BY <1>12, <1>13, <1>14, <1>15 DEF o, b, line, carets, LineBegin

(* Whatever the source, a report about a token shows its line, with the    *)
(* carets below the token.                                                 *)
THEOREM CaretsAlwaysUnder == Spec => []CaretUnderToken
<1>1. Init => AllPlaced
  BY DEF Init, AllPlaced
<1>2. LexInv /\ AllPlaced /\ [Next]_vars => AllPlaced'
  BY PlacedKept
<1>3. LexInv /\ AllPlaced => CaretUnderToken
  <2>1. SUFFICES ASSUME LexInv, AllPlaced, ~LoneReturn(source), NEW i \in 1..Len(lexemes)
                 PROVE  LET t == lexemes[i]
                            line == SourceLine(source, LineColumn(source, t.offset).line)
                            carets == Carets(source, t)
                            begin == Max({0} \cup {q + 1 : q \in LineFeeds(source, t.offset)})
                            broken == \E q \in t.offset..(EndOf(t) - 1) : At(source, q) \in Breaks
                        IN  /\ carets.column \in 1..(Len(line) + 1)
                            /\ SubSeq(line, 1, carets.column - 1) =
                                   SubSeq(source, begin + 1, t.offset)
                            /\ ~IsEof(t) => At(line, carets.column - 1) = At(source, t.offset)
                            /\ ~IsEof(t) /\ ~broken =>
                                   carets.column + carets.length - 1 <= Len(line)
    BY DEF CaretUnderToken
  <2>2. source \in Seq(STRING)
    BY <2>1 DEF LexInv, TypeOK
  <2>3. Placed(source, lexemes[i])
    BY <2>1 DEF AllPlaced
  <2>4. QED
    BY <2>1, <2>2, <2>3, CaretIsUnder
<1>4. QED
  BY <1>1, <1>2, <1>3, LexInvariance, PTL DEF Spec
-----------------------------------------------------------------------------
(* A text that has the n characters from p, and then no more than a space. *)
Copy(x, s, p, n) ==
    /\ s \in Seq(STRING)
    /\ p \in Nat /\ n \in Nat /\ p + n <= Len(s)
    /\ Len(x) \in n..(n + 1)
    /\ \A i \in 0..(n - 1) : At(x, i) = At(s, p + i)
    /\ \A i \in Nat : i >= n => At(x, i) \in {Nul, "SP"}

LEMMA TextIsCopy ==
    ASSUME NEW s \in Seq(STRING), NEW p \in Nat, NEW n \in Nat, p + n <= Len(s)
    PROVE  LET text == SubSeq(s, p + 1, p + n)
           IN  /\ Len(text) = n /\ Copy(text, s, p, n)
               /\ Copy(text \o <<"SP">>, s, p, n)
<1> DEFINE text == SubSeq(s, p + 1, p + n)
           more == text \o <<"SP">>
<1>1. text \in Seq(STRING) /\ Len(text) = n /\ \A i \in 1..n : text[i] = s[p + i]
  OBVIOUS
<1> HIDE DEF text
<1>2. /\ Len(more) = n + 1 /\ more[n + 1] = "SP"
      /\ \A i \in 1..n : more[i] = text[i]
  <2> DEFINE C == STRING \cup {"SP"}
  <2>1. text \in Seq(C) /\ <<"SP">> \in Seq(C)
    BY <1>1
  <2> HIDE DEF C
  <2>2. /\ Len(<<"SP">>) = 1 /\ Len(more) = Len(text) + Len(<<"SP">>)
        /\ \A i \in 1..Len(more) :
              more[i] = IF i <= Len(text) THEN text[i] ELSE <<"SP">>[i - Len(text)]
    BY <2>1, ConcatProperties
  <2>3. n + 1 \in 1..(n + 1) /\ ~(n + 1 <= n) /\ n + 1 - n = 1
        /\ \A i \in 1..n : i \in 1..(n + 1) /\ i <= n
    OBVIOUS
  <2>4. <<"SP">>[1] = "SP"
    OBVIOUS
  <2> HIDE DEF more
  <2>5. QED
    BY <1>1, <2>2, <2>3, <2>4
<1> HIDE DEF more
<1>3. \A i \in 0..(n - 1) : /\ i + 1 \in 1..n /\ i < n /\ i < n + 1 /\ p + i < Len(s)
                            /\ p + (i + 1) = p + i + 1
  OBVIOUS
<1>4. \A i \in 0..(n - 1) : At(text, i) = At(s, p + i) /\ At(more, i) = At(s, p + i)
  BY <1>1, <1>2, <1>3 DEF At
<1>5. \A i \in Nat : i >= n => At(text, i) \in {Nul, "SP"}
  BY <1>1 DEF At
<1>6. ASSUME NEW i \in Nat, i >= n PROVE At(more, i) \in {Nul, "SP"}
  <2>1. CASE i = n
    BY <1>2, <2>1 DEF At
  <2>2. CASE i # n
    BY <1>2, <1>6, <2>2 DEF At
  <2>3. QED
    BY <2>1, <2>2
<1>7. n \in n..(n + 1) /\ n + 1 \in n..(n + 1)
  OBVIOUS
<1>8. Copy(text, s, p, n)
  BY <1>1, <1>4, <1>5, <1>7 DEF Copy
<1>9. Copy(more, s, p, n)
  BY <1>2, <1>4, <1>6, <1>7 DEF Copy
<1>10. QED
  BY <1>1, <1>8, <1>9 DEF text, more

(* What neither a space nor the end can be comes from the source.          *)
LEMMA Copied ==
    ASSUME NEW x, NEW s, NEW p, NEW n, Copy(x, s, p, n), NEW i \in Nat, NEW class,
           Nul \notin class, "SP" \notin class
    PROVE  /\ At(x, i) \in class => i < n /\ At(s, p + i) \in class
           /\ i < n => At(x, i) = At(s, p + i)
           /\ i < n /\ At(s, p + i) \in class => At(x, i) \in class
<1>1. n \in Nat /\ \A k \in 0..(n - 1) : At(x, k) = At(s, p + k)
  BY DEF Copy
<1>2. i >= n => At(x, i) \notin class
  BY DEF Copy
<1>3. i < n => i \in 0..(n - 1)
  BY <1>1
<1>4. QED
  BY <1>1, <1>2, <1>3

LEMMA BeyondIs ==
    ASSUME NEW s, Len(s) \in Nat, NEW p \in 0..Len(s), NEW class
    PROVE  LET q == Beyond(s, p, class)
           IN  /\ q \in p..Len(s)
               /\ q = Len(s) \/ At(s, q) \notin class
               /\ \A r \in p..(q - 1) : At(s, r) \in class
<1> DEFINE S == {q \in p..Len(s) : q = Len(s) \/ At(s, q) \notin class}
           q == Beyond(s, p, class)
<1>1. S \in SUBSET Nat /\ Len(s) \in S
  OBVIOUS
<1>2. q \in S /\ \A r \in S : q <= r
  BY <1>1, MinIsMinimum DEF Beyond
<1> HIDE DEF q
<1>3. q \in p..Len(s) /\ (q = Len(s) \/ At(s, q) \notin class)
  BY <1>2
<1>4. ASSUME NEW r \in p..(q - 1), At(s, r) \notin class PROVE FALSE
  <2>1. r \in p..Len(s) /\ ~(q <= r)
    BY <1>3, <1>4
  <2>2. QED
    BY <1>2, <1>4, <2>1
<1>5. QED
  BY <1>3, <1>4 DEF q

LEMMA BeyondIsOne ==
    ASSUME NEW s, Len(s) \in Nat, NEW p \in 0..Len(s), NEW class, NEW q \in p..Len(s),
           q = Len(s) \/ At(s, q) \notin class, \A r \in p..(q - 1) : At(s, r) \in class
    PROVE  Beyond(s, p, class) = q
<1> DEFINE b == Beyond(s, p, class)
<1>1. /\ b \in p..Len(s) /\ (b = Len(s) \/ At(s, b) \notin class)
      /\ \A r \in p..(b - 1) : At(s, r) \in class
  BY BeyondIs
<1> HIDE DEF b
<1>2. ~(b < q)
  <2>1. SUFFICES ASSUME b < q PROVE FALSE
    OBVIOUS
  <2>2. b \in p..(q - 1) /\ b # Len(s)
    BY <1>1, <2>1
  <2>3. QED
    BY <1>1, <2>2
<1>3. ~(q < b)
  <2>1. SUFFICES ASSUME q < b PROVE FALSE
    OBVIOUS
  <2>2. q \in p..(b - 1) /\ q # Len(s)
    BY <1>1, <2>1
  <2>3. QED
    BY <1>1, <2>2
<1>4. QED
  BY <1>1, <1>2, <1>3 DEF b

(* A run that ends in the text is the same run in the copy.                *)
LEMMA BeyondCopied ==
    ASSUME NEW x, NEW s, NEW p, NEW n, Copy(x, s, p, n), NEW class,
           Nul \notin class, "SP" \notin class, NEW a \in 0..n,
           Beyond(s, p + a, class) <= p + n
    PROVE  Beyond(x, a, class) = Beyond(s, p + a, class) - p
<1> DEFINE q == Beyond(s, p + a, class)
           b == q - p
<1>1. /\ s \in Seq(STRING) /\ Len(s) \in Nat /\ Len(x) \in Nat
      /\ p \in Nat /\ n \in Nat /\ p + n <= Len(s) /\ n <= Len(x)
      /\ p + a \in 0..Len(s) /\ a \in 0..Len(x)
  BY DEF Copy
<1>2. /\ q \in (p + a)..Len(s) /\ (q = Len(s) \/ At(s, q) \notin class)
      /\ \A r \in (p + a)..(q - 1) : At(s, r) \in class
  BY <1>1, BeyondIs
<1>3. q <= p + n
  OBVIOUS
<1> HIDE DEF q
<1>4. b \in a..n /\ b \in a..Len(x) /\ p + b = q /\ b \in Nat
  BY <1>1, <1>2, <1>3
<1>5. ASSUME NEW r \in a..(b - 1) PROVE At(x, r) \in class
  <2>1. p + r \in (p + a)..(q - 1) /\ r \in Nat /\ r < n
    BY <1>1, <1>2, <1>3, <1>4
  <2>2. At(s, p + r) \in class
    BY <1>2, <2>1
  <2>3. QED
    BY <2>1, <2>2, Copied
<1>6. At(x, b) \notin class
  <2>1. SUFFICES ASSUME At(x, b) \in class PROVE FALSE
    OBVIOUS
  <2>2. b < n /\ At(s, p + b) \in class
    BY <1>4, <2>1, Copied
  <2>3. q # Len(s) /\ At(s, q) \in class
    BY <1>1, <1>4, <2>2
  <2>4. QED
    BY <1>2, <2>3
<1> HIDE DEF b
<1>7. Beyond(x, a, class) = b
  BY <1>1, <1>4, <1>5, <1>6, BeyondIsOne
<1>8. QED
  BY <1>7 DEF b, q

LEMMA DigitsAreNoSpace ==
    /\ Nul \notin Digits /\ "SP" \notin Digits
    /\ DigitsOf(Nul) = {} /\ DigitsOf("SP") = {}
    /\ Nul # "SP" /\ Nul # "." /\ Nul # "0"
    /\ \A c : Nul \notin DigitsOf(c) /\ "SP" \notin DigitsOf(c)
BY DEF Digits, OctalDigits, BinaryDigits, HexDigits, DigitsOf, Nul

LEMMA FractionCopied ==
    ASSUME NEW x, NEW s, NEW p, NEW n, Copy(x, s, p, n), NEW a \in 0..n,
           FractionEnd(s, p + a) <= p + n
    PROVE  FractionEnd(x, a) = FractionEnd(s, p + a) - p
<1>1. /\ s \in Seq(STRING) /\ Len(s) \in Nat /\ p \in Nat /\ n \in Nat /\ a \in Nat
      /\ a + 1 \in Nat /\ p + (a + 1) = p + a + 1 /\ p + a + 1 \in Nat
  BY DEF Copy
<1>2. Nul \notin {"."} /\ "SP" \notin {"."} /\ Nul \notin Digits /\ "SP" \notin Digits
  BY DigitsAreNoSpace
<1>3. CASE At(s, p + a) = "." /\ At(s, p + a + 1) \in Digits
  <2>1. p + a + 1 < Len(s)
    BY <1>1, <1>2, <1>3, AtInside
  <2>2. Beyond(s, p + a + 1, Digits) > p + a + 1 /\ Beyond(s, p + a + 1, Digits) \in Nat
    BY <1>1, <1>3, <2>1, BeyondInside
  <2>3. FractionEnd(s, p + a) = Beyond(s, p + a + 1, Digits)
    BY <1>3 DEF FractionEnd
  <2>4. a + 1 < n /\ a < n /\ a + 1 \in 0..n
    BY <1>1, <2>2, <2>3
  <2>5. At(x, a) = "." /\ At(x, a + 1) \in Digits
    BY <1>1, <1>2, <1>3, <2>4, Copied
  <2>6. FractionEnd(x, a) = Beyond(x, a + 1, Digits)
    BY <2>5 DEF FractionEnd
  <2>7. Beyond(x, a + 1, Digits) = Beyond(s, p + (a + 1), Digits) - p
    <3>1. Beyond(s, p + (a + 1), Digits) <= p + n
      BY <1>1, <2>3
    <3>2. QED
      BY <1>2, <2>4, <3>1, BeyondCopied
  <2>8. QED
    BY <1>1, <2>3, <2>6, <2>7
<1>4. CASE ~(At(s, p + a) = "." /\ At(s, p + a + 1) \in Digits)
  <2>1. ~(At(x, a) = "." /\ At(x, a + 1) \in Digits)
    <3>1. SUFFICES ASSUME At(x, a) \in {"."}, At(x, a + 1) \in Digits PROVE FALSE
      OBVIOUS
    <3>2. At(s, p + a) \in {"."}
      BY <1>1, <1>2, <3>1, Copied
    <3>3. At(s, p + (a + 1)) \in Digits
      BY <1>1, <1>2, <3>1, Copied
    <3>4. QED
      BY <1>1, <1>4, <3>2, <3>3
  <2>2. FractionEnd(x, a) = a /\ FractionEnd(s, p + a) = p + a
    BY <1>4, <2>1 DEF FractionEnd
  <2>3. QED
    BY <1>1, <2>2
<1>5. QED
  BY <1>3, <1>4

(* The exponents, without a sign and with one.                             *)
PlainExponent(s, q) == At(s, q) \in {"e", "E"} /\ At(s, q + 1) \in Digits

SignedExponent(s, q) ==
    At(s, q) \in {"e", "E"} /\ At(s, q + 1) \in {"+", "-"} /\ At(s, q + 2) \in Digits

LEMMA ExponentIs ==
    ASSUME NEW s, NEW q
    PROVE  /\ PlainExponent(s, q) => ExponentEnd(s, q) = Beyond(s, q + 2, Digits)
           /\ SignedExponent(s, q) => ExponentEnd(s, q) = Beyond(s, q + 3, Digits)
           /\ ~PlainExponent(s, q) /\ ~SignedExponent(s, q) => ExponentEnd(s, q) = q
<1>1. "+" \notin Digits /\ "-" \notin Digits
  BY DEF Digits, OctalDigits, BinaryDigits
<1>2. QED
  BY <1>1 DEF PlainExponent, SignedExponent, ExponentEnd

LEMMA ExponentCopied ==
    ASSUME NEW x, NEW s, NEW p, NEW n, Copy(x, s, p, n), NEW a \in 0..n,
           ExponentEnd(s, p + a) <= p + n
    PROVE  ExponentEnd(x, a) = ExponentEnd(s, p + a) - p
<1>1. /\ s \in Seq(STRING) /\ Len(s) \in Nat /\ p \in Nat /\ n \in Nat /\ a \in Nat
      /\ a + 1 \in Nat /\ p + (a + 1) = p + a + 1 /\ p + a + 1 \in Nat
      /\ a + 2 \in Nat /\ p + (a + 2) = p + a + 2 /\ p + a + 2 \in Nat
      /\ a + 3 \in Nat /\ p + (a + 3) = p + a + 3 /\ p + a + 3 \in Nat
  BY DEF Copy
<1>2. /\ Nul \notin {"e", "E"} /\ "SP" \notin {"e", "E"}
      /\ Nul \notin {"+", "-"} /\ "SP" \notin {"+", "-"}
      /\ Nul \notin Digits /\ "SP" \notin Digits
  BY DigitsAreNoSpace DEF Nul
<1>3. CASE PlainExponent(s, p + a)
  <2>1. p + a + 1 < Len(s)
    BY <1>1, <1>2, <1>3, AtInside DEF PlainExponent
  <2>2. Beyond(s, p + a + 2, Digits) \in (p + a + 2)..Len(s)
    BY <1>1, <2>1, BeyondInside
  <2>3. ExponentEnd(s, p + a) = Beyond(s, p + a + 2, Digits)
    BY <1>3, ExponentIs
  <2>4. a + 1 < n /\ a < n /\ a + 2 \in 0..n
    BY <1>1, <2>2, <2>3
  <2>5. At(x, a) \in {"e", "E"} /\ At(x, a + 1) \in Digits
    BY <1>1, <1>2, <1>3, <2>4, Copied DEF PlainExponent
  <2>6. ExponentEnd(x, a) = Beyond(x, a + 2, Digits)
    BY <2>5, ExponentIs DEF PlainExponent
  <2>7. Beyond(x, a + 2, Digits) = Beyond(s, p + (a + 2), Digits) - p
    BY <1>1, <1>2, <2>3, <2>4, BeyondCopied
  <2>8. QED
    BY <1>1, <2>3, <2>6, <2>7
<1>4. CASE SignedExponent(s, p + a)
  <2>1. p + a + 2 < Len(s)
    BY <1>1, <1>2, <1>4, AtInside DEF SignedExponent
  <2>2. Beyond(s, p + a + 3, Digits) \in (p + a + 3)..Len(s)
    BY <1>1, <2>1, BeyondInside
  <2>3. ExponentEnd(s, p + a) = Beyond(s, p + a + 3, Digits)
    BY <1>4, ExponentIs
  <2>4. a + 2 < n /\ a + 1 < n /\ a < n /\ a + 3 \in 0..n
    BY <1>1, <2>2, <2>3
  <2>5. At(x, a) \in {"e", "E"}
    BY <1>1, <1>2, <1>4, <2>4, Copied DEF SignedExponent
  <2>6. At(x, a + 1) \in {"+", "-"}
    BY <1>1, <1>2, <1>4, <2>4, Copied DEF SignedExponent
  <2>7. At(x, a + 2) \in Digits
    <3>1. At(s, p + (a + 2)) \in Digits
      BY <1>1, <1>4 DEF SignedExponent
    <3>2. a + 2 \in Nat /\ a + 2 < n
      BY <1>1, <2>4
    <3>3. Nul \notin Digits /\ "SP" \notin Digits
      BY <1>2
    <3>4. QED
      BY <3>1, <3>2, <3>3, Copied
  <2>8. ExponentEnd(x, a) = Beyond(x, a + 3, Digits)
    BY <2>5, <2>6, <2>7, ExponentIs DEF SignedExponent
  <2>9. Beyond(x, a + 3, Digits) = Beyond(s, p + (a + 3), Digits) - p
    BY <1>1, <1>2, <2>3, <2>4, BeyondCopied
  <2>10. QED
    BY <1>1, <2>3, <2>8, <2>9
<1>5. CASE ~PlainExponent(s, p + a) /\ ~SignedExponent(s, p + a)
  <2>1. At(x, a) \in {"e", "E"} => At(s, p + a) \in {"e", "E"}
    BY <1>1, <1>2, Copied
  <2>2. At(x, a + 1) \in Digits => At(s, p + a + 1) \in Digits
    <3>1. At(x, a + 1) \in Digits => At(s, p + (a + 1)) \in Digits
      BY <1>1, <1>2, Copied
    <3>2. QED
      BY <1>1, <3>1
  <2>3. At(x, a + 1) \in {"+", "-"} => At(s, p + a + 1) \in {"+", "-"}
    <3>1. At(x, a + 1) \in {"+", "-"} => At(s, p + (a + 1)) \in {"+", "-"}
      BY <1>1, <1>2, Copied
    <3>2. QED
      BY <1>1, <3>1
  <2>4. At(x, a + 2) \in Digits => At(s, p + a + 2) \in Digits
    <3>1. At(x, a + 2) \in Digits => At(s, p + (a + 2)) \in Digits
      BY <1>1, <1>2, Copied
    <3>2. QED
      BY <1>1, <3>1
  <2>5. ~PlainExponent(x, a) /\ ~SignedExponent(x, a)
    BY <1>5, <2>1, <2>2, <2>3, <2>4 DEF PlainExponent, SignedExponent
  <2>6. ExponentEnd(x, a) = a /\ ExponentEnd(s, p + a) = p + a
    BY <1>5, <2>5, ExponentIs
  <2>7. QED
    BY <1>1, <2>6
<1>6. QED
  BY <1>3, <1>4, <1>5

LEMMA NumberCopied ==
    ASSUME NEW x, NEW s, NEW p, NEW n, Copy(x, s, p, n), n > 0,
           BeginsNumber(s, p), NumberEnd(s, p) = p + n
    PROVE  BeginsNumber(x, 0) /\ NumberEnd(x, 0) = n
<1> DEFINE Prefixed(y, q) == At(y, q) = "0" /\ DigitsOf(At(y, q + 1)) # {}
           Whole(y, q) == Beyond(y, q, Digits)
           Decimal(y, q) == ExponentEnd(y, FractionEnd(y, Whole(y, q)))
           Suffixed(y, q) == Decimal(y, q) > Whole(y, q) /\ At(y, Decimal(y, q)) \in {"f", "F"}
<1>1. /\ s \in Seq(STRING) /\ Len(s) \in Nat /\ p \in Nat /\ n \in Nat /\ p + n <= Len(s)
      /\ p \in 0..Len(s) /\ 0 < n /\ p + 0 = p /\ 0 \in 0..n
  BY DEF Copy
<1>2. /\ Nul \notin Digits /\ "SP" \notin Digits
      /\ Nul \notin {"0"} /\ "SP" \notin {"0"}
      /\ Nul \notin {"."} /\ "SP" \notin {"."}
      /\ Nul \notin {"f", "F"} /\ "SP" \notin {"f", "F"}
  BY DigitsAreNoSpace DEF Nul
<1>3. At(x, 0) = At(s, p)
  <2>1. 0 \in Nat /\ 0 < n
    BY <1>1
  <2>2. At(x, 0) = At(s, p + 0)
    BY <1>2, <2>1, Copied
  <2>3. QED
    BY <1>1, <2>2
<1>4. /\ Prefixed(s, p) => NumberEnd(s, p) = Beyond(s, p + 2, DigitsOf(At(s, p + 1)))
      /\ ~Prefixed(s, p) => NumberEnd(s, p) = IF Suffixed(s, p) THEN Decimal(s, p) + 1
                                              ELSE Decimal(s, p)
  BY DEF NumberEnd
<1>5. /\ Prefixed(x, 0) => NumberEnd(x, 0) = Beyond(x, 2, DigitsOf(At(x, 1)))
      /\ ~Prefixed(x, 0) => NumberEnd(x, 0) = IF Suffixed(x, 0) THEN Decimal(x, 0) + 1
                                              ELSE Decimal(x, 0)
  BY DEF NumberEnd
<1>6. At(x, 1) = At(s, p + 1) \/ (At(x, 1) \in {Nul, "SP"} /\ n = 1)
  BY <1>1 DEF Copy
<1>7. CASE Prefixed(s, p)
  <2>1. At(s, p + 1) # Nul
    BY <1>7, DigitsAreNoSpace
  <2>2. p + 1 < Len(s)
    BY <1>1, <2>1, AtInside
  <2>3. Beyond(s, p + 2, DigitsOf(At(s, p + 1))) \in (p + 2)..Len(s)
    BY <1>1, <2>2, BeyondInside
  <2>4. n >= 2 /\ 2 \in 0..n /\ 1 < n /\ 1 \in Nat
    BY <1>1, <1>4, <1>7, <2>3
  <2>5. At(x, 1) = At(s, p + 1)
    BY <1>6, <2>4
  <2>6. Prefixed(x, 0)
    BY <1>3, <1>7, <2>5
  <2> DEFINE D == DigitsOf(At(s, p + 1))
  <2>7. Nul \notin D /\ "SP" \notin D
    BY DigitsAreNoSpace
  <2>8. Beyond(s, p + 2, D) = p + n
    BY <1>4, <1>7
  <2>9. NumberEnd(x, 0) = Beyond(x, 2, D)
    BY <1>5, <2>5, <2>6
  <2> HIDE DEF D
  <2>10. Beyond(x, 2, D) = Beyond(s, p + 2, D) - p
    BY <1>1, <2>4, <2>7, <2>8, BeyondCopied
  <2>11. NumberEnd(x, 0) = n
    BY <1>1, <2>8, <2>9, <2>10
  <2>12. BeginsNumber(x, 0)
    BY <2>6 DEF BeginsNumber, Digits, OctalDigits, BinaryDigits
  <2>13. QED
    BY <2>11, <2>12
<1>8. CASE ~Prefixed(s, p)
  <2>1. ~Prefixed(x, 0)
    <3>1. SUFFICES ASSUME Prefixed(x, 0) PROVE FALSE
      OBVIOUS
    <3>2. At(x, 1) \notin {Nul, "SP"}
      BY <3>1, DigitsAreNoSpace
    <3>3. QED
      BY <1>3, <1>6, <1>8, <3>1, <3>2
  <2> DEFINE whole == Whole(s, p)
             fraction == FractionEnd(s, whole)
             decimal == ExponentEnd(s, fraction)
  <2>2. decimal = Decimal(s, p)
    OBVIOUS
  <2>3. whole \in p..Len(s)
    BY <1>1, BeyondInside
  <2>4. fraction \in whole..Len(s)
    <3>1. whole \in 0..Len(s)
      BY <1>1, <2>3
    <3>2. QED
      BY <1>1, <3>1, FractionInside
  <2>5. decimal \in fraction..Len(s)
    <3>1. fraction \in 0..Len(s)
      BY <1>1, <2>3, <2>4
    <3>2. QED
      BY <1>1, <3>1, ExponentInside
  <2>6. /\ Suffixed(s, p) => p + n = decimal + 1
        /\ ~Suffixed(s, p) => p + n = decimal
    BY <1>4, <1>8
  <2>7. Suffixed(s, p) <=> decimal > whole /\ At(s, decimal) \in {"f", "F"}
    OBVIOUS
  <2>8. Whole(x, 0) = whole - p
    <3>1. whole <= p + n
      BY <1>1, <2>3, <2>4, <2>5, <2>6
    <3>2. Beyond(s, p + 0, Digits) <= p + n
      BY <1>1, <3>1
    <3>3. Beyond(x, 0, Digits) = Beyond(s, p + 0, Digits) - p
      BY <1>1, <1>2, <3>2, BeyondCopied
    <3>4. QED
      BY <1>1, <3>3
  <2> DEFINE w == whole - p
             f == fraction - p
             d == decimal - p
  <2> HIDE DEF whole
  <2>9. FractionEnd(x, w) = f
    <3>1. w \in 0..n /\ p + w = whole /\ fraction <= p + n
      BY <1>1, <2>3, <2>4, <2>5, <2>6
    <3>2. FractionEnd(s, p + w) = fraction
      BY <3>1
    <3> HIDE DEF w, fraction
    <3>3. FractionEnd(x, w) = FractionEnd(s, p + w) - p
      BY <3>1, <3>2, FractionCopied
    <3>4. QED
      BY <3>2, <3>3
  <2> HIDE DEF fraction
  <2>10. ExponentEnd(x, f) = d
    <3>1. f \in 0..n /\ p + f = fraction /\ decimal <= p + n
      BY <1>1, <2>3, <2>4, <2>5, <2>6
    <3>2. ExponentEnd(s, p + f) = decimal
      BY <3>1
    <3> HIDE DEF f, decimal
    <3>3. ExponentEnd(x, f) = ExponentEnd(s, p + f) - p
      BY <3>1, <3>2, ExponentCopied
    <3>4. QED
      BY <3>2, <3>3
  <2>11. Decimal(x, 0) = d /\ Whole(x, 0) = w
    BY <2>8, <2>9, <2>10
  <2>12. /\ Suffixed(x, 0) <=> d > w /\ At(x, d) \in {"f", "F"}
         /\ NumberEnd(x, 0) = IF Suffixed(x, 0) THEN d + 1 ELSE d
    BY <1>5, <2>1, <2>11
  <2> HIDE DEF decimal
  <2>13. d \in Nat /\ w \in Nat /\ p + d = decimal /\ (d > w <=> decimal > whole)
    BY <1>1, <2>3, <2>4, <2>5
  <2>14. NumberEnd(x, 0) = n
    <3> HIDE DEF Suffixed
    <3>1. CASE Suffixed(s, p)
      <4>1. d < n /\ n = d + 1
        BY <1>1, <2>6, <2>13, <3>1
      <4>2. At(s, p + d) \in {"f", "F"}
        BY <2>7, <2>13, <3>1
      <4> HIDE DEF d
      <4>3. At(x, d) \in {"f", "F"}
        BY <1>2, <2>13, <4>1, <4>2, Copied
      <4>4. Suffixed(x, 0)
        BY <2>7, <2>12, <2>13, <3>1, <4>3
      <4>5. QED
        BY <2>12, <4>1, <4>4
    <3>2. CASE ~Suffixed(s, p)
      <4>1. n = d /\ ~(d < n)
        BY <1>1, <2>6, <2>13, <3>2
      <4> HIDE DEF d
      <4>2. At(x, d) \notin {"f", "F"}
        BY <1>2, <2>13, <4>1, Copied
      <4>3. QED
        BY <2>12, <4>1, <4>2
    <3>3. QED
      BY <3>1, <3>2
  <2>15. BeginsNumber(x, 0)
    <3>1. CASE At(s, p) \in Digits
      BY <1>3, <3>1 DEF BeginsNumber
    <3>2. CASE At(s, p) \notin Digits /\ At(s, p) = "." /\ At(s, p + 1) \in Digits
      <4>1. n # 1
        <5>1. p + 1 < Len(s)
          BY <1>1, <1>2, <3>2, AtInside
        <5>2. Whole(s, p) = p
          <6>1. \A r \in p..(p - 1) : At(s, r) \in Digits
            BY <1>1
          <6>2. p \in p..Len(s)
            BY <1>1
          <6>3. QED
            BY <1>1, <3>2, <6>1, <6>2, BeyondIsOne
        <5>3. fraction = Beyond(s, p + 1, Digits)
          BY <3>2, <5>2 DEF fraction, whole, FractionEnd
        <5>4. p + 1 \in 0..Len(s)
          BY <1>1, <5>1
        <5>5. Beyond(s, p + 1, Digits) > p + 1
          BY <1>1, <3>2, <5>1, <5>4, BeyondInside
        <5>6. QED
          <6>1. fraction > p + 1 /\ fraction \in Nat
            BY <1>1, <2>3, <2>4, <5>3, <5>5
          <6>2. decimal > p + 1 /\ decimal \in Nat
            BY <1>1, <2>5, <6>1
          <6>3. p + n = decimal + 1 \/ p + n = decimal
            BY <2>6
          <6>4. QED
            BY <1>1, <6>2, <6>3
      <4>2. At(x, 1) = At(s, p + 1)
        BY <1>6, <4>1
      <4>3. At(x, 0 + 1) = At(x, 1)
        OBVIOUS
      <4>4. QED
        BY <1>3, <3>2, <4>2, <4>3 DEF BeginsNumber
    <3>3. QED
      BY <3>1, <3>2 DEF BeginsNumber
  <2>16. QED
    BY <2>14, <2>15
<1>9. QED
  BY <1>7, <1>8

LEMMA NamesAreNoSpace == Nul \notin NameChars /\ "SP" \notin NameChars
<1>1. Nul \notin Letters /\ "SP" \notin Letters
  BY ZenonT(30) DEF Letters, Nul
<1>2. Nul \notin HighBytes /\ "SP" \notin HighBytes
  BY DEF HighBytes, Nul
<1>3. QED
  BY <1>1, <1>2, DigitsAreNoSpace, Zenon DEF NameChars, NameStarts

LEMMA NothingTried == PunctuatorsFrom(Nul) = << >> /\ PunctuatorsFrom("SP") = << >>
BY DEF PunctuatorsFrom, Singles, Nul

(* What the code tries for a character ends in no space, like the text.    *)
LEMMA PunctuatorsEnd ==
    ASSUME NEW c, c \notin {Nul, "SP"}
    PROVE  LET tried == PunctuatorsFrom(c)
           IN  \A i \in 1..Len(tried) : /\ Len(tried[i]) \in Nat \ {0}
                                        /\ tried[i][Len(tried[i])] \notin {Nul, "SP"}
<1> DEFINE Ends(t) == Len(t) \in Nat \ {0} /\ t[Len(t)] \notin {Nul, "SP"}
           Good(ts) == \A i \in 1..Len(ts) : Ends(ts[i])
<1>1. /\ Ends(<<c>>) /\ Ends(<<c, c>>) /\ Ends(<<c, "=">>)
  BY DEF Nul
<1>2. /\ Ends(<<c, c, "=">>) /\ Ends(<<c, c, c>>) /\ Ends(<<c, "i", "s">>)
      /\ Ends(<<c, c, c, "=">>)
  BY DEF Nul
<1> HIDE DEF Ends
<1>3. /\ Good(<< >>) /\ Good(<<<<c>>>>)
      /\ Good(<<<<c, "=">>, <<c>>>>) /\ Good(<<<<c, c>>, <<c>>>>)
      /\ Good(<<<<c, c, c>>, <<c>>>>)
  BY <1>1, <1>2, SMTT(20)
<1>4. Good(<<<<c, "i", "s">>, <<c, "=">>, <<c>>>>)
  BY <1>1, <1>2, SMTT(20)
<1>5. Good(<<<<c, "=">>, <<c, c>>, <<c>>>>)
  BY <1>1, SMTT(20)
<1>6. Good(<<<<c, c, "=">>, <<c, c>>, <<c, "=">>, <<c>>>>)
  BY <1>1, <1>2, SMTT(20)
<1>7. Good(<<<<c, c, "=">>, <<c, "=">>, <<c, c>>, <<c>>>>)
  BY <1>1, <1>2, SMTT(20)
<1>8. Good(GtPunctuators(c))
  BY <1>1, <1>2, SMTT(20) DEF GtPunctuators
<1> HIDE DEF Good
<1>9. Good(PunctuatorsFrom(c))
  BY <1>3, <1>4, <1>5, <1>6, <1>7, <1>8 DEF PunctuatorsFrom
<1>10. QED
  BY <1>9 DEF Good, Ends

(* The first character of a copy.                                          *)
LEMMA FirstCopied ==
    ASSUME NEW x, NEW s, NEW p, NEW n, Copy(x, s, p, n), n > 0
    PROVE  At(x, 0) = At(s, p) /\ p \in 0..(Len(s) - 1)
<1>1. /\ s \in Seq(STRING) /\ Len(s) \in Nat /\ p \in Nat /\ n \in Nat /\ p + n <= Len(s)
      /\ 0 \in 0..(n - 1) /\ p + 0 = p
  BY DEF Copy
<1>2. At(x, 0) = At(s, p + 0)
  BY <1>1 DEF Copy
<1>3. QED
  BY <1>1, <1>2

(* Where a number begins in a copy, it begins in the source.               *)
LEMMA NoNumberCopied ==
    ASSUME NEW x, NEW s, NEW p, NEW n, Copy(x, s, p, n), n > 0, ~BeginsNumber(s, p)
    PROVE  ~BeginsNumber(x, 0)
<1>1. At(x, 0) = At(s, p)
  BY FirstCopied
<1>2. 1 \in Nat /\ Nul \notin Digits /\ "SP" \notin Digits
  BY DigitsAreNoSpace
<1>3. At(x, 1) \in Digits => At(s, p + 1) \in Digits
  BY <1>2, Copied
<1>4. At(x, 0 + 1) = At(x, 1)
  OBVIOUS
<1>5. QED
  BY <1>1, <1>3, <1>4 DEF BeginsNumber

LEMMA PunctuatorCopied ==
    ASSUME NEW x, NEW s, NEW p, NEW n, Copy(x, s, p, n), n > 0,
           Begins("Punctuator", s, p), PunctuatorEnd(s, p) = p + n
    PROVE  Begins("Punctuator", x, 0) /\ PunctuatorEnd(x, 0) = n
<1> DEFINE c == At(s, p)
           tried == PunctuatorsFrom(c)
           fit == {i \in 1..Len(tried) : Fits(s, p, tried[i])}
           fitting == {i \in 1..Len(tried) : Fits(x, 0, tried[i])}
           first == Min(fit)
           found == Min(fitting)
<1>1. /\ s \in Seq(STRING) /\ Len(s) \in Nat /\ p \in Nat /\ n \in Nat /\ p + n <= Len(s)
      /\ At(x, 0) = c
  BY FirstCopied DEF Copy
<1>2. ~BeginsNumber(s, p) /\ tried # << >>
  BY DEF Begins
<1>3. Begins("Punctuator", x, 0)
  BY <1>1, <1>2, NoNumberCopied DEF Begins
<1>4. c \notin {Nul, "SP"}
  BY <1>2, NothingTried
<1>5. /\ Len(tried) \in Nat /\ \A i \in 1..Len(tried) : Len(tried[i]) \in Nat
      /\ \A i, j \in 1..Len(tried) : i < j => Len(tried[j]) <= Len(tried[i])
  BY LongestFirst, Zenon
<1>6. \A i \in 1..Len(tried) : /\ Len(tried[i]) \in Nat \ {0}
                               /\ tried[i][Len(tried[i])] \notin {Nul, "SP"}
  BY <1>4, PunctuatorsEnd, Zenon
<1>7. PunctuatorEnd(s, p) = IF fit = {} THEN p ELSE p + Len(tried[Min(fit)])
  BY Zenon DEF PunctuatorEnd
<1>8. PunctuatorEnd(x, 0) = IF fitting = {} THEN 0 ELSE 0 + Len(tried[Min(fitting)])
  BY <1>1, Zenon DEF PunctuatorEnd
<1> HIDE DEF tried, c
<1>9. fit # {} /\ fit \in SUBSET Nat /\ fitting \in SUBSET Nat
  BY <1>1, <1>5, <1>7
<1>10. first \in fit
  BY <1>9, MinIsMinimum
<1>11. p + Len(tried[first]) = p + n
  BY <1>7, <1>9
<1> HIDE DEF first
<1>12. first \in 1..Len(tried) /\ Fits(s, p, tried[first]) /\ Len(tried[first]) = n
  BY <1>1, <1>5, <1>10, <1>11
<1>13. Fits(x, 0, tried[first])
  <2> DEFINE op == tried[first]
  <2>1. Spells(s, p, op) /\ Len(op) = n
    BY <1>12 DEF Fits
  <2> HIDE DEF op
  <2>2. ASSUME NEW i \in 1..Len(op) PROVE At(x, 0 + i - 1) = op[i]
    <3>1. i - 1 \in 0..(n - 1) /\ 0 + i - 1 = i - 1 /\ p + (i - 1) = p + i - 1
      BY <1>1, <2>1
    <3>2. At(x, i - 1) = At(s, p + (i - 1))
      BY <3>1 DEF Copy
    <3>3. At(s, p + i - 1) = op[i]
      BY <2>1 DEF Spells
    <3>4. QED
      BY <3>1, <3>2, <3>3
  <2>3. Spells(x, 0, op)
    BY <2>2 DEF Spells
  <2>4. op = NotIs => At(x, 0 + 3) \notin NameChars
    <3>1. SUFFICES ASSUME op = NotIs PROVE At(x, 3) \notin NameChars
      OBVIOUS
    <3>2. Len(NotIs) = 3
      BY DEF NotIs
    <3>3. n = 3
      BY <2>1, <3>1, <3>2
    <3>4. 3 \in Nat /\ ~(3 < n)
      BY <3>3
    <3>5. QED
      BY <3>4, NamesAreNoSpace, Copied
  <2>5. QED
    BY <2>3, <2>4 DEF Fits, op
<1>14. found \in fitting /\ found <= first
  <2>1. first \in fitting
    BY <1>12, <1>13
  <2>2. QED
    BY <1>9, <2>1, MinIsMinimum
<1>15. PunctuatorEnd(x, 0) = 0 + Len(tried[found])
  BY <1>8, <1>14
<1> HIDE DEF found
<1>16. found \in 1..Len(tried) /\ Fits(x, 0, tried[found])
  BY <1>14
<1>17. n <= Len(tried[found])
  <2>1. CASE found = first
    BY <1>1, <1>12, <2>1
  <2>2. CASE found # first
    <3>1. found < first
      BY <1>5, <1>12, <1>14, <1>16, <2>2
    <3>2. QED
      BY <1>5, <1>12, <1>16, <3>1
  <2>3. QED
    BY <2>1, <2>2
<1>18. Len(tried[found]) <= n
  <2> DEFINE op == tried[found]
             last == Len(op) - 1
  <2>1. Len(op) \in Nat \ {0} /\ op[Len(op)] \notin {Nul, "SP"} /\ Spells(x, 0, op)
    BY <1>6, <1>16 DEF Fits
  <2> HIDE DEF op
  <2>2. Len(op) \in 1..Len(op) /\ 0 + Len(op) - 1 = last /\ last \in Nat
    BY <2>1
  <2>3. At(x, last) = op[Len(op)]
    BY <2>1, <2>2 DEF Spells
  <2>4. ~(last >= n)
    BY <2>1, <2>2, <2>3 DEF Copy
  <2>5. Len(op) <= n
    BY <1>1, <2>1, <2>4
  <2>6. QED
    BY <2>5 DEF op
<1>19. QED
  BY <1>1, <1>3, <1>5, <1>15, <1>16, <1>17, <1>18

LEMMA NameCopied ==
    ASSUME NEW x, NEW s, NEW p, NEW n, Copy(x, s, p, n), n > 0,
           Begins("Name", s, p), EndAt("Name", s, p) = p + n
    PROVE  Begins("Name", x, 0) /\ EndAt("Name", x, 0) = n
<1>1. s \in Seq(STRING) /\ p \in Nat /\ n \in Nat /\ p + 0 = p /\ 0 \in 0..n
  BY DEF Copy
<1>2. At(x, 0) = At(s, p)
  BY FirstCopied
<1>3. Beyond(s, p + 0, NameChars) = p + n /\ p + n <= p + n
  BY <1>1 DEF EndAt
<1>4. Beyond(x, 0, NameChars) = Beyond(s, p + 0, NameChars) - p
  BY <1>1, <1>3, NamesAreNoSpace, BeyondCopied
<1>5. QED
  BY <1>1, <1>2, <1>3, <1>4 DEF Begins, EndAt

LEMMA UnknownCopied ==
    ASSUME NEW x, NEW s, NEW p, NEW n, Copy(x, s, p, n), n > 0,
           Begins("Unknown", s, p), EndAt("Unknown", s, p) = p + n
    PROVE  Begins("Unknown", x, 0) /\ EndAt("Unknown", x, 0) = n
<1>1. p \in Nat /\ n \in Nat /\ At(x, 0) = At(s, p)
  BY FirstCopied DEF Copy
<1>2. ~BeginsNumber(x, 0)
  BY NoNumberCopied DEF Begins
<1>3. n = 1
  BY <1>1 DEF EndAt
<1>4. QED
  BY <1>1, <1>2, <1>3 DEF Begins, EndAt, BeginsString

(* A character is escaped if the backslashes that stand before it, within  *)
(* the string from p, are odd in number.                                   *)
Slashes(s, p, q) == {r \in (p + 1)..q : \A k \in r..(q - 1) : At(s, k) = "BACKSLASH"}

Escaped(s, p, q) == (q - Min(Slashes(s, p, q))) % 2 = 1

LEMMA SlashesBegin ==
    ASSUME NEW s, NEW p \in Nat, NEW q \in Nat, q > p
    PROVE  LET b == Min(Slashes(s, p, q))
           IN  b \in Slashes(s, p, q) /\ b \in (p + 1)..q /\ \A r \in Slashes(s, p, q) : b <= r
<1>1. q \in (p + 1)..q /\ q..(q - 1) = {}
  OBVIOUS
<1>2. q \in Slashes(s, p, q) /\ Slashes(s, p, q) \in SUBSET Nat
  BY <1>1 DEF Slashes
<1>3. /\ Min(Slashes(s, p, q)) \in Slashes(s, p, q)
      /\ \A r \in Slashes(s, p, q) : Min(Slashes(s, p, q)) <= r
  BY <1>2, MinIsMinimum
<1>4. QED
  BY <1>3 DEF Slashes

LEMMA OddOrNot == \A m \in Nat : (m + 1) % 2 = 1 <=> m % 2 # 1
  OBVIOUS

LEMMA EscapedIs ==
    ASSUME NEW s, NEW p \in Nat, NEW q \in Nat, q > p
    PROVE  Escaped(s, p, q) <=>
              q > p + 1 /\ At(s, q - 1) = "BACKSLASH" /\ ~Escaped(s, p, q - 1)
<1> DEFINE b == Min(Slashes(s, p, q))
           a == Min(Slashes(s, p, q - 1))
<1>1. /\ b \in Slashes(s, p, q) /\ b \in (p + 1)..q
      /\ \A r \in Slashes(s, p, q) : b <= r
  BY SlashesBegin, Zenon
<1>2. Escaped(s, p, q) <=> (q - b) % 2 = 1
  BY DEF Escaped
<1>3. Escaped(s, p, q - 1) <=> (q - 1 - a) % 2 = 1
  BY DEF Escaped
<1> HIDE DEF a, b
<1>4. CASE q = p + 1
  <2>1. q - b = 0
    BY <1>1, <1>4
  <2>2. QED
    BY <1>2, <1>4, <2>1
<1>5. CASE q > p + 1 /\ At(s, q - 1) # "BACKSLASH"
  <2>1. ~(b < q)
    <3>1. SUFFICES ASSUME b < q PROVE FALSE
      OBVIOUS
    <3>2. q - 1 \in b..(q - 1)
      BY <1>1, <3>1
    <3>3. \A k \in b..(q - 1) : At(s, k) = "BACKSLASH"
      BY <1>1 DEF Slashes
    <3>4. QED
      BY <1>5, <3>2, <3>3
  <2>2. q - b = 0
    BY <1>1, <2>1
  <2>3. QED
    BY <1>2, <1>5, <2>2
<1>6. CASE q > p + 1 /\ At(s, q - 1) = "BACKSLASH"
  <2>1. q - 1 \in Nat /\ q - 1 > p /\ p + 1 \in Nat
    BY <1>6
  <2>2. /\ a \in Slashes(s, p, q - 1) /\ a \in (p + 1)..(q - 1)
        /\ \A r \in Slashes(s, p, q - 1) : a <= r
    BY <2>1, SlashesBegin, Zenon DEF a
  <2>3. a \in Slashes(s, p, q)
    <3>1. \A k \in a..(q - 1 - 1) : At(s, k) = "BACKSLASH"
      BY <2>2 DEF Slashes
    <3>2. \A k \in a..(q - 1) : k = q - 1 \/ k \in a..(q - 1 - 1)
      BY <2>2
    <3>3. \A k \in a..(q - 1) : At(s, k) = "BACKSLASH"
      BY <1>6, <3>1, <3>2
    <3>4. a \in (p + 1)..q
      BY <2>2
    <3>5. QED
      BY <3>3, <3>4 DEF Slashes
  <2>4. b <= a
    BY <1>1, <2>3
  <2>5. b \in Slashes(s, p, q - 1)
    <3>1. \A k \in b..(q - 1 - 1) : k \in b..(q - 1)
      BY <1>1
    <3>2. \A k \in b..(q - 1 - 1) : At(s, k) = "BACKSLASH"
      BY <1>1, <3>1 DEF Slashes
    <3>3. b \in (p + 1)..(q - 1)
      BY <1>1, <2>2, <2>4
    <3>4. QED
      BY <3>2, <3>3 DEF Slashes
  <2>6. a = b
    BY <1>1, <2>2, <2>4, <2>5
  <2>7. q - 1 - a \in Nat /\ q - b = (q - 1 - a) + 1
    BY <1>1, <2>2, <2>6
  <2>8. (q - b) % 2 = 1 <=> (q - 1 - a) % 2 # 1
    BY <2>7, OddOrNot
  <2>9. QED
    BY <1>2, <1>3, <1>6, <2>8
<1>7. QED
  BY <1>4, <1>5, <1>6

(* Where a string stops: at its closing quote, at the end of its line or   *)
(* at that of the source.                                                  *)
Stops(s, p) ==
    {q \in (p + 1)..Len(s) :
        \/ q = Len(s)
        \/ At(s, q) \in Breaks
        \/ At(s, q) = At(s, p) /\ ~Escaped(s, p, q)}

LEMMA StringEndIs ==
    ASSUME NEW s, Len(s) \in Nat, NEW p \in 0..(Len(s) - 1), ~Spells(s, p, Heredoc)
    PROVE  LET stop == Min(Stops(s, p))
           IN  /\ StringEnd(s, p) = IF stop < Len(s) /\ At(s, stop) = At(s, p)
                                    THEN stop + 1 ELSE stop
               /\ stop \in Stops(s, p) /\ stop \in (p + 1)..Len(s)
               /\ \A q \in Stops(s, p) : stop <= q
<1> DEFINE D == (p + 1)..Len(s)
           Rule(f) == [q \in D |-> q > p + 1 /\ At(s, q - 1) = "BACKSLASH" /\ ~f[q - 1]]
           closed == [q \in D |-> Escaped(s, p, q)]
           escaping == CHOOSE f : f = Rule(f)
<1>1. ASSUME NEW q \in D PROVE q \in Nat /\ q > p /\ (q > p + 1 => q - 1 \in D)
  OBVIOUS
<1>2. closed = Rule(closed)
  <2>1. ASSUME NEW q \in D
        PROVE  Escaped(s, p, q) = (/\ q > p + 1 /\ At(s, q - 1) = "BACKSLASH"
                                   /\ ~closed[q - 1])
    <3>1. Escaped(s, p, q) <=>
              q > p + 1 /\ At(s, q - 1) = "BACKSLASH" /\ ~Escaped(s, p, q - 1)
      BY <1>1, EscapedIs
    <3>2. q > p + 1 => closed[q - 1] = Escaped(s, p, q - 1)
      BY <1>1
    <3>3. Escaped(s, p, q) \in BOOLEAN
      BY DEF Escaped
    <3> HIDE DEF closed, D
    <3>4. QED
      BY <3>1, <3>2, <3>3
  <2> HIDE DEF D
  <2>2. QED
    BY <2>1, Zenon
<1>3. escaping = Rule(escaping)
  <2> HIDE DEF Rule, closed
  <2>1. QED
    BY <1>2, Zenon
<1>4. StringEnd(s, p) =
         LET stop == Min({q \in D : \/ q = Len(s)
                                    \/ At(s, q) \in Breaks
                                    \/ At(s, q) = At(s, p) /\ ~escaping[q]})
         IN  IF stop < Len(s) /\ At(s, stop) = At(s, p) THEN stop + 1 ELSE stop
  BY Zenon DEF StringEnd
<1> HIDE DEF escaping
<1>5. ASSUME NEW q \in D
      PROVE  escaping[q] <=> q > p + 1 /\ At(s, q - 1) = "BACKSLASH" /\ ~escaping[q - 1]
  <2>1. escaping[q] = Rule(escaping)[q]
    BY <1>3
  <2>2. QED
    BY <2>1
<1> HIDE DEF Rule
<1>6. \A q \in D : escaping[q] <=> Escaped(s, p, q)
  <2> DEFINE Wrong == {q \in D : ~(escaping[q] <=> Escaped(s, p, q))}
  <2>1. SUFFICES ASSUME Wrong # {} PROVE FALSE
    OBVIOUS
  <2>2. Wrong \in SUBSET Nat
    BY <1>1
  <2> DEFINE least == Min(Wrong)
  <2>3. least \in Wrong /\ \A y \in Wrong : least <= y
    BY <2>1, <2>2, MinIsMinimum
  <2> HIDE DEF least
  <2>4. PICK q \in D : q = least
    BY <2>3
  <2>5. q - 1 \notin Wrong
    <3>1. ~(q <= q - 1)
      BY <1>1, <2>4
    <3>2. QED
      BY <2>3, <2>4, <3>1
  <2>6. q > p + 1 => (escaping[q - 1] <=> Escaped(s, p, q - 1))
    BY <1>1, <2>5
  <2>7. q \in Nat /\ q > p
    BY <1>1
  <2>8. Escaped(s, p, q) <=>
           q > p + 1 /\ At(s, q - 1) = "BACKSLASH" /\ ~Escaped(s, p, q - 1)
    BY <2>7, EscapedIs
  <2>9. escaping[q] <=> Escaped(s, p, q)
    BY <1>5, <2>6, <2>8
  <2>10. QED
    BY <2>3, <2>4, <2>9
<1>7. {q \in D : \/ q = Len(s)
                 \/ At(s, q) \in Breaks
                 \/ At(s, q) = At(s, p) /\ ~escaping[q]} = Stops(s, p)
  BY <1>6 DEF Stops
<1>8. Len(s) \in Stops(s, p) /\ Stops(s, p) \in SUBSET Nat
  BY DEF Stops
<1>9. /\ Min(Stops(s, p)) \in Stops(s, p)
      /\ \A q \in Stops(s, p) : Min(Stops(s, p)) <= q
  BY <1>8, MinIsMinimum
<1>10. Min(Stops(s, p)) \in (p + 1)..Len(s)
  BY <1>9 DEF Stops
<1>11. StringEnd(s, p) =
         LET stop == Min(Stops(s, p))
         IN  IF stop < Len(s) /\ At(s, stop) = At(s, p) THEN stop + 1 ELSE stop
  BY <1>4, <1>7
<1>12. QED
  BY <1>9, <1>10, <1>11

(* A character is escaped in a copy where it is in the source.             *)
LEMMA EscapedCopied ==
    ASSUME NEW x, NEW s, NEW p, NEW n, Copy(x, s, p, n), NEW m \in 1..n
    PROVE  Escaped(x, 0, m) <=> Escaped(s, p, p + m)
<1> DEFINE Wrong == {q \in 1..n : ~(Escaped(x, 0, q) <=> Escaped(s, p, p + q))}
<1>1. n \in Nat /\ p \in Nat
  BY DEF Copy
<1>2. SUFFICES ASSUME Wrong # {} PROVE FALSE
  BY <1>1
<1>3. Wrong \in SUBSET Nat
  BY <1>1
<1> DEFINE least == Min(Wrong)
<1>4. least \in Wrong /\ \A y \in Wrong : least <= y
  BY <1>2, <1>3, MinIsMinimum
<1> HIDE DEF least
<1>5. PICK q \in 1..n : q = least
  BY <1>4
<1>6. q \in Nat /\ q > 0 /\ p + q \in Nat /\ p + q > p /\ 0 \in Nat
  BY <1>1
<1>7. Escaped(x, 0, q) <=> q > 0 + 1 /\ At(x, q - 1) = "BACKSLASH" /\ ~Escaped(x, 0, q - 1)
  BY <1>6, EscapedIs
<1>8. Escaped(s, p, p + q) <=>
         /\ p + q > p + 1 /\ At(s, p + q - 1) = "BACKSLASH"
         /\ ~Escaped(s, p, p + q - 1)
  BY <1>1, <1>6, EscapedIs
<1>9. CASE q > 1
  <2>1. q - 1 \in 1..n /\ ~(q <= q - 1) /\ q - 1 \in 0..(n - 1) /\ p + (q - 1) = p + q - 1
    BY <1>1, <1>9
  <2>2. q - 1 \notin Wrong
    BY <1>4, <1>5, <2>1
  <2>3. Escaped(x, 0, q - 1) <=> Escaped(s, p, p + q - 1)
    BY <2>1, <2>2
  <2>4. At(x, q - 1) = At(s, p + q - 1)
    BY <2>1 DEF Copy
  <2>5. q > 0 + 1 /\ p + q > p + 1
    BY <1>1, <1>9
  <2>6. Escaped(x, 0, q) <=> Escaped(s, p, p + q)
    BY <1>7, <1>8, <2>3, <2>4, <2>5
  <2>7. QED
    BY <1>4, <1>5, <2>6
<1>10. CASE ~(q > 1)
  <2>1. ~(q > 0 + 1) /\ ~(p + q > p + 1)
    BY <1>1, <1>10
  <2>2. Escaped(x, 0, q) <=> Escaped(s, p, p + q)
    BY <1>7, <1>8, <2>1
  <2>3. QED
    BY <1>4, <1>5, <2>2
<1>11. QED
  BY <1>9, <1>10

LEMMA HeredocIsSolid ==
    /\ Len(Heredoc) = 3 /\ IsText(Heredoc)
    /\ \A i \in 1..3 : Heredoc[i] = "QUOTE" /\ Heredoc[i] \notin {Nul, "SP"}
BY DEF Heredoc, IsText, Nul

LEMMA HeredocCopied ==
    ASSUME NEW x, NEW s, NEW p, NEW n, Copy(x, s, p, n), NEW q \in Nat
    PROVE  Spells(x, q, Heredoc) <=> q + 3 <= n /\ Spells(s, p + q, Heredoc)
<1>1. /\ n \in Nat /\ p \in Nat /\ \A k \in 0..(n - 1) : At(x, k) = At(s, p + k)
      /\ \A k \in Nat : k >= n => At(x, k) \in {Nul, "SP"}
  BY DEF Copy
<1>2. \A y, r : Spells(y, r, Heredoc) <=> \A i \in 1..3 : At(y, r + i - 1) = "QUOTE"
  BY HeredocIsSolid DEF Spells
<1>3. /\ \A i \in 1..3 : q + i - 1 \in Nat /\ p + (q + i - 1) = p + q + i - 1
      /\ q + 3 <= n => \A i \in 1..3 : q + i - 1 \in 0..(n - 1)
  BY <1>1
<1>4. ASSUME Spells(x, q, Heredoc) PROVE q + 3 <= n
  <2>1. 3 \in 1..3 /\ q + 3 - 1 \in Nat /\ "QUOTE" \notin {Nul, "SP"}
    BY DEF Nul
  <2>2. At(x, q + 3 - 1) = "QUOTE"
    BY <1>2, <1>4, <2>1
  <2>3. ~(q + 3 - 1 >= n)
    BY <1>1, <2>1, <2>2
  <2>4. QED
    BY <1>1, <2>3
<1>5. ASSUME q + 3 <= n PROVE Spells(x, q, Heredoc) <=> Spells(s, p + q, Heredoc)
  <2>1. \A i \in 1..3 : At(x, q + i - 1) = At(s, p + q + i - 1)
    <3> TAKE i \in 1..3
    <3>1. q + i - 1 \in 0..(n - 1)
      BY <1>3, <1>5
    <3>2. At(x, q + i - 1) = At(s, p + (q + i - 1))
      BY <1>1, <3>1
    <3>3. QED
      BY <1>3, <3>2
  <2>2. QED
    BY <1>2, <2>1
<1>6. QED
  BY <1>4, <1>5

LEMMA HeredocEndCopied ==
    ASSUME NEW x, NEW s, NEW p, NEW n, Copy(x, s, p, n), n >= 3,
           Past(s, p + 3, Heredoc) = p + n, p + n = Len(s) => Len(x) = n
    PROVE  Past(x, 3, Heredoc) = n
<1> DEFINE ends == {q \in (p + 3)..Len(s) : Spells(s, q, Heredoc)}
           found == {q \in 3..Len(x) : Spells(x, q, Heredoc)}
<1>1. /\ s \in Seq(STRING) /\ Len(s) \in Nat /\ p \in Nat /\ n \in Nat /\ p + n <= Len(s)
      /\ Len(x) \in Nat /\ n <= Len(x)
  BY DEF Copy
<1>2. /\ Past(s, p + 3, Heredoc) = IF ends = {} THEN Len(s) ELSE Min(ends) + 3
      /\ Past(x, 3, Heredoc) = IF found = {} THEN Len(x) ELSE Min(found) + 3
  BY HeredocIsSolid DEF Past
<1>3. ends \in SUBSET Nat /\ found \in SUBSET Nat
  BY <1>1
<1>4. ASSUME NEW q \in found PROVE p + q \in ends /\ q + 3 <= n /\ q \in Nat
  <2>1. q \in Nat /\ q >= 3 /\ Spells(x, q, Heredoc)
    BY <1>1
  <2>2. q + 3 <= n /\ Spells(s, p + q, Heredoc)
    BY <2>1, HeredocCopied
  <2>3. p + q \in (p + 3)..Len(s)
    BY <1>1, <2>1, <2>2
  <2>4. QED
    BY <2>1, <2>2, <2>3
<1>5. CASE ends = {}
  <2>1. found = {}
    BY <1>4, <1>5
  <2>2. p + n = Len(s)
    BY <1>2, <1>5
  <2> HIDE DEF ends, found
  <2>3. QED
    BY <1>2, <2>1, <2>2
<1>6. CASE ends # {}
  <2> DEFINE e == Min(ends)
             f == Min(found)
  <2>1. e \in ends /\ (\A q \in ends : e <= q) /\ e + 3 = p + n
    BY <1>2, <1>3, <1>6, MinIsMinimum
  <2> HIDE DEF e
  <2>2. e \in (p + 3)..Len(s) /\ Spells(s, e, Heredoc)
    BY <2>1
  <2>3. n - 3 \in Nat /\ n - 3 + 3 <= n /\ p + (n - 3) = e /\ n - 3 \in 3..Len(x)
    BY <1>1, <2>1, <2>2
  <2>4. Spells(x, n - 3, Heredoc)
    BY <2>2, <2>3, HeredocCopied
  <2>5. n - 3 \in found
    BY <2>3, <2>4
  <2>6. f \in found /\ f <= n - 3
    BY <1>3, <2>5, MinIsMinimum
  <2> HIDE DEF f
  <2>7. p + f \in ends /\ f \in Nat
    BY <1>4, <2>6
  <2>8. e <= p + f
    BY <2>1, <2>7
  <2>9. f = n - 3
    BY <1>1, <2>3, <2>6, <2>7, <2>8
  <2>10. Past(x, 3, Heredoc) = f + 3
    BY <1>2, <2>5 DEF f
  <2>11. QED
    BY <1>1, <2>9, <2>10
<1>7. QED
  BY <1>5, <1>6

(* A string is one in its text alone, and in front of a space unless the   *)
(* line or the source ends in it.                                          *)
LEMMA StringCopied ==
    ASSUME NEW x, NEW s, NEW p, NEW n, Copy(x, s, p, n), n > 0,
           BeginsString(s, p), StringEnd(s, p) = p + n,
           p + n = Len(s) \/ At(s, p + n) \in Breaks => Len(x) = n
    PROVE  BeginsString(x, 0) /\ StringEnd(x, 0) = n
<1>1. /\ s \in Seq(STRING) /\ Len(s) \in Nat /\ p \in Nat /\ n \in Nat /\ p + n <= Len(s)
      /\ Len(x) \in Nat /\ n <= Len(x) /\ p + 0 = p
  BY DEF Copy
<1>2. At(x, 0) = At(s, p) /\ p \in 0..(Len(s) - 1)
  BY FirstCopied
<1>3. BeginsString(x, 0)
  BY <1>2 DEF BeginsString
<1>4. Spells(x, 0, Heredoc) <=> 0 + 3 <= n /\ Spells(s, p, Heredoc)
  BY <1>1, HeredocCopied
<1>5. CASE Spells(s, p, Heredoc)
  <2>1. StringEnd(s, p) = Past(s, p + 3, Heredoc)
    BY <1>5 DEF StringEnd
  <2>2. p + 3 <= Len(s)
    BY <1>1, <1>5, HeredocIsSolid, SpelledInside
  <2>3. Past(s, p + 3, Heredoc) \in (p + 3)..Len(s)
    BY <1>1, <2>2, HeredocIsSolid, PastInside
  <2>4. n >= 3
    BY <1>1, <2>1, <2>3
  <2>5. Past(x, 3, Heredoc) = n
    BY <2>1, <2>4, HeredocEndCopied
  <2>6. Spells(x, 0, Heredoc)
    BY <1>1, <1>4, <1>5, <2>4
  <2>7. StringEnd(x, 0) = Past(x, 0 + 3, Heredoc)
    BY <2>6 DEF StringEnd
  <2>8. QED
    BY <1>3, <2>5, <2>7
<1>6. CASE ~Spells(s, p, Heredoc)
  <2> DEFINE stop == Min(Stops(s, p))
             halt == Min(Stops(x, 0))
  <2>1. /\ StringEnd(s, p) = IF stop < Len(s) /\ At(s, stop) = At(s, p)
                             THEN stop + 1 ELSE stop
        /\ stop \in Stops(s, p) /\ stop \in (p + 1)..Len(s)
        /\ \A q \in Stops(s, p) : stop <= q
    BY <1>1, <1>2, <1>6, StringEndIs
  <2>2. ~Spells(x, 0, Heredoc) /\ 0 \in 0..(Len(x) - 1)
    BY <1>1, <1>4, <1>6
  <2>3. /\ StringEnd(x, 0) = IF halt < Len(x) /\ At(x, halt) = At(x, 0)
                             THEN halt + 1 ELSE halt
        /\ halt \in Stops(x, 0) /\ halt \in (0 + 1)..Len(x)
        /\ \A q \in Stops(x, 0) : halt <= q
    BY <1>1, <2>2, StringEndIs
  <2> HIDE DEF stop, halt
  <2>4. ASSUME NEW q \in 1..(n - 1) PROVE q \in Stops(x, 0) => p + q \in Stops(s, p)
    <3>1. /\ q \in 0..(n - 1) /\ q \in 1..n /\ q # Len(x) /\ p + q \in (p + 1)..Len(s)
      BY <1>1
    <3>2. At(x, q) = At(s, p + q)
      BY <3>1 DEF Copy
    <3>3. Escaped(x, 0, q) <=> Escaped(s, p, p + q)
      BY <3>1, EscapedCopied
    <3>4. QED
      BY <1>2, <3>1, <3>2, <3>3 DEF Stops
  <2>5. ASSUME NEW m \in 1..n, m <= stop - p, halt < m PROVE FALSE
    <3>1. halt \in 1..(n - 1) /\ p + halt < stop
      BY <1>1, <2>1, <2>3, <2>5
    <3>2. p + halt \in Stops(s, p)
      BY <2>3, <2>4, <3>1
    <3>3. stop <= p + halt
      BY <2>1, <3>2
    <3>4. QED
      BY <1>1, <2>1, <2>3, <3>1, <3>3
  <2>6. CASE stop < Len(s) /\ At(s, stop) = At(s, p)
    <3> DEFINE m == stop - p
    <3>1. /\ m \in 1..n /\ m = n - 1 /\ p + m = stop /\ m \in 0..(n - 1)
          /\ m \in (0 + 1)..Len(x) /\ m < Len(x)
      BY <1>1, <2>1, <2>6
    <3>2. At(x, m) = At(s, p + m)
      BY <3>1 DEF Copy
    <3>3. ~Escaped(s, p, stop)
      <4>1. "'" \notin Breaks /\ "QUOTE" \notin Breaks
        BY DEF Breaks
      <4>2. At(s, stop) \notin Breaks
        BY <2>6, <4>1 DEF BeginsString, Quotes
      <4>3. stop # Len(s)
        BY <1>1, <2>1, <2>6
      <4>4. QED
        BY <2>1, <4>2, <4>3 DEF Stops
    <3> HIDE DEF m
    <3>4. ~Escaped(x, 0, m)
      BY <3>1, <3>3, EscapedCopied
    <3>5. m \in Stops(x, 0)
      BY <1>2, <2>6, <3>1, <3>2, <3>4 DEF Stops
    <3>6. halt <= m
      BY <2>3, <3>5
    <3>7. ~(halt < m)
      BY <2>5, <3>1 DEF m
    <3>8. halt = m
      BY <1>1, <2>3, <3>1, <3>6, <3>7
    <3>9. At(x, m) = At(x, 0)
      BY <1>2, <2>6, <3>1, <3>2
    <3>10. QED
      BY <1>1, <1>3, <2>3, <3>1, <3>8, <3>9
  <2>7. CASE ~(stop < Len(s) /\ At(s, stop) = At(s, p))
    <3>1. stop = p + n
      BY <2>1, <2>7
    <3>2. p + n = Len(s) \/ At(s, p + n) \in Breaks
      BY <1>1, <2>1, <2>7, <3>1 DEF Stops
    <3>3. Len(x) = n
      BY <3>2
    <3>4. n \in 1..n /\ n <= stop - p
      BY <1>1, <3>1
    <3>5. ~(halt < n)
      BY <2>5, <3>4
    <3>6. halt = n
      BY <1>1, <2>3, <3>3, <3>5
    <3>7. QED
      BY <1>1, <1>3, <2>3, <3>3, <3>6
  <2>8. QED
    BY <2>6, <2>7
<1>7. QED
  BY <1>5, <1>6

(* Whatever has a token's text, and a space behind it unless the token is  *)
(* a string its line ends in, is lexed as that token.                      *)
LEMMA TokenCopied ==
    ASSUME NEW x, NEW s, NEW p, NEW n, Copy(x, s, p, n), n > 0,
           NEW kind \in LexemeKinds, Begins(kind, s, p), EndAt(kind, s, p) = p + n,
           kind = "String" /\ (p + n = Len(s) \/ At(s, p + n) \in Breaks) => Len(x) = n
    PROVE  LexesTo(kind, x, n)
<1>1. CASE kind = "Number"
  <2>1. BeginsNumber(s, p) /\ NumberEnd(s, p) = p + n
    BY <1>1 DEF Begins, EndAt
  <2>2. BeginsNumber(x, 0) /\ NumberEnd(x, 0) = n
    BY <2>1, NumberCopied
  <2>3. QED
    BY <1>1, <2>2 DEF LexesTo, Begins, EndAt
<1>2. CASE kind = "String"
  <2>1. BeginsString(s, p) /\ StringEnd(s, p) = p + n
    BY <1>2 DEF Begins, EndAt
  <2>2. p + n = Len(s) \/ At(s, p + n) \in Breaks => Len(x) = n
    BY <1>2
  <2>3. BeginsString(x, 0) /\ StringEnd(x, 0) = n
    BY <2>1, <2>2, StringCopied
  <2>4. QED
    BY <1>2, <2>3 DEF LexesTo, Begins, EndAt
<1>3. CASE kind = "Punctuator"
  <2>1. Begins("Punctuator", s, p) /\ PunctuatorEnd(s, p) = p + n
    BY <1>3 DEF EndAt
  <2>2. Begins("Punctuator", x, 0) /\ PunctuatorEnd(x, 0) = n
    BY <2>1, PunctuatorCopied
  <2>3. QED
    BY <1>3, <2>2 DEF LexesTo, EndAt
<1>4. CASE kind = "Name"
  BY <1>4, NameCopied DEF LexesTo
<1>5. CASE kind = "Unknown"
  BY <1>5, UnknownCopied DEF LexesTo
<1>6. QED
  BY <1>1, <1>2, <1>3, <1>4, <1>5 DEF LexemeKinds

(* StandsAlone of one token.                                               *)
AloneIn(s, t) ==
    LET text == SubSeq(s, t.offset + 1, EndOf(t))
        toLineEnd ==
            /\ t.kind = "String"
            /\ EndOf(t) = Len(s) \/ At(s, EndOf(t)) \in Breaks
    IN  ~IsEof(t) =>
          /\ LexesTo(t.kind, text, t.length)
          /\ toLineEnd \/ LexesTo(t.kind, text \o <<"SP">>, t.length)

LEMMA TokenAlone ==
    ASSUME NEW s \in Seq(STRING), NEW p \in 0..(Len(s) - 1),
           NEW kind \in LexemeKinds, Begins(kind, s, p)
    PROVE  AloneIn(s, LexemeAt(kind, s, p, EndAt(kind, s, p)))
<1> DEFINE end == EndAt(kind, s, p)
           n == end - p
           t == LexemeAt(kind, s, p, end)
           text == SubSeq(s, p + 1, p + n)
           toLineEnd == kind = "String" /\ (p + n = Len(s) \/ At(s, p + n) \in Breaks)
<1>1. end \in (p + 1)..Len(s)
  BY EndInside
<1>2. t.kind = kind /\ t.offset = p /\ t.length = n /\ EndOf(t) = p + n
  BY DEF LexemeAt, EndOf
<1>3. EndAt(kind, s, p) = end
  OBVIOUS
<1> HIDE DEF end, t
<1>4. /\ Len(s) \in Nat /\ p \in Nat /\ n \in Nat /\ n > 0 /\ p + n = end
      /\ p + n <= Len(s)
  BY <1>1
<1>5. EndAt(kind, s, p) = p + n
  BY <1>3, <1>4
<1> HIDE DEF n
<1>6. /\ Len(text) = n /\ Copy(text, s, p, n)
      /\ Copy(text \o <<"SP">>, s, p, n)
  BY <1>4, TextIsCopy
<1> HIDE DEF text
<1>7. LexesTo(kind, text, n)
  BY <1>4, <1>5, <1>6, TokenCopied
<1>8. ~toLineEnd => LexesTo(kind, text \o <<"SP">>, n)
  <2>1. SUFFICES ASSUME ~toLineEnd PROVE LexesTo(kind, text \o <<"SP">>, n)
    OBVIOUS
  <2> DEFINE more == text \o <<"SP">>
  <2>2. Copy(more, s, p, n)
    BY <1>6
  <2> HIDE DEF more
  <2>3. LexesTo(kind, more, n)
    BY <1>4, <1>5, <2>1, <2>2, TokenCopied
  <2>4. QED
    BY <2>3 DEF more
<1>9. AloneIn(s, t) <=>
         (~IsEof(t) => /\ LexesTo(kind, text, n)
                       /\ toLineEnd \/ LexesTo(kind, text \o <<"SP">>, n))
  BY <1>2, Zenon DEF AloneIn, text
<1>10. AloneIn(s, t)
  BY <1>7, <1>8, <1>9
<1>11. QED
  BY <1>10 DEF t, end

LEMMA AloneKept ==
    ASSUME LexInv, StandsAlone, [Next]_vars
    PROVE  StandsAlone'
<1> DEFINE AllAlone == \A i \in 1..Len(lexemes) : AloneIn(source, lexemes[i])
<1>1. StandsAlone <=> AllAlone
  BY DEF StandsAlone, AloneIn, Text
<1>2. StandsAlone' <=> AllAlone'
  BY DEF StandsAlone, AloneIn, Text, LexesTo
<1>3. source \in Seq(STRING) /\ lexemes \in Seq(Lexeme) /\ offset \in 0..Len(source)
  BY DEF LexInv, TypeOK
<1>4. \A i \in 1..Len(lexemes) : AloneIn(source, lexemes[i])
  BY <1>1
<1>5. ASSUME NEW t, source' = source, lexemes' = Append(lexemes, t), AloneIn(source, t)
      PROVE  StandsAlone'
  <2>1. \A i \in 1..Len(lexemes') : lexemes'[i] = t \/ \E j \in 1..Len(lexemes) :
                                                          lexemes'[i] = lexemes[j]
    BY <1>3, <1>5
  <2>2. \A i \in 1..Len(lexemes') : AloneIn(source', lexemes'[i])
    BY <1>4, <1>5, <2>1
  <2>3. QED
    BY <1>2, <2>2
<1>6. ASSUME source' = source, lexemes' = lexemes PROVE StandsAlone'
  BY <1>2, <1>4, <1>6
<1>7. ASSUME NEW kind \in LexemeKinds, Yield(kind) PROVE StandsAlone'
  <2> DEFINE t == LexemeAt(kind, source, offset, EndAt(kind, source, offset))
  <2>1. /\ source' = source /\ lexemes' = Append(lexemes, t)
        /\ Begins(kind, source, offset) /\ offset \in 0..(Len(source) - 1)
    BY <1>3, <1>7 DEF Yield
  <2>2. AloneIn(source, t)
    BY <1>3, <2>1, TokenAlone
  <2> HIDE DEF t
  <2>3. QED
    BY <1>5, <2>1, <2>2
<1>8. CASE LexEnd
  <2> DEFINE t == EndOfFile(source)
  <2>1. source' = source /\ lexemes' = Append(lexemes, t)
    BY <1>8 DEF LexEnd
  <2>2. IsEof(t)
    BY DEF EndOfFile, LexemeAt, IsEof
  <2> HIDE DEF t
  <2>3. QED
    BY <1>5, <2>1, <2>2 DEF AloneIn
<1>9. QED
  BY <1>6, <1>7, <1>8
     DEF Next, vars, SkipByteOrderMark, SkipBlank, SkipComment, Skip, LexNumber, LexString,
         LexPunctuator, LexName, LexUnknown, LexemeKinds

(* What Lex yields depends on nothing around it: the text of a token by    *)
(* itself, and in front of a space unless it is a string that its line     *)
(* ends in, is lexed to the same token.                                    *)
THEOREM TokensStandAlone == Spec => []StandsAlone
<1>1. Init => StandsAlone
  BY DEF Init, StandsAlone
<1>2. LexInv /\ StandsAlone /\ [Next]_vars => StandsAlone'
  BY AloneKept
<1>3. QED
  BY <1>1, <1>2, LexInvariance, PTL DEF Spec
=============================================================================
