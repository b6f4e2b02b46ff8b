---------------------------- MODULE Parser_proofs ----------------------------
(***************************************************************************)
(* What is proved about the parse functions of src/parser/parser.cpp, for  *)
(* any source: that ParserInv of ParserInvariant is an invariant of Parser *)
(* (Invariance), and, by it, the five properties of Parser that do not     *)
(* speak of what happens eventually.                                       *)
(*                                                                         *)
(* The invariant is about the call stack.  Each action changes the         *)
(* function on top, calls one or returns from it, so the lemmas come in    *)
(* this order: what is kept in a node and what is marked in todo (KidsOK,  *)
(* MarksOK), splitting a token and passing over metadata, one frame        *)
(* (FrameGoes), the stack (StackGoes, StackCalls, StackReturns), and the   *)
(* actions (TopGoes and the lemmas named after them).  PropertiesOK, which *)
(* ReturnNode needs, is about the function on top alone and comes before   *)
(* the returns.                                                            *)
(***************************************************************************)
EXTENDS ParserInvariant, RuleShapes_proofs, WellFoundedInduction

(* Tokens, and what a function has kept of them.                           *)

LEMMA AtMost == \A x \in Nat, y \in Nat, z \in Nat : x <= y /\ y <= z => x <= z
OBVIOUS

(* Tokens are a sequence, and one is the end of file.                      *)
LEMMA LexedLength ==
    \A ts : WellLexed(ts) => Len(ts) \in Nat \ {0} /\ IsSeq(ts) /\ ts \in Seq(Token_)
<1> SUFFICES ASSUME NEW ts, WellLexed(ts)
             PROVE  Len(ts) \in Nat \ {0} /\ IsSeq(ts) /\ ts \in Seq(Token_)
  OBVIOUS
<1>1. ts \in Seq(Token_) /\ ts # << >>
  BY DEF WellLexed
<1> DEFINE T == Token_
<1>2. ts \in Seq(T)
  BY <1>1
<1> HIDE DEF T
<1>3. IsSeq(ts) /\ Len(ts) \in Nat
  BY <1>2, SeqIsSeq
<1>4. Len(ts) # 0
  BY <1>1, <1>3, EmptyIsSeq
<1>5. QED
  BY <1>1, <1>3, <1>4

(* A token is a token, and it is the last one if it has no text.           *)
LEMMA LexedToken ==
    ASSUME NEW ts, WellLexed(ts), NEW i \in 1..Len(ts)
    PROVE  /\ ts[i] \in Token_ /\ ts[i].offset \in Nat /\ ts[i].length \in Nat
           /\ EndOf(ts[i]) \in Nat /\ ts[i].offset <= EndOf(ts[i])
           /\ "rule" \notin DOMAIN ts[i]
           /\ ts[i].text = "" <=> i = Len(ts)
           /\ ts[i].kind = "EndOfFile" <=> i = Len(ts)
<1>1. ts[i] \in Token_
  <2> DEFINE T == Token_
  <2>1. ts \in Seq(T)
    BY LexedLength
  <2> HIDE DEF T
  <2>2. ts[i] \in T
    BY <2>1
  <2>3. QED
    BY <2>2 DEF T
<1>2. /\ ts[i].text = "" <=> i = Len(ts)
      /\ ts[i].kind = "EndOfFile" <=> i = Len(ts)
  BY DEF WellLexed
<1>3. /\ ts[i].offset \in Nat /\ ts[i].length \in Nat
  BY <1>1 DEF Token_
<1>4. DOMAIN ts[i] = {"text", "kind", "offset", "length"}
  BY <1>1 DEF Token_
<1>5. "rule" \notin DOMAIN ts[i]
  BY <1>4
<1>6. EndOf(ts[i]) \in Nat /\ ts[i].offset <= EndOf(ts[i])
  BY <1>3 DEF EndOf
<1>7. QED
  BY <1>1, <1>2, <1>3, <1>5, <1>6

(* Tokens come in the order of the source.                                 *)
LEMMA LexedOrder ==
    ASSUME NEW ts, WellLexed(ts), NEW i \in 1..Len(ts), NEW j \in 1..Len(ts)
    PROVE  /\ i < j => EndOf(ts[i]) <= ts[j].offset
           /\ i <= j => ts[i].offset <= ts[j].offset /\ EndOf(ts[i]) <= EndOf(ts[j])
<1>1. i < j => EndOf(ts[i]) <= ts[j].offset
  BY DEF WellLexed, EndOf
<1>2. i \in Nat /\ j \in Nat
  BY LexedLength
<1>3. /\ ts[i].offset \in Nat /\ EndOf(ts[i]) \in Nat /\ ts[i].offset <= EndOf(ts[i])
      /\ ts[j].offset \in Nat /\ EndOf(ts[j]) \in Nat /\ ts[j].offset <= EndOf(ts[j])
  BY LexedToken
<1>4. i = j \/ i < j \/ j < i
  BY <1>2
<1>5. QED
  BY <1>1, <1>2, <1>3, <1>4

(* At the end of file no test passes.                                      *)
LEMMA NoWordIsEmpty == "" \notin TestWords
<1>1. "" \notin Punctuation
  BY Zenon DEF Punctuation
<1>2. "" \notin Keywords
  BY DEF Keywords
<1>3. "" \notin PrimTypes \cup ExprPreOps \cup ExprOps \cup AssignOps
  BY DEF PrimTypes, ExprPreOps, ExprOps, AssignOps
<1>4. QED
  BY <1>1, <1>2, <1>3 DEF TestWords

(* No test passes at the end of file.                                      *)
LEMMA PassesInside ==
    ASSUME NEW ts, WellLexed(ts), NEW c \in 0..(Len(ts) - 1), NEW test \in Tests,
           ts[c + 1].text \in test.texts \/ ts[c + 1].kind \in test.kinds
    PROVE  c < Len(ts) - 1 /\ ts[c + 1].kind # "EndOfFile"
<1>1. test.texts \subseteq TestWords /\ "EndOfFile" \notin test.kinds
  BY DEF Tests
<1>2. ts[c + 1].text # "" \/ ts[c + 1].kind # "EndOfFile"
  BY <1>1, NoWordIsEmpty
<1>3. c + 1 \in 1..Len(ts) /\ Len(ts) \in Nat
  BY LexedLength
<1>4. c + 1 # Len(ts) /\ ts[c + 1].kind # "EndOfFile"
  BY <1>2, <1>3, LexedToken
<1>5. c < Len(ts) - 1
  BY <1>3, <1>4
<1>6. QED
  BY <1>4, <1>5

(* The text that has been read ends before the next token, and grows.      *)
LEMMA ReachGrows ==
    ASSUME NEW ts, WellLexed(ts), NEW c \in 0..(Len(ts) - 1), NEW c2 \in c..(Len(ts) - 1)
    PROVE  /\ Reach(ts, c) \in Nat /\ Reach(ts, c2) \in Nat
           /\ Reach(ts, c) <= Reach(ts, c2)
           /\ Reach(ts, c) <= ts[c + 1].offset /\ ts[c + 1].offset <= ts[c2 + 1].offset
           /\ ts[c + 1].offset \in Nat /\ ts[c2 + 1].offset \in Nat
           /\ c < c2 => EndOf(ts[c + 1]) <= Reach(ts, c2)
<1>1. /\ Len(ts) \in Nat /\ c + 1 \in 1..Len(ts) /\ c2 + 1 \in 1..Len(ts)
      /\ c > 0 => c \in 1..Len(ts)
      /\ c2 > 0 => c2 \in 1..Len(ts)
      /\ c \in Nat /\ c2 \in Nat /\ c <= c2
  BY LexedLength
<1>2. Reach(ts, c) \in Nat /\ Reach(ts, c2) \in Nat
  BY <1>1, LexedToken DEF Reach
<1>3. Reach(ts, c) <= Reach(ts, c2)
  <2>1. CASE c > 0
    <3>1. EndOf(ts[c]) <= EndOf(ts[c2])
      BY <1>1, <2>1, LexedOrder
    <3>2. QED
      BY <2>1, <3>1 DEF Reach
  <2>2. CASE c = 0
    <3>1. Reach(ts, c) = 0
      BY <2>2 DEF Reach
    <3>2. QED
      BY <1>2, <3>1
  <2>3. QED
    BY <2>1, <2>2
<1>4. Reach(ts, c) <= ts[c + 1].offset
  <2>1. CASE c > 0
    BY <1>1, <2>1, LexedOrder DEF Reach
  <2>2. CASE c = 0
    <3>1. Reach(ts, c) = 0
      BY <2>2 DEF Reach
    <3>2. ts[c + 1].offset \in Nat
      BY <1>1, LexedToken
    <3>3. QED
      BY <3>1, <3>2
  <2>3. QED
    BY <1>1, <2>1, <2>2
<1>5. ts[c + 1].offset <= ts[c2 + 1].offset /\ ts[c + 1].offset \in Nat /\ ts[c2 + 1].offset \in Nat
  <2>1. ts[c + 1].offset \in Nat /\ ts[c2 + 1].offset \in Nat
    BY <1>1, LexedToken
  <2>2. c + 1 <= c2 + 1
    BY <1>1
  <2>3. ts[c + 1].offset <= ts[c2 + 1].offset
    BY <1>1, <2>2, LexedOrder
  <2>4. QED
    BY <2>1, <2>3
<1>6. c < c2 => EndOf(ts[c + 1]) <= Reach(ts, c2)
  <2>1. c < c2 => c2 > 0 /\ c + 1 <= c2
    BY <1>1
  <2>2. c < c2 => EndOf(ts[c + 1]) <= EndOf(ts[c2])
    BY <1>1, <2>1, LexedOrder
  <2>3. QED
    BY <2>1, <2>2 DEF Reach
<1>7. QED
  BY <1>2, <1>3, <1>4, <1>5, <1>6

(* What a function keeps.                                                  *)
LEMMA NoKids ==
    ASSUME NEW ts, NEW start, NEW c
    PROVE  KidsOK(ts, << >>, start, c)
<1>1. IsSeq(<< >>) /\ Len(<< >>) = 0
  BY EmptyIsSeq
<1>2. QED
  BY <1>1 DEF KidsOK

(* What has been kept stays in order when the cursor goes on.              *)
LEMMA KidsLater ==
    ASSUME NEW ts, WellLexed(ts), NEW c \in 0..(Len(ts) - 1), NEW c2 \in c..(Len(ts) - 1),
           NEW start \in 0..c, NEW kids, KidsOK(ts, kids, start, c)
    PROVE  KidsOK(ts, kids, start, c2)
<1>1. /\ Reach(ts, c) \in Nat /\ Reach(ts, c2) \in Nat /\ Reach(ts, c) <= Reach(ts, c2)
      /\ ts[c + 1].offset \in Nat /\ ts[c2 + 1].offset \in Nat
      /\ ts[c + 1].offset <= ts[c2 + 1].offset
  BY ReachGrows
<1>2. kids # << >> => start < c2
  BY LexedLength DEF KidsOK
<1>3. ASSUME NEW i \in 1..Len(kids)
      PROVE  /\ kids[i].offset <= ts[c2 + 1].offset
             /\ IsEmptyNode(kids[i]) \/ EndOf(kids[i]) <= Reach(ts, c2)
  <2>1. kids[i].offset \in Nat /\ EndOf(kids[i]) \in Nat
    BY DEF KidsOK, KidOK, EndOf
  <2>2. kids[i].offset <= ts[c + 1].offset
    BY DEF KidsOK
  <2>3. IsEmptyNode(kids[i]) \/ EndOf(kids[i]) <= Reach(ts, c)
    BY DEF KidsOK
  <2>4. kids[i].offset <= ts[c2 + 1].offset
    BY <1>1, <2>1, <2>2, AtMost, Zenon
  <2>5. EndOf(kids[i]) <= Reach(ts, c) => EndOf(kids[i]) <= Reach(ts, c2)
    BY <1>1, <2>1
  <2>6. QED
    BY <2>3, <2>4, <2>5
<1>4. QED
  BY <1>2, <1>3 DEF KidsOK

(* What is kept next comes after what has been kept.                       *)
LEMMA KidsWith ==
    ASSUME NEW ts, WellLexed(ts), NEW c \in 0..(Len(ts) - 1), NEW c2 \in c..(Len(ts) - 1),
           NEW start \in 0..c, NEW kids, KidsOK(ts, kids, start, c), start < c2,
           NEW kid, KidOK(kid), ts[c + 1].offset <= kid.offset,
           kid.offset <= ts[c2 + 1].offset,
           IsEmptyNode(kid) \/ EndOf(kid) <= Reach(ts, c2)
    PROVE  KidsOK(ts, Append(kids, kid), start, c2)
<1> DEFINE ks == Append(kids, kid)
           n == Len(kids)
<1>1. KidsOK(ts, kids, start, c2)
  BY KidsLater
<1>2. /\ IsSeq(ks) /\ Len(ks) = n + 1 /\ n \in Nat
      /\ \A i \in 1..n : ks[i] = kids[i]
      /\ ks[n + 1] = kid
  BY AddedSeq, LengthIsNat DEF KidsOK
<1>3. start + 1 \in 1..Len(ts) /\ c + 1 \in 1..Len(ts)
  BY LexedLength
<1>4. ts[start + 1].offset <= ts[c + 1].offset
  BY <1>3, LexedOrder, LexedLength
<1>5. /\ ts[start + 1].offset \in Nat /\ ts[c + 1].offset \in Nat
      /\ kid.offset \in Nat /\ Reach(ts, c) \in Nat /\ Reach(ts, c) <= ts[c + 1].offset
  BY <1>3, LexedToken, ReachGrows DEF KidOK
<1> HIDE DEF ks, n
<1>6. ASSUME NEW i \in 1..Len(ks)
      PROVE  /\ KidOK(ks[i])
             /\ ts[start + 1].offset <= ks[i].offset
             /\ ks[i].offset <= ts[c2 + 1].offset
             /\ IsEmptyNode(ks[i]) \/ EndOf(ks[i]) <= Reach(ts, c2)
  <2>1. CASE i \in 1..n
    BY <1>1, <1>2, <2>1 DEF KidsOK, n
  <2>2. CASE i = n + 1
    BY <1>2, <1>4, <1>5, <2>2, SMTT(20)
  <2>3. QED
    BY <1>2, <2>1, <2>2
<1>7. ASSUME NEW i \in 1..Len(ks), NEW j \in 1..Len(ks), i < j
      PROVE  /\ ks[i].offset <= ks[j].offset
             /\ IsEmptyNode(ks[i]) \/ EndOf(ks[i]) <= ks[j].offset
  <2>1. i \in 1..n
    BY <1>2, <1>7
  <2>2. CASE j \in 1..n
    BY <1>1, <1>2, <1>7, <2>1, <2>2 DEF KidsOK, n
  <2>3. CASE j = n + 1
    <3>1. kids[i].offset \in Nat /\ EndOf(kids[i]) \in Nat
      BY <2>1, SMTT(20) DEF KidsOK, KidOK, EndOf, n
    <3>2. kids[i].offset <= ts[c + 1].offset
      BY <2>1 DEF KidsOK, n
    <3>3. IsEmptyNode(kids[i]) \/ EndOf(kids[i]) <= Reach(ts, c)
      BY <2>1 DEF KidsOK, n
    <3>4. kids[i].offset <= kid.offset
      BY <1>5, <3>1, <3>2, AtMost, Zenon
    <3>5. EndOf(kids[i]) <= Reach(ts, c) => EndOf(kids[i]) <= kid.offset
      BY <1>5, <3>1, SMTT(20)
    <3>6. ks[i] = kids[i] /\ ks[j] = kid
      BY <1>2, <2>1, <2>3
    <3>7. QED
      BY <3>3, <3>4, <3>5, <3>6
  <2>4. QED
    BY <1>2, <2>2, <2>3
<1>8. QED
  BY <1>2, <1>6, <1>7 DEF KidsOK, ks

(* Some of them, in their order.                                           *)
LEMMA KidsOfThem ==
    ASSUME NEW ts, NEW start, NEW c, NEW kids, KidsOK(ts, kids, start, c),
           NEW ks, IsSeq(ks), NEW F,
           \A i \in 1..Len(ks) : F[i] \in 1..Len(kids) /\ ks[i] = kids[F[i]],
           \A i, j \in 1..Len(ks) : i < j => F[i] < F[j]
    PROVE  KidsOK(ts, ks, start, c)
<1>1. ks # << >> => start < c
  <2>1. ks # << >> => 1 \in 1..Len(ks)
    BY EmptyIsSeq, LengthIsNat
  <2>2. kids = << >> => 1..Len(kids) = {}
    BY EmptyIsSeq
  <2>3. ks # << >> => kids # << >>
    BY <2>1, <2>2
  <2>4. QED
    BY <2>3 DEF KidsOK
<1>2. \A i \in 1..Len(ks) :
          /\ KidOK(ks[i]) /\ ts[start + 1].offset <= ks[i].offset
          /\ ks[i].offset <= ts[c + 1].offset
          /\ IsEmptyNode(ks[i]) \/ EndOf(ks[i]) <= Reach(ts, c)
  BY DEF KidsOK
<1>3. \A i, j \in 1..Len(ks) :
          i < j => /\ ks[i].offset <= ks[j].offset
                   /\ IsEmptyNode(ks[i]) \/ EndOf(ks[i]) <= ks[j].offset
  BY DEF KidsOK
<1>4. QED
  BY <1>1, <1>2, <1>3 DEF KidsOK

(* What has been kept is told from tokens only by where they are.          *)
LEMMA KidsElsewhere ==
    ASSUME NEW ts, NEW ts2, NEW start, NEW c, NEW kids, KidsOK(ts, kids, start, c),
           ts2[start + 1].offset = ts[start + 1].offset,
           ts2[c + 1].offset = ts[c + 1].offset, Reach(ts2, c) = Reach(ts, c)
    PROVE  KidsOK(ts2, kids, start, c)
BY DEF KidsOK
-----------------------------------------------------------------------------
(* The marks of the Trys that have been entered.                           *)

(* What a sequence has behind a place, when other things are put before it. *)
LEMMA PartBehind ==
    ASSUME NEW ss, IsSeq(ss), NEW xs, IsSeq(xs), NEW q \in 1..(Len(ss) + 1)
    PROVE  LET n == Len(xs)
               m == Len(ss)
               zs == xs \o SubSeq(ss, q, m)
           IN  /\ IsSeq(zs) /\ m \in Nat /\ n \in Nat /\ q \in Nat /\ q >= 1
               /\ Len(zs) = n + (m - q + 1)
               /\ \A i \in 1..n : zs[i] = xs[i]
               /\ \A p \in 1..Len(zs) : p > n =>
                     /\ q + p - n - 1 \in q..m /\ q + p - n - 1 \in 1..m
                     /\ zs[p] = ss[q + p - n - 1]
                     /\ SubSeq(zs, p + 1, Len(zs)) = SubSeq(ss, q + p - n - 1 + 1, m)
<1> DEFINE m == Len(ss)
           n == Len(xs)
           ps == SubSeq(ss, q, m)
           zs == xs \o ps
<1>1. m \in Nat /\ n \in Nat /\ q \in Nat /\ q >= 1 /\ q <= m + 1 /\ m \in (q - 1)..m
  BY LengthIsNat
<1>2. /\ IsSeq(ps) /\ Len(ps) = m - q + 1
      /\ \A i \in 1..(m - q + 1) : ps[i] = ss[q + i - 1]
  BY <1>1, PartSeq
<1>3. /\ IsSeq(zs) /\ Len(zs) = n + Len(ps)
      /\ \A i \in 1..n : zs[i] = xs[i]
      /\ \A i \in 1..Len(ps) : zs[n + i] = ps[i]
  BY <1>2, JoinedSeq
<1> HIDE DEF zs, n, m, ps
<1>4. Len(zs) = n + (m - q + 1)
  BY <1>2, <1>3
<1>5. ASSUME NEW p \in 1..Len(zs), p > n
      PROVE  q + p - n - 1 \in q..m /\ q + p - n - 1 \in 1..m /\ zs[p] = ss[q + p - n - 1]
  <2>1. q + p - n - 1 \in q..m /\ q + p - n - 1 \in 1..m /\ p - n \in 1..(m - q + 1)
    <3>1. p \in Nat /\ p <= n + (m - q + 1)
      BY <1>1, <1>4
    <3>2. QED
      BY <1>1, <1>5, <3>1
  <2>2. n + (p - n) = p /\ q + (p - n) - 1 = q + p - n - 1
    BY <1>1, <1>4, <1>5
  <2>3. zs[n + (p - n)] = ss[q + (p - n) - 1]
    BY <1>2, <1>3, <2>1
  <2>4. QED
    BY <2>1, <2>2, <2>3
<1>6. ASSUME NEW p \in 1..Len(zs), p > n
      PROVE  SubSeq(zs, p + 1, Len(zs)) = SubSeq(ss, q + p - n - 1 + 1, m)
  <2> DEFINE i == q + p - n - 1
             us == SubSeq(zs, p + 1, Len(zs))
             vs == SubSeq(ss, i + 1, m)
  <2>1. i \in q..m /\ i \in 1..m /\ i \in Nat /\ p \in Nat /\ Len(zs) \in Nat
    BY <1>1, <1>4, <1>5, <1>6
  <2>2. p + 1 \in 1..(Len(zs) + 1) /\ Len(zs) \in (p + 1 - 1)..Len(zs)
    BY <2>1
  <2>3. i + 1 \in 1..(m + 1) /\ m \in (i + 1 - 1)..m
    BY <1>1, <2>1
  <2>4. /\ IsSeq(us) /\ Len(us) = Len(zs) - (p + 1) + 1
        /\ \A k \in 1..(Len(zs) - (p + 1) + 1) : us[k] = zs[p + 1 + k - 1]
    BY <1>3, <2>2, PartSeq
  <2>5. /\ IsSeq(vs) /\ Len(vs) = m - (i + 1) + 1
        /\ \A k \in 1..(m - (i + 1) + 1) : vs[k] = ss[i + 1 + k - 1]
    BY <2>3, PartSeq DEF m
  <2>6. Len(us) = Len(vs)
    BY <1>1, <1>4, <2>1, <2>4, <2>5
  <2> HIDE DEF us, vs
  <2>7. ASSUME NEW k \in 1..Len(us) PROVE us[k] = vs[k]
    <3>1. /\ k \in 1..(Len(zs) - (p + 1) + 1) /\ k \in 1..(m - (i + 1) + 1)
          /\ p + 1 + k - 1 \in 1..Len(zs) /\ p + 1 + k - 1 > n
          /\ q + (p + 1 + k - 1) - n - 1 = i + 1 + k - 1
      BY <1>1, <1>4, <1>6, <2>1, <2>4, <2>5, <2>6
    <3> DEFINE a == p + 1 + k - 1
    <3>2. us[k] = zs[a] /\ vs[k] = ss[i + 1 + k - 1]
      BY <2>4, <2>5, <3>1
    <3> HIDE DEF a
    <3>3. zs[a] = ss[q + a - n - 1]
      BY <1>5, <3>1 DEF a
    <3>4. QED
      BY <3>1, <3>2, <3>3 DEF a
  <2>8. us = vs
    BY <2>4, <2>5, <2>6, <2>7, SameSeq
  <2>9. QED
    BY <2>8 DEF us, vs
<1>7. /\ IsSeq(zs) /\ m \in Nat /\ n \in Nat /\ q \in Nat /\ q >= 1
      /\ Len(zs) = n + (m - q + 1)
      /\ \A i \in 1..n : zs[i] = xs[i]
      /\ \A p \in 1..Len(zs) : p > n =>
            /\ q + p - n - 1 \in q..m /\ q + p - n - 1 \in 1..m
            /\ zs[p] = ss[q + p - n - 1]
            /\ SubSeq(zs, p + 1, Len(zs)) = SubSeq(ss, q + p - n - 1 + 1, m)
  BY <1>1, <1>3, <1>4, <1>5, <1>6
<1>8. QED
  BY <1>7, Zenon DEF zs, n, m, ps

(* The marks behind a place stay good, whatever is put before them.        *)
LEMMA MarksBehind ==
    ASSUME NEW ts, NEW r, NEW start \in Nat, NEW c \in Nat, NEW c2 \in Nat,
           NEW ss, IsSeq(ss), MarksOK(ts, r, start, c, ss),
           NEW xs, IsSeq(xs), \A j \in 1..Len(xs) : xs[j].do # "tried",
           NEW q \in 1..(Len(ss) + 1),
           \A i \in q..Len(ss) : ss[i].do = "tried" => ss[i].at <= c2
    PROVE  MarksOK(ts, r, start, c2, xs \o SubSeq(ss, q, Len(ss)))
<1> DEFINE m == Len(ss)
           n == Len(xs)
           zs == xs \o SubSeq(ss, q, m)
<1>1. /\ IsSeq(zs) /\ m \in Nat /\ n \in Nat /\ q \in Nat /\ q >= 1
      /\ Len(zs) = n + (m - q + 1)
      /\ \A i \in 1..n : zs[i] = xs[i]
      /\ \A p \in 1..Len(zs) : p > n =>
            /\ q + p - n - 1 \in q..m /\ q + p - n - 1 \in 1..m
            /\ zs[p] = ss[q + p - n - 1]
            /\ SubSeq(zs, p + 1, Len(zs)) = SubSeq(ss, q + p - n - 1 + 1, m)
  BY PartBehind, Zenon
<1> HIDE DEF zs, n, m
<1>2. ASSUME NEW p \in 1..Len(zs), zs[p].do = "tried" PROVE p > n
  <2>1. p \in Nat /\ p >= 1
    BY <1>1
  <2>2. ~(p \in 1..n)
    BY <1>1, <1>2 DEF n
  <2>3. QED
    BY <1>1, <2>1, <2>2
<1>3. ASSUME NEW p \in 1..Len(zs), zs[p].do = "tried"
      PROVE  MarkOK(ts, r, start, c2, zs, p)
  <2> DEFINE i == q + p - n - 1
  <2>1. i \in q..m /\ i \in 1..m /\ zs[p] = ss[i]
    BY <1>1, <1>2, <1>3
  <2>2. SubSeq(zs, p + 1, Len(zs)) = SubSeq(ss, i + 1, m)
    BY <1>1, <1>2, <1>3
  <2> HIDE DEF i
  <2>3. MarkOK(ts, r, start, c, ss, i)
    BY <1>3, <2>1 DEF MarksOK, m
  <2>4. ss[i].at <= c2
    BY <1>3, <2>1 DEF m
  <2>5. ss[i].at \in start..c2
    BY <2>3, <2>4 DEF MarkOK
  <2>6. QED
    BY <2>1, <2>2, <2>3, <2>5 DEF MarkOK, m
<1>4. ASSUME NEW p \in 1..Len(zs), NEW p2 \in 1..Len(zs), p < p2,
             zs[p].do = "tried", zs[p2].do = "tried"
      PROVE  zs[p2].at <= zs[p].at
  <2> DEFINE i == q + p - n - 1
             i2 == q + p2 - n - 1
  <2>1. i \in 1..m /\ zs[p] = ss[i] /\ i2 \in 1..m /\ zs[p2] = ss[i2]
    BY <1>1, <1>2, <1>4
  <2>2. i < i2
    BY <1>1, <1>4, SMTT(20)
  <2> HIDE DEF i, i2
  <2>3. QED
    BY <1>4, <2>1, <2>2 DEF MarksOK, m
<1>5. MarksOK(ts, r, start, c2, zs)
  BY <1>3, <1>4 DEF MarksOK
<1>6. QED
  BY <1>5 DEF zs, m

(* The same for the steps after the next one.                              *)
LEMMA TailIsPart ==
    ASSUME NEW ss, IsSeq(ss), ss # << >>
    PROVE  Tail(ss) = SubSeq(ss, 2, Len(ss)) /\ 2 \in 1..(Len(ss) + 1)
<1> DEFINE m == Len(ss)
           vs == SubSeq(ss, 2, m)
<1>1. m \in Nat \ {0}
  BY EmptyIsSeq, LengthIsNat
<1>2. /\ IsSeq(Tail(ss)) /\ Len(Tail(ss)) = m - 1
      /\ \A i \in 1..(m - 1) : Tail(ss)[i] = ss[i + 1]
  BY TailSeq
<1>3. 2 \in 1..(m + 1) /\ m \in (2 - 1)..m
  BY <1>1
<1>4. /\ IsSeq(vs) /\ Len(vs) = m - 2 + 1
      /\ \A i \in 1..(m - 2 + 1) : vs[i] = ss[2 + i - 1]
  BY <1>3, PartSeq
<1> HIDE DEF m, vs
<1>5. Len(vs) = m - 1 /\ m - 2 + 1 = m - 1
  BY <1>1, <1>4
<1>6. ASSUME NEW i \in 1..(m - 1) PROVE Tail(ss)[i] = vs[i]
  <2>1. 2 + i - 1 = i + 1
    BY <1>1
  <2>2. QED
    BY <1>2, <1>4, <1>5, <2>1
<1>7. Tail(ss) = vs
  BY <1>2, <1>4, <1>5, <1>6, SameSeq
<1>8. QED
  BY <1>3, <1>7 DEF m, vs

(* Steps are put in front of the rest.                                     *)
LEMMA MarksAfter ==
    ASSUME NEW ts, NEW r, NEW start \in Nat, NEW c \in Nat, NEW c2 \in Nat, c <= c2,
           NEW ss, IsSeq(ss), ss # << >>, MarksOK(ts, r, start, c, ss),
           NEW xs, IsSeq(xs), \A j \in 1..Len(xs) : xs[j].do # "tried"
    PROVE  MarksOK(ts, r, start, c2, xs \o Tail(ss))
<1>1. ASSUME NEW i \in 2..Len(ss), ss[i].do = "tried" PROVE ss[i].at <= c2
  <2>1. i \in 1..Len(ss)
    BY LengthIsNat
  <2>2. ss[i].at \in start..c
    BY <1>1, <2>1 DEF MarksOK, MarkOK
  <2>3. QED
    BY <2>2
<1>2. Tail(ss) = SubSeq(ss, 2, Len(ss)) /\ 2 \in 1..(Len(ss) + 1)
  BY TailIsPart
<1>3. MarksOK(ts, r, start, c2, xs \o SubSeq(ss, 2, Len(ss)))
  BY <1>1, <1>2, MarksBehind
<1>4. QED
  BY <1>2, <1>3

LEMMA MarksOfTail ==
    ASSUME NEW ts, NEW r, NEW start \in Nat, NEW c \in Nat, NEW c2 \in Nat, c <= c2,
           NEW ss, IsSeq(ss), ss # << >>, MarksOK(ts, r, start, c, ss)
    PROVE  MarksOK(ts, r, start, c2, Tail(ss))
<1> DEFINE xs == << >>
<1>1. IsSeq(xs) /\ Len(xs) = 0
  BY EmptyIsSeq
<1> HIDE DEF xs
<1>2. \A j \in 1..Len(xs) : xs[j].do # "tried"
  BY <1>1
<1>3. MarksOK(ts, r, start, c2, xs \o Tail(ss))
  BY <1>1, <1>2, MarksAfter
<1>4. xs \o Tail(ss) = Tail(ss)
  BY TailSeq, EmptyJoined DEF xs
<1>5. QED
  BY <1>3, <1>4

(* The code of a function has no marks.                                    *)
LEMMA NoMarks ==
    ASSUME NEW ts, NEW r, NEW start, NEW c, NEW ss, \A i \in 1..Len(ss) : ~Mark(ss[i])
    PROVE  MarksOK(ts, r, start, c, ss)
BY DEF MarksOK, Mark

(* A function that goes on keeps its marks.                                *)
LEMMA MarksLater ==
    ASSUME NEW ts, NEW r, NEW start \in Nat, NEW c \in Nat, NEW c2 \in Nat, c <= c2,
           NEW ss, MarksOK(ts, r, start, c, ss)
    PROVE  MarksOK(ts, r, start, c2, ss)
<1>1. ASSUME NEW i \in 1..Len(ss), ss[i].do = "tried" PROVE MarkOK(ts, r, start, c2, ss, i)
  <2>1. MarkOK(ts, r, start, c, ss, i)
    BY <1>1 DEF MarksOK
  <2>2. ss[i].at \in start..c2
    BY <2>1 DEF MarkOK
  <2>3. QED
    BY <2>1, <2>2 DEF MarkOK
<1>2. QED
  BY <1>1 DEF MarksOK

LEMMA WholeSeq ==
    ASSUME NEW s, IsSeq(s)
    PROVE  SubSeq(s, 1, Len(s)) = s /\ 1 \in 1..(Len(s) + 1)
<1> DEFINE n == Len(s)
           t == SubSeq(s, 1, n)
<1>1. n \in Nat /\ 1 \in 1..(n + 1) /\ n \in (1 - 1)..n
  BY LengthIsNat
<1>2. /\ IsSeq(t) /\ Len(t) = n - 1 + 1
      /\ \A i \in 1..(n - 1 + 1) : t[i] = s[1 + i - 1]
  BY <1>1, PartSeq
<1> HIDE DEF t, n
<1>3. Len(t) = n /\ \A i \in 1..n : t[i] = s[i]
  BY <1>1, <1>2
<1>4. t = s
  BY <1>2, <1>3, SameSeq DEF n
<1>5. QED
  BY <1>1, <1>4 DEF t, n

(* Joining sequences is associative; a sequence is its head and its tail.  *)
LEMMA JoinedTwice ==
    ASSUME NEW s, IsSeq(s), NEW t, IsSeq(t), NEW u, IsSeq(u)
    PROVE  (s \o t) \o u = s \o (t \o u)
<1> DEFINE st == s \o t
           tu == t \o u
           a == st \o u
           b == s \o tu
           l == Len(s)
           m == Len(t)
           n == Len(u)
<1>1. l \in Nat /\ m \in Nat /\ n \in Nat
  BY LengthIsNat
<1>2. /\ IsSeq(st) /\ Len(st) = l + m
      /\ \A i \in 1..l : st[i] = s[i]
      /\ \A i \in 1..m : st[l + i] = t[i]
  BY JoinedSeq
<1>3. /\ IsSeq(tu) /\ Len(tu) = m + n
      /\ \A i \in 1..m : tu[i] = t[i]
      /\ \A i \in 1..n : tu[m + i] = u[i]
  BY JoinedSeq
<1>4. /\ IsSeq(a) /\ Len(a) = Len(st) + n
      /\ \A i \in 1..Len(st) : a[i] = st[i]
      /\ \A i \in 1..n : a[Len(st) + i] = u[i]
  BY <1>2, JoinedSeq
<1>5. /\ IsSeq(b) /\ Len(b) = l + Len(tu)
      /\ \A i \in 1..l : b[i] = s[i]
      /\ \A i \in 1..Len(tu) : b[l + i] = tu[i]
  BY <1>3, JoinedSeq
<1> HIDE DEF st, tu, a, b, l, m, n
<1>6. Len(a) = l + m + n /\ Len(b) = l + m + n
  BY <1>1, <1>2, <1>3, <1>4, <1>5
<1>7. ASSUME NEW i \in 1..(l + m + n) PROVE a[i] = b[i]
  <2>1. CASE i \in 1..l
    <3>1. i \in 1..(l + m)
      BY <1>1, <2>1
    <3>2. QED
      BY <1>2, <1>4, <1>5, <2>1, <3>1
  <2>2. CASE i \in (l + 1)..(l + m)
    <3> DEFINE k == i - l
    <3>1. k \in 1..m /\ k \in 1..(m + n) /\ l + k = i
      BY <1>1, <2>2
    <3> HIDE DEF k
    <3>2. i \in 1..(l + m)
      BY <1>1, <2>2
    <3>3. a[i] = t[k]
      BY <1>2, <1>4, <3>1, <3>2
    <3>4. b[i] = t[k]
      BY <1>3, <1>5, <3>1
    <3>5. QED
      BY <3>3, <3>4
  <2>3. CASE i \in (l + m + 1)..(l + m + n)
    <3> DEFINE k == i - (l + m)
    <3>1. k \in 1..n /\ m + k \in 1..(m + n) /\ l + (m + k) = i /\ (l + m) + k = i
      BY <1>1, <2>3
    <3> HIDE DEF k
    <3>2. a[i] = u[k]
      BY <1>2, <1>4, <3>1
    <3>3. b[i] = u[k]
      BY <1>3, <1>5, <3>1
    <3>4. QED
      BY <3>2, <3>3
  <2>4. QED
    BY <1>1, <2>1, <2>2, <2>3
<1>8. a = b
  BY <1>4, <1>5, <1>6, <1>7, SameSeq
<1>9. QED
  BY <1>8, Zenon DEF a, b, st, tu

LEMMA HeadJoined ==
    ASSUME NEW s, IsSeq(s), s # << >>
    PROVE  <<s[1]>> \o Tail(s) = s
<1> DEFINE x == <<s[1]>>
           n == Len(s)
           u == x \o Tail(s)
<1>1. n \in Nat \ {0}
  BY EmptyIsSeq, LengthIsNat
<1>2. IsSeq(x) /\ Len(x) = 1 /\ x[1] = s[1]
  BY OneSeq
<1>3. IsSeq(Tail(s)) /\ Len(Tail(s)) = n - 1 /\ \A i \in 1..(n - 1) : Tail(s)[i] = s[i + 1]
  BY TailSeq
<1>4. /\ IsSeq(u) /\ Len(u) = Len(x) + Len(Tail(s))
      /\ \A i \in 1..Len(x) : u[i] = x[i]
      /\ \A i \in 1..Len(Tail(s)) : u[Len(x) + i] = Tail(s)[i]
  BY <1>2, <1>3, JoinedSeq
<1> HIDE DEF x, n, u
<1>5. Len(u) = n
  BY <1>1, <1>2, <1>3, <1>4
<1>6. ASSUME NEW i \in 1..n PROVE u[i] = s[i]
  <2>1. CASE i = 1
    BY <1>2, <1>4, <2>1
  <2>2. CASE i # 1
    <3> DEFINE k == i - 1
    <3>1. k \in 1..(n - 1) /\ 1 + k = i /\ k + 1 = i
      BY <1>1, <2>2
    <3> HIDE DEF k
    <3>2. QED
      BY <1>2, <1>3, <1>4, <3>1
  <2>3. QED
    BY <2>1, <2>2
<1>7. u = s
  BY <1>4, <1>5, <1>6, SameSeq DEF n
<1>8. QED
  BY <1>7 DEF u, x

LEMMA TailJoined ==
    ASSUME NEW x, NEW s, IsSeq(s)
    PROVE  Tail(<<x>> \o s) = s /\ <<x>> \o s # << >> /\ (<<x>> \o s)[1] = x
<1> DEFINE xs == <<x>>
           u == xs \o s
           n == Len(s)
<1>1. n \in Nat
  BY LengthIsNat
<1>2. IsSeq(xs) /\ Len(xs) = 1 /\ xs[1] = x
  BY OneSeq
<1>3. /\ IsSeq(u) /\ Len(u) = Len(xs) + n
      /\ \A i \in 1..Len(xs) : u[i] = xs[i]
      /\ \A i \in 1..n : u[Len(xs) + i] = s[i]
  BY <1>2, JoinedSeq
<1> HIDE DEF u, xs, n
<1>4. u # << >>
  BY <1>1, <1>2, <1>3, EmptyIsSeq
<1>5. IsSeq(Tail(u)) /\ Len(Tail(u)) = Len(u) - 1 /\ \A i \in 1..(Len(u) - 1) : Tail(u)[i] = u[i + 1]
  BY <1>3, <1>4, TailSeq
<1>6. Len(u) - 1 = n
  BY <1>1, <1>2, <1>3
<1>7. ASSUME NEW i \in 1..n PROVE Tail(u)[i] = s[i]
  <2>1. 1 + i = i + 1
    BY <1>1
  <2>2. QED
    BY <1>2, <1>3, <1>5, <1>6, <2>1
<1>8. Tail(u) = s
  BY <1>5, <1>6, <1>7, SameSeq DEF n
<1>9. u[1] = x
  BY <1>2, <1>3
<1>10. QED
  BY <1>4, <1>8, <1>9 DEF u, xs

(* A Try is entered: its mark is put behind its body.                      *)
LEMMA MarkPut ==
    ASSUME NEW ts, NEW r, NEW start \in Nat, NEW c \in Nat, start <= c,
           NEW ss, IsSeq(ss), ss # << >>, MarksOK(ts, r, start, c, ss),
           NEW body, IsSeq(body), \A j \in 1..Len(body) : ~Mark(body[j]),
           NEW m, m.do = "tried", m.at = c, KidsOK(ts, m.kids, start, c),
           AccessorBegun(r, m.kids), Sound(r, start, c, m.otherwise \o Tail(ss))
    PROVE  MarksOK(ts, r, start, c, (body \o <<m>>) \o Tail(ss))
<1> DEFINE xs == <<m>>
           k == Len(ss)
           zs == xs \o Tail(ss)
<1>1. IsSeq(xs) /\ Len(xs) = 1 /\ xs[1] = m /\ IsSeq(Tail(ss))
  BY OneSeq, TailSeq
<1>2. Tail(ss) = SubSeq(ss, 2, k) /\ 2 \in 1..(k + 1)
  BY TailIsPart
<1>3. /\ IsSeq(zs) /\ k \in Nat /\ Len(zs) = 1 + (k - 2 + 1)
      /\ zs # << >> /\ zs[1] = m /\ Tail(zs) = Tail(ss)
      /\ \A p \in 1..Len(zs) : p > 1 =>
            /\ 2 + p - 1 - 1 \in 2..k /\ 2 + p - 1 - 1 \in 1..k
            /\ zs[p] = ss[2 + p - 1 - 1]
            /\ SubSeq(zs, p + 1, Len(zs)) = SubSeq(ss, 2 + p - 1 - 1 + 1, k)
  <2>1. /\ IsSeq(zs) /\ k \in Nat /\ Len(zs) = Len(xs) + (k - 2 + 1)
        /\ \A p \in 1..Len(zs) : p > Len(xs) =>
              /\ 2 + p - Len(xs) - 1 \in 2..k /\ 2 + p - Len(xs) - 1 \in 1..k
              /\ zs[p] = ss[2 + p - Len(xs) - 1]
              /\ SubSeq(zs, p + 1, Len(zs)) = SubSeq(ss, 2 + p - Len(xs) - 1 + 1, k)
    <3> DEFINE us == xs \o SubSeq(ss, 2, k)
    <3>1. /\ IsSeq(us) /\ k \in Nat /\ Len(xs) \in Nat /\ 2 \in Nat /\ 2 >= 1
          /\ Len(us) = Len(xs) + (k - 2 + 1)
          /\ \A i \in 1..Len(xs) : us[i] = xs[i]
          /\ \A p \in 1..Len(us) : p > Len(xs) =>
                /\ 2 + p - Len(xs) - 1 \in 2..k /\ 2 + p - Len(xs) - 1 \in 1..k
                /\ us[p] = ss[2 + p - Len(xs) - 1]
                /\ SubSeq(us, p + 1, Len(us)) = SubSeq(ss, 2 + p - Len(xs) - 1 + 1, k)
      <4> HIDE DEF xs
      <4>1. QED
        BY <1>1, <1>2, PartBehind, Zenon
    <3>2. us = zs
      BY <1>2
    <3> HIDE DEF us, zs, xs, k
    <3>3. QED
      BY <3>1, <3>2
  <2>2. zs # << >> /\ zs[1] = m /\ Tail(zs) = Tail(ss)
    BY <1>1, TailJoined
  <2> HIDE DEF zs, xs, k
  <2>3. QED
    BY <1>1, <2>1, <2>2
<1> HIDE DEF zs, xs, k
<1>4. ASSUME NEW p \in 1..Len(zs), p # 1
      PROVE  /\ p \in 1..k /\ zs[p] = ss[p]
             /\ SubSeq(zs, p + 1, Len(zs)) = SubSeq(ss, p + 1, k)
  <2>1. p \in Nat /\ p > 1 /\ 2 + p - 1 - 1 = p
    BY <1>3, <1>4
  <2>2. QED
    BY <1>3, <2>1
<1>5. Tail(ss) = SubSeq(zs, 1 + 1, Len(zs))
  <2>1. 1 + 1 = 2
    OBVIOUS
  <2>2. QED
    BY <1>3, <2>1, TailIsPart
<1>6. ASSUME NEW p \in 1..Len(zs), zs[p].do = "tried" PROVE MarkOK(ts, r, start, c, zs, p)
  <2>1. CASE p = 1
    <3>1. m.at \in start..c
      OBVIOUS
    <3>2. MarkOK(ts, r, start, c, zs, 1)
      BY <1>3, <1>5, <3>1 DEF MarkOK
    <3>3. QED
      BY <2>1, <3>2
  <2>2. CASE p # 1
    <3>1. p \in 1..k /\ zs[p] = ss[p] /\ SubSeq(zs, p + 1, Len(zs)) = SubSeq(ss, p + 1, k)
      BY <1>4, <2>2
    <3>2. MarkOK(ts, r, start, c, ss, p)
      BY <1>6, <3>1 DEF MarksOK, k
    <3>3. QED
      BY <3>1, <3>2 DEF MarkOK, k
  <2>3. QED
    BY <2>1, <2>2
<1>7. ASSUME NEW p \in 1..Len(zs), NEW p2 \in 1..Len(zs), p < p2,
             zs[p].do = "tried", zs[p2].do = "tried"
      PROVE  zs[p2].at <= zs[p].at
  <2>1. p2 # 1
    BY <1>3, <1>7
  <2>2. p2 \in 1..k /\ zs[p2] = ss[p2]
    BY <1>4, <2>1
  <2>3. CASE p = 1
    <3>1. ss[p2].at \in start..c
      BY <1>7, <2>2 DEF MarksOK, MarkOK, k
    <3>2. QED
      BY <1>3, <2>2, <2>3, <3>1
  <2>4. CASE p # 1
    <3>1. p \in 1..k /\ zs[p] = ss[p]
      BY <1>4, <2>4
    <3>2. QED
      BY <1>7, <2>2, <3>1 DEF MarksOK, k
  <2>5. QED
    BY <2>3, <2>4
<1>8. MarksOK(ts, r, start, c, zs)
  BY <1>6, <1>7 DEF MarksOK
<1>9. SubSeq(zs, 1, Len(zs)) = zs /\ 1 \in 1..(Len(zs) + 1)
  BY <1>3, WholeSeq
<1>10. ASSUME NEW i \in 1..Len(zs), zs[i].do = "tried" PROVE zs[i].at <= c
  <2>1. zs[i].at \in start..c
    BY <1>6, <1>10 DEF MarkOK
  <2>2. QED
    BY <2>1
<1>11. MarksOK(ts, r, start, c, body \o SubSeq(zs, 1, Len(zs)))
  BY <1>3, <1>8, <1>9, <1>10, MarksBehind DEF Mark
<1>12. (body \o xs) \o Tail(ss) = body \o zs
  <2> DEFINE tl == Tail(ss)
  <2>1. IsSeq(tl)
    BY <1>1
  <2> HIDE DEF tl
  <2>2. (body \o xs) \o tl = body \o (xs \o tl)
    BY <1>1, <2>1, JoinedTwice, SMTT(20)
  <2>3. QED
    BY <2>2 DEF zs, tl
<1>13. QED
  BY <1>9, <1>11, <1>12 DEF xs
-----------------------------------------------------------------------------
(* Where metadata ends, and what comes of a token of '>'s that is split.   *)

(* A set of natural numbers that is not empty has the minimum Min chooses. *)
LEMMA MinIsMinimum ==
    ASSUME NEW S \in SUBSET Nat, S # {}
    PROVE  Min(S) \in S /\ \A y \in S : Min(S) <= y
<1>1. PICK m \in S : \A y \in S : <<y, m>> \notin OpToRel(<, Nat)
  BY WFMin, NatLessThanWellFounded, Zenon
<1>2. \A y \in S : m <= y
  <2>1. \A y \in S : ~(y < m)
    BY <1>1, Zenon DEF OpToRel
  <2>2. QED
    BY <2>1
<1>3. \E x \in S : \A y \in S : x <= y
  BY <1>2
<1>4. QED
  BY <1>3 DEF Min

(* There is a first mark, when there is one.                               *)
LEMMA MarkFound ==
    ASSUME NEW do, IsSeq(Top.todo), NEW j \in 1..Len(Top.todo), Top.todo[j].do = do
    PROVE  /\ FirstMark(do) \in 1..Len(Top.todo) /\ FirstMark(do) <= j
           /\ Top.todo[FirstMark(do)].do = do
<1> DEFINE S == {i \in 1..Len(Top.todo) : Top.todo[i].do = do}
<1>1. S \in SUBSET Nat /\ j \in S
  BY LengthIsNat
<1>2. Min(S) \in S /\ \A y \in S : Min(S) <= y
  BY <1>1, MinIsMinimum
<1> DEFINE m == Min(S)
<1>3. m \in 1..Len(Top.todo) /\ Top.todo[m].do = do /\ m \in Nat
  BY <1>1, <1>2
<1>4. ASSUME NEW k \in 1..(m - 1) PROVE Top.todo[k].do # do
  <2>1. k \in 1..Len(Top.todo) /\ ~(m <= k)
    BY <1>3, LengthIsNat
  <2>2. k \notin S
    BY <1>2, <2>1
  <2>3. QED
    BY <2>1, <2>2
<1> DEFINE Q(i) == Top.todo[i].do = do /\ \A k \in 1..(i - 1) : Top.todo[k].do # do
<1>5. Q(m)
  BY <1>3, <1>4
<1>6. FirstMark(do) = CHOOSE i \in 1..Len(Top.todo) : Q(i)
  BY DEF FirstMark
<1> HIDE DEF m
<1>7. FirstMark(do) \in 1..Len(Top.todo) /\ Q(FirstMark(do))
  <2> HIDE DEF Q
  <2>1. QED
    BY <1>3, <1>5, <1>6
<1>8. FirstMark(do) <= j
  <2>1. ~(j \in 1..(FirstMark(do) - 1))
    BY <1>7
  <2>2. j \in Nat /\ j >= 1 /\ FirstMark(do) \in Nat
    BY <1>7, LengthIsNat
  <2>3. QED
    BY <2>1, <2>2
<1>9. QED
  BY <1>7, <1>8

(* skipMetadata does not go back, nor past the end of file.                *)
LEMMA MetadataInside ==
    ASSUME WellLexed(tokens), cursor \in 0..(Len(tokens) - 1)
    PROVE  AfterMetadata \in cursor..(Len(tokens) - 1)
<1> DEFINE Balanced(i, j) == Count("[", i, j) = Count("]", i, j)
           S == {i \in (cursor + 1)..Len(tokens) :
                    \/ tokens[i].text # "[" /\ Balanced(cursor + 1, i - 1)
                    \/ i = Len(tokens)}
<1>1. AfterMetadata = Min(S) - 1
  BY Zenon DEF AfterMetadata
<1> HIDE DEF Balanced
<1>2. Len(tokens) \in Nat \ {0}
  BY LexedLength
<1>3. S \in SUBSET Nat /\ Len(tokens) \in S
  BY <1>2
<1>4. Min(S) \in S
  BY <1>3, MinIsMinimum
<1>5. Min(S) \in (cursor + 1)..Len(tokens)
  BY <1>4
<1> HIDE DEF S
<1>6. QED
  BY <1>1, <1>2, <1>5

(* The tokens after a token of '>'s was split.                             *)
LEMMA AfterGtIs ==
    ASSUME NEW t \in DOMAIN AfterGt
    PROVE  /\ t # "" /\ t # ">" /\ AfterGt[t] # "" /\ GtWidth(t) \in Nat /\ GtWidth(t) >= 2
           /\ AfterGt[t] \in DOMAIN AfterGt => GtWidth(AfterGt[t]) = GtWidth(t) - 1
           /\ AfterGt[t] \in Words /\ ">" \in Words /\ ">" \notin DOMAIN AfterGt
<1>1. DOMAIN AfterGt = {">>", ">=", ">>=", ">>>", ">>>="}
  BY DEF AfterGt
<1>2. AfterGt[t] \in Words /\ ">" \in Words
  BY WordsAssumption
<1>3. CASE t = ">>"
  <2>1. AfterGt[t] = ">"
    BY <1>3 DEF AfterGt
  <2>2. QED
    BY <1>1, <1>2, <1>3, <2>1 DEF GtWidth
<1>4. CASE t = ">="
  <2>1. AfterGt[t] = "="
    BY <1>4 DEF AfterGt
  <2>2. QED
    BY <1>1, <1>2, <1>4, <2>1 DEF GtWidth
<1>5. CASE t = ">>="
  <2>1. AfterGt[t] = ">="
    BY <1>5 DEF AfterGt
  <2>2. QED
    BY <1>1, <1>2, <1>5, <2>1 DEF GtWidth
<1>6. CASE t = ">>>"
  <2>1. AfterGt[t] = ">>"
    BY <1>6 DEF AfterGt
  <2>2. QED
    BY <1>1, <1>2, <1>6, <2>1 DEF GtWidth
<1>7. CASE t = ">>>="
  <2>1. AfterGt[t] = ">>="
    BY <1>7 DEF AfterGt
  <2>2. QED
    BY <1>1, <1>2, <1>7, <2>1 DEF GtWidth
<1>8. QED
  BY <1>1, <1>3, <1>4, <1>5, <1>6, <1>7

(* A place of a sequence taken by two others.                              *)
SplitAt(ts, c, M) == (SubSeq(ts, 1, c) \o M) \o SubSeq(ts, c + 2, Len(ts))

(* The sequence with two elements in the place of one.                     *)
LEMMA SplitSeq ==
    ASSUME NEW ts, IsSeq(ts), NEW c \in Nat, c + 1 < Len(ts),
           NEW M, IsSeq(M), Len(M) \in 2..2
    PROVE  LET zs == SplitAt(ts, c, M)
           IN  /\ IsSeq(zs) /\ Len(zs) = Len(ts) + 1
               /\ \A i \in 1..c : zs[i] = ts[i]
               /\ zs[c + 1] = M[1] /\ zs[c + 2] = M[2]
               /\ \A i \in (c + 3)..(Len(ts) + 1) : zs[i] = ts[i - 1]
<1> DEFINE n == Len(ts)
           A == SubSeq(ts, 1, c)
           B == SubSeq(ts, c + 2, n)
           AM == A \o M
           zs == AM \o B
<1>1. n \in Nat /\ c \in Nat /\ c + 1 <= n
  BY LengthIsNat
<1>3. c + 1 < n
  OBVIOUS
<1>4. /\ IsSeq(A) /\ Len(A) = c /\ \A i \in 1..c : A[i] = ts[i]
  <2>1. 1 \in 1..(n + 1) /\ c \in (1 - 1)..n
    BY <1>1
  <2>2. /\ IsSeq(A) /\ Len(A) = c - 1 + 1
        /\ \A i \in 1..(c - 1 + 1) : A[i] = ts[1 + i - 1]
    BY <1>1, <2>1, PartSeq
  <2> HIDE DEF A
  <2>3. c - 1 + 1 = c /\ \A i \in 1..c : 1 + i - 1 = i
    BY <1>1
  <2>4. QED
    BY <2>2, <2>3
<1>5. /\ IsSeq(B) /\ Len(B) = n - c - 1
      /\ \A i \in 1..(n - c - 1) : B[i] = ts[c + 1 + i]
  <2>1. c + 2 \in 1..(n + 1) /\ n \in (c + 2 - 1)..n
    BY <1>1, <1>3
  <2>2. /\ IsSeq(B) /\ Len(B) = n - (c + 2) + 1
        /\ \A i \in 1..(n - (c + 2) + 1) : B[i] = ts[c + 2 + i - 1]
    BY <1>1, <2>1, PartSeq
  <2> HIDE DEF B
  <2>3. /\ n - (c + 2) + 1 = n - c - 1
        /\ \A i \in 1..(n - c - 1) : c + 2 + i - 1 = c + 1 + i
    BY <1>1
  <2>4. QED
    BY <2>2, <2>3
<1> HIDE DEF A, B, n, zs
<1>8. /\ IsSeq(AM) /\ Len(AM) = c + 2
      /\ \A i \in 1..c : AM[i] = A[i]
      /\ \A i \in 1..2 : AM[c + i] = M[i]
  <2>1. /\ IsSeq(AM) /\ Len(AM) = Len(A) + Len(M)
        /\ \A i \in 1..Len(A) : AM[i] = A[i]
        /\ \A i \in 1..Len(M) : AM[Len(A) + i] = M[i]
    <3>1. IsSeq(A) /\ IsSeq(M)
      BY <1>4
    <3>2. QED
      BY <3>1, JoinedSeq
  <2> HIDE DEF AM
  <2>2. Len(M) = 2
    OBVIOUS
  <2>3. QED
    BY <1>4, <2>1, <2>2
<1> HIDE DEF AM
<1>9. /\ IsSeq(zs) /\ Len(zs) = Len(AM) + Len(B)
      /\ \A i \in 1..Len(AM) : zs[i] = AM[i]
      /\ \A i \in 1..Len(B) : zs[Len(AM) + i] = B[i]
  <2>1. IsSeq(AM) /\ IsSeq(B)
    BY <1>5, <1>8
  <2>2. QED
    BY <2>1, JoinedSeq DEF zs
<1>10. Len(zs) = n + 1
  BY <1>1, <1>5, <1>8, <1>9
<1>11. ASSUME NEW i \in 1..c PROVE zs[i] = ts[i]
  <2>1. i \in 1..(c + 2)
    BY <1>1
  <2>2. QED
    BY <1>4, <1>8, <1>9, <2>1
<1>12. zs[c + 1] = M[1] /\ zs[c + 2] = M[2]
  <2>1. c + 1 \in 1..(c + 2) /\ c + 2 \in 1..(c + 2) /\ 1 \in 1..2 /\ 2 \in 1..2
    BY <1>1
  <2>2. AM[c + 1] = M[1] /\ AM[c + 2] = M[2]
    BY <1>8, <2>1
  <2>3. QED
    BY <1>8, <1>9, <2>1, <2>2
<1>13. ASSUME NEW i \in (c + 3)..(n + 1) PROVE zs[i] = ts[i - 1]
  <2> DEFINE k == i - c - 2
  <2>1. k \in 1..(n - c - 1) /\ c + 2 + k = i /\ c + 1 + k = i - 1
    BY <1>1
  <2> HIDE DEF k
  <2>2. zs[c + 2 + k] = B[k] /\ B[k] = ts[c + 1 + k]
    BY <1>5, <1>8, <1>9, <2>1
  <2>3. QED
    BY <2>1, <2>2
<1>14. /\ IsSeq(zs) /\ Len(zs) = n + 1
       /\ \A i \in 1..c : zs[i] = ts[i]
       /\ zs[c + 1] = M[1] /\ zs[c + 2] = M[2]
       /\ \A i \in (c + 3)..(n + 1) : zs[i] = ts[i - 1]
  BY <1>9, <1>10, <1>11, <1>12, <1>13
<1>15. QED
  <2>1. zs = SplitAt(ts, c, M)
    BY Zenon DEF zs, AM, A, B, n, SplitAt
  <2>2. QED
    BY <1>14, <2>1 DEF n

(* Split keeps the tokens around the one it splits.                        *)
LEMMA SplitParts ==
    ASSUME WellLexed(tokens), cursor \in 0..(Len(tokens) - 1), Cur.text \in DOMAIN AfterGt
    PROVE  /\ IsSeq(Split) /\ Len(Split) = Len(tokens) + 1 /\ cursor + 1 < Len(tokens)
           /\ \A i \in 1..cursor : Split[i] = tokens[i]
           /\ Split[cursor + 1] = [Cur EXCEPT !.text = ">", !.length = 1]
           /\ Split[cursor + 2] = [Cur EXCEPT !.text = AfterGt[Cur.text], !.offset = @ + 1,
                                              !.length = @ - 1]
           /\ \A i \in (cursor + 3)..(Len(tokens) + 1) : Split[i] = tokens[i - 1]
<1> DEFINE x == [Cur EXCEPT !.text = ">", !.length = 1]
           y == [Cur EXCEPT !.text = AfterGt[Cur.text], !.offset = @ + 1, !.length = @ - 1]
<1>1. Len(tokens) \in Nat /\ cursor \in Nat /\ cursor + 1 <= Len(tokens) /\ IsSeq(tokens)
  BY LexedLength
<1>2. cursor + 1 \in 1..Len(tokens)
  BY <1>1
<1>3. cursor + 1 < Len(tokens)
  <2>1. Cur.text # ""
    BY AfterGtIs
  <2>2. cursor + 1 # Len(tokens)
    BY <1>2, <2>1, LexedToken DEF Cur
  <2>3. QED
    BY <1>1, <2>2
<1> DEFINE M == <<x, y>>
<1>4. Split = SplitAt(tokens, cursor, M)
  BY Zenon DEF Split, SplitAt
<1>5. IsSeq(M) /\ Len(M) = 2 /\ M[1] = x /\ M[2] = y
  <2> HIDE DEF x, y
  <2>1. M \in Seq({x, y})
    OBVIOUS
  <2>2. QED
    BY <2>1, SeqIsSeq
<1> HIDE DEF x, y, M
<1>6. /\ IsSeq(Split) /\ Len(Split) = Len(tokens) + 1
      /\ \A i \in 1..cursor : Split[i] = tokens[i]
      /\ Split[cursor + 1] = M[1] /\ Split[cursor + 2] = M[2]
      /\ \A i \in (cursor + 3)..(Len(tokens) + 1) : Split[i] = tokens[i - 1]
  <2>1. /\ IsSeq(tokens) /\ cursor \in Nat /\ cursor + 1 < Len(tokens)
        /\ IsSeq(M) /\ Len(M) \in 2..2
    BY <1>1, <1>3, <1>5
  <2> DEFINE zs == SplitAt(tokens, cursor, M)
  <2>2. /\ IsSeq(zs) /\ Len(zs) = Len(tokens) + 1
        /\ \A i \in 1..cursor : zs[i] = tokens[i]
        /\ zs[cursor + 1] = M[1] /\ zs[cursor + 2] = M[2]
        /\ \A i \in (cursor + 3)..(Len(tokens) + 1) : zs[i] = tokens[i - 1]
    BY <2>1, SplitSeq
  <2>3. Split = zs
    BY <1>4
  <2> HIDE DEF zs
  <2>4. QED
    BY <2>2, <2>3
<1>7. QED
  BY <1>3, <1>5, <1>6 DEF x, y

(* The token that each token was, or is a part of, before the split.       *)
Was(i) == IF i <= cursor + 1 THEN i ELSE i - 1

(* Each token of Split lies in the token it was.                           *)
LEMMA SplitTokens ==
    ASSUME WellLexed(tokens), cursor \in 0..(Len(tokens) - 1), Cur.text \in DOMAIN AfterGt,
           NEW i \in 1..(Len(tokens) + 1)
    PROVE  /\ Was(i) \in 1..Len(tokens)
           /\ Split[i] \in Token_
           /\ Split[i].kind = "EndOfFile" <=> i = Len(tokens) + 1
           /\ Split[i].length = 0 <=> i = Len(tokens) + 1
           /\ Split[i].text = "" <=> i = Len(tokens) + 1
           /\ Split[i].text \in DOMAIN AfterGt => Split[i].length = GtWidth(Split[i].text)
           /\ tokens[Was(i)].offset <= Split[i].offset
           /\ EndOf(Split[i]) <= EndOf(tokens[Was(i)])
<1> DEFINE n == Len(tokens)
           w == Was(i)
           t == tokens[w]
           s == Split[i]
<1>1. n \in Nat /\ cursor \in Nat /\ cursor + 1 < n
  BY SplitParts, LexedLength
<1>2. (w \in 1..n /\ (i = n + 1 <=> w = n)) \/ i = cursor + 1
  BY <1>1 DEF Was
<1>3. w \in 1..n
  BY <1>1 DEF Was
<1>4. t \in Token_ /\ t.offset \in Nat /\ t.length \in Nat
  BY <1>3, LexedToken
<1>5. /\ t.kind = "EndOfFile" <=> w = n
      /\ t.length = 0 <=> w = n
      /\ t.text = "" <=> w = n
      /\ t.text \in DOMAIN AfterGt => t.length = GtWidth(t.text)
  BY <1>3 DEF WellLexed
<1>6. t = [text |-> t.text, kind |-> t.kind, offset |-> t.offset, length |-> t.length]
  BY <1>4 DEF Token_
<1>7. CASE i \in 1..cursor \/ i \in (cursor + 3)..(n + 1)
  <2>1. s = t
    <3>1. CASE i \in 1..cursor
      <4>1. w = i
        BY <1>1, <3>1 DEF Was
      <4>2. QED
        BY <3>1, <4>1, SplitParts
    <3>2. CASE i \in (cursor + 3)..(n + 1)
      <4>1. w = i - 1
        BY <1>1, <3>2 DEF Was
      <4>2. QED
        BY <3>2, <4>1, SplitParts
    <3>3. QED
      BY <1>7, <3>1, <3>2
  <2>2. i = n + 1 <=> w = n
    BY <1>1, <1>7 DEF Was
  <2>3. EndOf(t) \in Nat
    BY <1>4, SMTT(20) DEF EndOf
  <2> HIDE DEF s, t, w, n
  <2>4. /\ s \in Token_ /\ t.offset <= s.offset /\ EndOf(s) <= EndOf(t)
        /\ s.kind = "EndOfFile" <=> i = n + 1
        /\ s.length = 0 <=> i = n + 1
        /\ s.text = "" <=> i = n + 1
        /\ s.text \in DOMAIN AfterGt => s.length = GtWidth(s.text)
    <3>1. s \in Token_ /\ t.offset <= s.offset
      BY <1>4, <2>1
    <3>2. EndOf(s) <= EndOf(t)
      BY <2>1, <2>3
    <3>3. /\ s.kind = "EndOfFile" <=> i = n + 1
          /\ s.length = 0 <=> i = n + 1
          /\ s.text = "" <=> i = n + 1
          /\ s.text \in DOMAIN AfterGt => s.length = GtWidth(s.text)
      BY <1>5, <2>1, <2>2, Zenon
    <3>4. QED
      BY <3>1, <3>2, <3>3
  <2>5. QED
    BY <1>3, <2>4 DEF s, t, w, n
<1>8. CASE i = cursor + 1 \/ i = cursor + 2
  <2>1. w = cursor + 1 /\ i # n + 1 /\ w # n /\ t = Cur
    BY <1>1, <1>8 DEF Was, Cur
  <2>2. /\ t.text # "" /\ AfterGt[t.text] # "" /\ t.length \in Nat /\ t.length >= 2
        /\ AfterGt[t.text] \in DOMAIN AfterGt => GtWidth(AfterGt[t.text]) = t.length - 1
        /\ AfterGt[t.text] \in Words /\ ">" \in Words /\ ">" \notin DOMAIN AfterGt
    <3>1. t.text \in DOMAIN AfterGt
      BY <2>1
    <3> DEFINE x == t.text
    <3>2. x \in DOMAIN AfterGt /\ t.length = GtWidth(x)
      BY <1>5, <3>1
    <3> HIDE DEF x, t
    <3>3. /\ x # "" /\ AfterGt[x] # "" /\ GtWidth(x) \in Nat /\ GtWidth(x) >= 2
          /\ AfterGt[x] \in DOMAIN AfterGt => GtWidth(AfterGt[x]) = GtWidth(x) - 1
          /\ AfterGt[x] \in Words /\ ">" \in Words /\ ">" \notin DOMAIN AfterGt
      BY <3>2, AfterGtIs
    <3>4. QED
      BY <3>2, <3>3 DEF x
  <2>3. CASE i = cursor + 1
    <3>1. s = [t EXCEPT !.text = ">", !.length = 1]
      BY <2>1, <2>3, SplitParts
    <3> HIDE DEF s, t, w, n
    <3>2. s = [text |-> ">", kind |-> t.kind, offset |-> t.offset, length |-> 1]
      BY <1>6, <3>1
    <3>3. s.text = ">" /\ s.kind = t.kind /\ s.offset = t.offset /\ s.length = 1
      BY <3>2
    <3>4. s \in Token_
      BY <1>4, <2>2, <3>2 DEF Token_
    <3>5. t.offset <= s.offset /\ EndOf(s) <= EndOf(t)
      <4>1. t.offset \in Nat /\ t.length \in Nat /\ t.length >= 2
        BY <1>4, <2>2
      <4>2. QED
        BY <3>3, <4>1 DEF EndOf
    <3>6. s.kind # "EndOfFile" /\ s.length # 0 /\ s.text # "" /\ s.text \notin DOMAIN AfterGt
      <4>1. s.kind # "EndOfFile"
        BY <1>5, <2>1, <3>3
      <4>2. s.text # "" /\ s.text \notin DOMAIN AfterGt
        BY <2>2, <3>3
      <4>3. s.length # 0
        BY <3>3
      <4>4. QED
        BY <4>1, <4>2, <4>3
    <3>7. QED
      BY <1>3, <2>1, <3>4, <3>5, <3>6 DEF s, t, w, n
  <2>4. CASE i = cursor + 2
    <3>1. s = [t EXCEPT !.text = AfterGt[t.text], !.offset = @ + 1, !.length = @ - 1]
      BY <2>1, <2>4, SplitParts
    <3> HIDE DEF s, t, w, n
    <3>2. s = [text |-> AfterGt[t.text], kind |-> t.kind, offset |-> t.offset + 1,
               length |-> t.length - 1]
      BY <1>6, <3>1
    <3>3. /\ s.text = AfterGt[t.text] /\ s.kind = t.kind /\ s.offset = t.offset + 1
          /\ s.length = t.length - 1
      BY <3>2
    <3> DEFINE o == t.offset
               l == t.length
    <3>9. o \in Nat /\ l \in Nat /\ l >= 2 /\ s.offset = o + 1 /\ s.length = l - 1
      BY <1>4, <2>2, <3>3
    <3> HIDE DEF o, l
    <3>4. s.offset \in Nat /\ s.length \in Nat /\ s.length # 0
      BY <3>9
    <3>5. s \in Token_
      <4>1. t.kind \in STRING
        BY <1>4 DEF Token_
      <4>2. s = [text |-> s.text, kind |-> s.kind, offset |-> s.offset, length |-> s.length]
        BY <3>2
      <4>3. s.text \in Words /\ s.kind \in STRING
        BY <2>2, <3>3, <4>1
      <4>4. QED
        BY <3>4, <4>2, <4>3 DEF Token_
    <3>6. t.offset <= s.offset /\ EndOf(s) <= EndOf(t)
      <4>1. o <= s.offset /\ s.offset + s.length <= o + l
        BY <3>9
      <4>2. QED
        BY <4>1 DEF EndOf, o, l
    <3>7. /\ s.kind # "EndOfFile" /\ s.text # ""
          /\ s.text \in DOMAIN AfterGt => s.length = GtWidth(s.text)
      <4>1. s.kind # "EndOfFile"
        BY <1>5, <2>1, <3>3
      <4>2. s.text # "" /\ (s.text \in DOMAIN AfterGt => s.length = GtWidth(s.text))
        BY <2>2, <3>3
      <4>3. QED
        BY <4>1, <4>2
    <3>8. QED
      BY <1>3, <2>1, <3>4, <3>5, <3>6, <3>7 DEF s, t, w, n
  <2>5. QED
    BY <1>8, <2>3, <2>4
<1>9. i \in 1..cursor \/ i = cursor + 1 \/ i = cursor + 2 \/ i \in (cursor + 3)..(n + 1)
  BY <1>1
<1>10. QED
  BY <1>7, <1>8, <1>9

(* Splitting a token leaves the tokens well lexed.                         *)
LEMMA SplitLexed ==
    ASSUME WellLexed(tokens), cursor \in 0..(Len(tokens) - 1), Cur.text \in DOMAIN AfterGt
    PROVE  WellLexed(Split)
<1> DEFINE n == Len(tokens)
           T == Token_
<1>1. n \in Nat /\ cursor \in Nat /\ cursor + 1 < n /\ IsSeq(Split) /\ Len(Split) = n + 1
  BY SplitParts, LexedLength
<1>2. \A i \in 1..Len(Split) : Split[i] \in T
  BY <1>1, SplitTokens
<1>3. Split # << >>
  BY <1>1, EmptyIsSeq
<1>4. \A i \in 1..Len(Split) :
          /\ Split[i].kind = "EndOfFile" <=> i = Len(Split)
          /\ Split[i].length = 0 <=> i = Len(Split)
          /\ Split[i].text = "" <=> i = Len(Split)
          /\ Split[i].text \in DOMAIN AfterGt => Split[i].length = GtWidth(Split[i].text)
  BY <1>1, SplitTokens
<1>5. ASSUME NEW i \in 1..Len(Split), NEW j \in 1..Len(Split), i < j
      PROVE  Split[i].offset + Split[i].length <= Split[j].offset
  <2>1. i \in 1..(n + 1) /\ j \in 1..(n + 1)
    BY <1>1
  <2>2. /\ Was(i) \in 1..n /\ Was(j) \in 1..n
        /\ EndOf(Split[i]) <= EndOf(tokens[Was(i)])
        /\ tokens[Was(j)].offset <= Split[j].offset
        /\ Split[i] \in Token_ /\ Split[j] \in Token_
    BY <2>1, SplitTokens
  <2>3. EndOf(Split[i]) \in Nat /\ Split[j].offset \in Nat
    BY <2>2 DEF Token_, EndOf
  <2>4. EndOf(tokens[Was(i)]) \in Nat /\ tokens[Was(j)].offset \in Nat
    BY <2>2, LexedToken
  <2>5. CASE Was(i) < Was(j)
    <3>1. EndOf(tokens[Was(i)]) <= tokens[Was(j)].offset
      BY <2>2, <2>5, LexedOrder
    <3>2. EndOf(Split[i]) <= tokens[Was(j)].offset
      BY <2>2, <2>3, <2>4, <3>1, AtMost, Zenon
    <3>3. EndOf(Split[i]) <= Split[j].offset
      BY <2>2, <2>3, <2>4, <3>2, AtMost, Zenon
    <3>4. QED
      BY <3>3 DEF EndOf
  <2>6. CASE ~(Was(i) < Was(j))
    <3>1. i = cursor + 1 /\ j = cursor + 2
      BY <1>1, <1>5, <2>1, <2>6 DEF Was
    <3> DEFINE x == Split[cursor + 1]
               y == Split[cursor + 2]
    <3>2. /\ x = [Cur EXCEPT !.text = ">", !.length = 1]
          /\ y = [Cur EXCEPT !.text = AfterGt[Cur.text], !.offset = @ + 1, !.length = @ - 1]
      BY SplitParts
    <3>3. Cur \in Token_
      <4>1. cursor + 1 \in 1..n
        BY <1>1
      <4>2. QED
        BY <4>1, LexedToken DEF Cur
    <3>4. DOMAIN Cur = {"text", "kind", "offset", "length"} /\ Cur.offset \in Nat
      BY <3>3 DEF Token_
    <3> HIDE DEF x, y
    <3>5. x.offset = Cur.offset /\ x.length = 1 /\ y.offset = Cur.offset + 1
      BY <3>2, <3>4
    <3>6. x.offset + x.length <= y.offset
      BY <3>4, <3>5
    <3>7. QED
      BY <3>1, <3>6 DEF x, y
  <2>7. QED
    BY <2>5, <2>6
<1> HIDE DEF T
<1>6. Split \in Seq(T)
  BY <1>1, <1>2, AsSeq
<1>7. QED
  BY <1>3, <1>4, <1>5, <1>6 DEF WellLexed, T
-----------------------------------------------------------------------------
(* One function that is running.                                           *)

(* Where the next step leads, for sure, if it takes a token.               *)
LEMMA OnwardIs ==
    ASSUME NEW ts, NEW c \in Nat, NEW ss
    PROVE  /\ Onward(ts, c, ss) \in Nat /\ c <= Onward(ts, c, ss)
           /\ Eager(ts, c, ss) => Onward(ts, c, ss) = c + 1
           /\ ~Eager(ts, c, ss) => Onward(ts, c, ss) = c
BY DEF Onward

(* The first step of an accessor, and of what was missed instead.          *)
LEMMA AccessorStarts ==
    /\ Rules["Accessor"] # << >>
    /\ Rules["Accessor"][1] = Keep(OneOf({"get", "set"}), "null")
<1>1. Rules["Accessor"] = Accessor
  BY RulesAre, Zenon
<1> DEFINE x == Keep(OneOf({"get", "set"}), "null")
           y == Eat("const")
           z == parseFuncAttr
           w == Body
<1>2. Accessor = <<x, y, z, w>>
  BY Zenon DEF Accessor
<1> HIDE DEF x, y, z, w
<1>3. Accessor # << >> /\ Accessor[1] = x
  BY <1>2
<1>4. QED
  BY <1>1, <1>3 DEF x

(* An accessor begins with a token, so it has begun when it does other     *)
(* things.                                                                 *)
LEMMA HasBegun ==
    ASSUME NEW ts, NEW f, NEW c, FrameOK(ts, f, c),
           \/ f.todo = << >>
           \/ f.todo[1].do \notin {"token", "miss"}
           \/ f.todo[1].do = "miss" /\ f.todo[1].miss # "null"
    PROVE  AccessorBegun(f.rule, f.kids)
<1>1. AccessorBegun(f.rule, f.kids) \/ NotBegun(f.kids, f.todo)
  BY DEF FrameOK
<1>2. Rules["Accessor"] # << >> /\ Rules["Accessor"][1].do = "token"
  BY AccessorStarts DEF Keep
<1>3. Miss("null").do = "miss" /\ Miss("null").miss = "null"
  BY DEF Miss
<1>4. ~NotBegun(f.kids, f.todo)
  BY <1>2, <1>3 DEF NotBegun
<1>5. QED
  BY <1>1, <1>4

(* A frame that goes on from c to c2 with the steps zs, keeping ks.        *)
GoesOn(f, zs, ks) ==
    [rule |-> f.rule, start |-> f.start, todo |-> zs, kids |-> ks]

(* It keeps FrameOK if what is left to do, its marks and what it keeps are *)
(* right at the place where it is then.                                    *)
LEMMA FrameGoes ==
    ASSUME NEW ts, NEW ts2, NEW f, NEW c, FrameOK(ts, f, c), NEW c2,
           NEW zs, NEW ks, f.start \in Nat, f.start <= c2,
           Sound(f.rule, f.start, Onward(ts2, c2, zs), zs),
           MarksOK(ts2, f.rule, f.start, c2, zs),
           KidsOK(ts2, ks, f.start, c2),
           AccessorBegun(f.rule, ks) \/ NotBegun(ks, zs)
    PROVE  /\ FrameOK(ts2, GoesOn(f, zs, ks), c2)
           /\ GoesOn(f, zs, ks).rule = f.rule /\ GoesOn(f, zs, ks).start = f.start
<1> DEFINE g == GoesOn(f, zs, ks)
<1>1. f = [rule |-> f.rule, start |-> f.start, todo |-> f.todo, kids |-> f.kids]
  BY DEF FrameOK
<1>2. g = [rule |-> f.rule, start |-> f.start, todo |-> zs, kids |-> ks]
  BY Zenon DEF GoesOn
<1> HIDE DEF g
<1>3. g.rule = f.rule /\ g.start = f.start /\ g.todo = zs /\ g.kids = ks
  BY <1>2
<1>4. f.rule \in RuleNames
  BY DEF FrameOK
<1>5. QED
  <2>1. FrameOK(ts2, g, c2)
    BY <1>2, <1>3, <1>4 DEF FrameOK
  <2>2. QED
    BY <1>3, <2>1 DEF g

(* How the actions write it.                                               *)
LEMMA FrameThen ==
    ASSUME NEW ts, NEW f, NEW c, FrameOK(ts, f, c), NEW zs
    PROVE  [f EXCEPT !.todo = zs] = GoesOn(f, zs, f.kids)
<1>1. PICK r, a, t, k : f = [rule |-> r, start |-> a, todo |-> t, kids |-> k]
  BY Zenon DEF FrameOK
<1>2. f.rule = r /\ f.start = a /\ f.kids = k
  BY <1>1
<1>3. ASSUME NEW g, g = [f EXCEPT !.todo = zs]
      PROVE  g = [rule |-> r, start |-> a, todo |-> zs, kids |-> k]
  BY <1>1, <1>3
<1>4. QED
  BY <1>2, <1>3, Zenon DEF GoesOn

LEMMA FrameWith ==
    ASSUME NEW ts, NEW f, NEW c, FrameOK(ts, f, c), NEW zs, NEW ks, NEW g,
           \/ g = [f EXCEPT !.kids = ks, !.todo = zs]
           \/ g = [f EXCEPT !.todo = zs, !.kids = ks]
    PROVE  g = GoesOn(f, zs, ks)
<1>1. PICK r, a, t, k : f = [rule |-> r, start |-> a, todo |-> t, kids |-> k]
  BY Zenon DEF FrameOK
<1>2. f.rule = r /\ f.start = a /\ f.kids = k
  BY <1>1
<1>3. CASE g = [f EXCEPT !.kids = ks, !.todo = zs]
  <2>1. g = [rule |-> r, start |-> a, todo |-> zs, kids |-> ks]
    BY <1>1, <1>3
  <2>2. QED
    BY <1>2, <2>1, Zenon DEF GoesOn
<1>4. CASE g = [f EXCEPT !.todo = zs, !.kids = ks]
  <2>1. g = [rule |-> r, start |-> a, todo |-> zs, kids |-> ks]
    BY <1>1, <1>4
  <2>2. QED
    BY <1>2, <2>1, Zenon DEF GoesOn
<1>5. QED
  BY <1>3, <1>4

(* What is known of a frame that has something to do.                      *)
LEMMA FrameParts ==
    ASSUME NEW ts, WellLexed(ts), NEW c \in 0..(Len(ts) - 1), NEW f, FrameOK(ts, f, c)
    PROVE  /\ f.rule \in RuleNames /\ f.start \in Nat /\ f.start <= c /\ c \in Nat
           /\ IsSeq(f.todo) /\ IsSeq(f.kids)
           /\ Sound(f.rule, f.start, Onward(ts, c, f.todo), f.todo)
           /\ KidsOK(ts, f.kids, f.start, c)
           /\ MarksOK(ts, f.rule, f.start, c, f.todo)
<1>1. Len(ts) \in Nat
  BY LexedLength
<1>2. c \in Nat /\ f.start \in Nat /\ f.start <= c
  BY <1>1 DEF FrameOK
<1>3. QED
  BY <1>2 DEF FrameOK, Sound, KidsOK

(* The tokens up to c are the same.                                        *)
SameTo(ts, ts2, c) ==
    (\A i \in 1..c : ts2[i] = ts[i]) /\ ts2[c + 1].offset = ts[c + 1].offset

(* Then they end where they did before c, and so what is kept, the marks,  *)
(* and the waiting functions stay as they are.                             *)
LEMMA SameBefore ==
    ASSUME NEW ts, NEW ts2, NEW c \in Nat, SameTo(ts, ts2, c), NEW a \in 0..c
    PROVE  ts2[a + 1].offset = ts[a + 1].offset /\ Reach(ts2, a) = Reach(ts, a)
<1>1. ts2[a + 1].offset = ts[a + 1].offset
  <2>1. CASE a = c
    BY <2>1 DEF SameTo
  <2>2. CASE a # c
    <3>1. a + 1 \in 1..c
      BY <2>2
    <3>2. QED
      BY <3>1 DEF SameTo
  <2>3. QED
    BY <2>1, <2>2
<1>2. Reach(ts2, a) = Reach(ts, a)
  <2>1. a > 0 => ts2[a] = ts[a]
    BY DEF SameTo
  <2>2. QED
    BY <2>1 DEF Reach
<1>3. QED
  BY <1>1, <1>2

LEMMA KidsSame ==
    ASSUME NEW ts, NEW ts2, NEW c \in Nat, SameTo(ts, ts2, c), NEW a \in 0..c,
           NEW start \in 0..a, NEW kids, KidsOK(ts, kids, start, a)
    PROVE  KidsOK(ts2, kids, start, a)
<1>1. start \in 0..c
  OBVIOUS
<1>2. QED
  BY <1>1, SameBefore, KidsElsewhere

LEMMA MarksSame ==
    ASSUME NEW ts, NEW ts2, NEW c \in Nat, SameTo(ts, ts2, c), NEW a \in 0..c,
           NEW start \in 0..a, NEW r, NEW ss, MarksOK(ts, r, start, a, ss)
    PROVE  MarksOK(ts2, r, start, a, ss)
<1>1. ASSUME NEW i \in 1..Len(ss), ss[i].do = "tried" PROVE MarkOK(ts2, r, start, a, ss, i)
  <2>1. MarkOK(ts, r, start, a, ss, i)
    BY <1>1 DEF MarksOK
  <2>2. ss[i].at \in start..a
    BY <2>1 DEF MarkOK
  <2>3. ss[i].at \in 0..c /\ start \in 0..ss[i].at
    BY <2>2
  <2>4. KidsOK(ts, ss[i].kids, start, ss[i].at)
    BY <2>1 DEF MarkOK
  <2>5. KidsOK(ts2, ss[i].kids, start, ss[i].at)
    BY <2>3, <2>4, KidsSame
  <2>6. QED
    BY <2>1, <2>5 DEF MarkOK
<1>2. QED
  BY <1>1 DEF MarksOK

(* A function that waits for another one does not look at the tokens.      *)
LEMMA FrameSame ==
    ASSUME NEW ts, NEW ts2, NEW c \in Nat, SameTo(ts, ts2, c), NEW a \in 0..c,
           NEW f, FrameOK(ts, f, a), f.todo # << >>, f.todo[1].do = "rules"
    PROVE  FrameOK(ts2, f, a)
<1>1. f.start \in 0..a
  BY DEF FrameOK
<1>2. Onward(ts, a, f.todo) = a /\ Onward(ts2, a, f.todo) = a
  BY DEF Onward, Eager
<1>3. KidsOK(ts2, f.kids, f.start, a)
  BY <1>1, KidsSame DEF FrameOK
<1>4. MarksOK(ts2, f.rule, f.start, a, f.todo)
  BY <1>1, MarksSame DEF FrameOK
<1>5. QED
  BY <1>2, <1>3, <1>4 DEF FrameOK
-----------------------------------------------------------------------------
(* The call stack.                                                         *)

(* The function on top is where the cursor is.                             *)
LEMMA StackTop ==
    ASSUME NEW ts, NEW st, NEW c, StackOK(ts, st, c), st # << >>
    PROVE  /\ Len(st) \in Nat \ {0} /\ Len(st) \in 1..Len(st)
           /\ FrameOK(ts, st[Len(st)], c)
<1>1. IsSeq(st)
  BY DEF StackOK
<1>2. Len(st) \in Nat \ {0} /\ Len(st) \in 1..Len(st)
  BY <1>1, EmptyIsSeq, LengthIsNat
<1>3. PlaceOf(st, Len(st), c) = c
  BY <1>2 DEF PlaceOf
<1>4. QED
  BY <1>2, <1>3 DEF StackOK

(* The frame below another one.                                            *)
LEMMA StackBelow ==
    ASSUME NEW ts, NEW st, NEW c, StackOK(ts, st, c), NEW k \in 1..Len(st), k < Len(st)
    PROVE  /\ k + 1 \in 1..Len(st) /\ FrameOK(ts, st[k], st[k + 1].start)
           /\ Calls(st[k], st[k + 1])
<1>1. Len(st) \in Nat
  BY LengthIsNat DEF StackOK
<1>2. k + 1 \in 1..Len(st) /\ k \in 1..(Len(st) - 1)
  BY <1>1
<1>3. QED
  BY <1>2 DEF StackOK, PlaceOf

(* The function on top goes on, and may change what was read after c.      *)
LEMMA StackGoes ==
    ASSUME NEW ts, NEW ts2, NEW st, NEW c \in Nat, StackOK(ts, st, c), st # << >>,
           NEW c2, NEW f, FrameOK(ts2, f, c2), SameTo(ts, ts2, c),
           f.rule = st[Len(st)].rule, f.start = st[Len(st)].start
    PROVE  StackOK(ts2, [st EXCEPT ![Len(st)] = f], c2)
<1> DEFINE n == Len(st)
           st2 == [st EXCEPT ![n] = f]
<1>1. n \in Nat \ {0} /\ n \in 1..n /\ IsSeq(st) /\ FrameOK(ts, st[n], c)
  BY StackTop DEF StackOK
<1>2. /\ IsSeq(st2) /\ Len(st2) = n /\ st2[n] = f
      /\ \A i \in 1..n : i # n => st2[i] = st[i]
  BY <1>1, ReplacedSeq
<1> HIDE DEF st2, n
<1>3. \A k \in 1..n : st2[k].start = st[k].start /\ st2[k].rule = st[k].rule
  BY <1>1, <1>2 DEF n
<1>4. ASSUME NEW k \in 1..n, k < n
      PROVE  /\ k + 1 \in 1..n /\ FrameOK(ts2, st[k], st[k + 1].start)
             /\ Calls(st[k], st[k + 1])
  <2>1. k + 1 \in 1..n /\ FrameOK(ts, st[k], st[k + 1].start) /\ Calls(st[k], st[k + 1])
    BY <1>4, StackBelow DEF n
  <2>2. st[k + 1].start \in Nat /\ st[k + 1].start <= st[n].start
    <3>1. FrameOK(ts, st[k + 1], PlaceOf(st, k + 1, c))
      BY <2>1 DEF StackOK, n
    <3>2. st[k + 1].start \in Nat
      BY <3>1 DEF FrameOK
    <3>3. k + 1 = n \/ k + 1 < n
      BY <1>1, <1>4
    <3>4. k + 1 < n => st[k + 1].start <= st[n].start
      BY <1>1, <2>1 DEF StackOK, n
    <3>5. QED
      BY <3>2, <3>3, <3>4
  <2>3. st[n].start \in Nat /\ st[n].start <= c
    BY <1>1 DEF FrameOK
  <2>4. st[k + 1].start \in 0..c
    BY <2>2, <2>3
  <2>5. st[k].todo # << >> /\ st[k].todo[1].do = "rules"
    BY <2>1 DEF Calls
  <2>6. QED
    BY <2>1, <2>4, <2>5, FrameSame
<1>5. ASSUME NEW k \in 1..n PROVE FrameOK(ts2, st2[k], PlaceOf(st2, k, c2))
  <2>1. CASE k = n
    <3>1. PlaceOf(st2, n, c2) = c2
      BY <1>1, <1>2 DEF PlaceOf
    <3>2. QED
      BY <1>2, <2>1, <3>1
  <2>2. CASE k # n
    <3>1. k < n
      BY <1>1, <2>2
    <3>2. st2[k] = st[k]
      BY <1>2, <2>2
    <3>3. PlaceOf(st2, k, c2) = st[k + 1].start
      BY <1>2, <1>3, <1>4, <3>1 DEF PlaceOf
    <3>4. QED
      BY <1>4, <3>1, <3>2, <3>3
  <2>3. QED
    BY <2>1, <2>2
<1>6. ASSUME NEW k \in 1..(n - 1) PROVE Calls(st2[k], st2[k + 1])
  <2>1. k \in 1..n /\ k < n /\ k # n
    BY <1>1
  <2>2. Calls(st[k], st[k + 1]) /\ k + 1 \in 1..n
    BY <1>4, <2>1
  <2>3. st2[k] = st[k] /\ st2[k + 1].rule = st[k + 1].rule
    BY <1>2, <1>3, <2>1, <2>2
  <2>4. QED
    BY <2>2, <2>3 DEF Calls
<1>7. \A i, j \in 1..n : i < j => st2[i].start <= st2[j].start
  BY <1>3 DEF StackOK, n
<1>8. StackOK(ts2, st2, c2)
  BY <1>2, <1>5, <1>6, <1>7 DEF StackOK
<1>9. QED
  BY <1>8 DEF st2, n

(* It calls another one.                                                   *)
LEMMA StackCalls ==
    ASSUME NEW ts, NEW st, NEW c \in Nat, StackOK(ts, st, c), st # << >>,
           NEW g, FrameOK(ts, g, c), g.start = c, Calls(st[Len(st)], g)
    PROVE  StackOK(ts, Append(st, g), c)
<1> DEFINE n == Len(st)
           st2 == Append(st, g)
<1>1. n \in Nat \ {0} /\ n \in 1..n /\ IsSeq(st) /\ FrameOK(ts, st[n], c)
  BY StackTop DEF StackOK
<1>2. /\ IsSeq(st2) /\ Len(st2) = n + 1 /\ st2[n + 1] = g
      /\ \A i \in 1..n : st2[i] = st[i]
  BY <1>1, AddedSeq
<1>3. Calls(st[n], g)
  OBVIOUS
<1> HIDE DEF st2, n
<1>4. ASSUME NEW k \in 1..(n + 1) PROVE FrameOK(ts, st2[k], PlaceOf(st2, k, c))
  <2>1. CASE k = n + 1
    <3>1. PlaceOf(st2, n + 1, c) = c
      BY <1>1, <1>2 DEF PlaceOf
    <3>2. QED
      BY <1>2, <2>1, <3>1
  <2>2. CASE k = n
    <3>1. PlaceOf(st2, n, c) = g.start
      BY <1>1, <1>2 DEF PlaceOf
    <3>2. QED
      BY <1>1, <1>2, <2>2, <3>1
  <2>3. CASE k \in 1..n /\ k # n
    <3>1. k < n /\ k < n + 1
      BY <1>1, <2>3
    <3>2. k + 1 \in 1..n /\ FrameOK(ts, st[k], st[k + 1].start)
      BY <2>3, <3>1, StackBelow DEF n
    <3>3. PlaceOf(st2, k, c) = st[k + 1].start
      BY <1>2, <3>1, <3>2 DEF PlaceOf
    <3>4. QED
      BY <1>2, <2>3, <3>2, <3>3
  <2>4. QED
    BY <1>1, <2>1, <2>2, <2>3
<1>5. ASSUME NEW k \in 1..n PROVE Calls(st2[k], st2[k + 1])
  <2>1. CASE k = n
    BY <1>1, <1>2, <1>3, <2>1
  <2>2. CASE k # n
    <3>1. k < n
      BY <1>1, <2>2
    <3>2. k + 1 \in 1..n /\ Calls(st[k], st[k + 1])
      BY <3>1, StackBelow DEF n
    <3>3. QED
      BY <1>2, <3>2
  <2>3. QED
    BY <2>1, <2>2
<1>6. ASSUME NEW i \in 1..(n + 1), NEW j \in 1..(n + 1), i < j
      PROVE  st2[i].start <= st2[j].start
  <2>1. i \in 1..n
    BY <1>1, <1>6
  <2>2. CASE j \in 1..n
    BY <1>2, <1>6, <2>1, <2>2 DEF StackOK, n
  <2>3. CASE j = n + 1
    <3>1. st[i].start \in Nat
      BY <2>1 DEF StackOK, FrameOK, n
    <3>2. st[n].start \in Nat /\ st[n].start <= c
      BY <1>1 DEF FrameOK
    <3>3. i = n \/ i < n
      BY <1>1, <2>1
    <3>4. i < n => st[i].start <= st[n].start
      BY <1>1, <2>1 DEF StackOK, n
    <3>5. st[i].start <= c
      BY <3>1, <3>2, <3>3, <3>4
    <3>6. QED
      BY <1>2, <2>1, <2>3, <3>5
  <2>4. QED
    BY <1>1, <2>2, <2>3
<1>7. \A k \in 1..(Len(st2) - 1) : Calls(st2[k], st2[k + 1])
  <2>1. Len(st2) - 1 = n
    BY <1>1, <1>2
  <2>2. QED
    BY <1>5, <2>1
<1>8. StackOK(ts, st2, c)
  <2>1. \A k \in 1..Len(st2) : FrameOK(ts, st2[k], PlaceOf(st2, k, c))
    BY <1>2, <1>4
  <2>2. \A i, j \in 1..Len(st2) : i < j => st2[i].start <= st2[j].start
    BY <1>2, <1>6
  <2>3. QED
    BY <1>2, <1>7, <2>1, <2>2, Zenon DEF StackOK
<1>9. QED
  BY <1>8 DEF st2

(* It returns to its caller, that goes on.                                 *)
LEMMA StackReturns ==
    ASSUME NEW ts, NEW st, NEW c, StackOK(ts, st, c), NEW n, n = Len(st), n > 1,
           NEW c2, NEW f, FrameOK(ts, f, c2),
           f.rule = st[n - 1].rule, f.start = st[n - 1].start
    PROVE  StackOK(ts, Append(SubSeq(st, 1, n - 2), f), c2)
<1> DEFINE ps == SubSeq(st, 1, n - 2)
           st2 == Append(ps, f)
           m == n - 1
<1>1. n \in Nat /\ m \in Nat /\ m > 0 /\ IsSeq(st) /\ m < n
  BY LengthIsNat DEF StackOK
<1>2. 1 \in 1..(n + 1) /\ n - 2 \in (1 - 1)..n
  BY <1>1
<1>3. /\ IsSeq(ps) /\ Len(ps) = n - 2 - 1 + 1
      /\ \A i \in 1..(n - 2 - 1 + 1) : ps[i] = st[1 + i - 1]
  BY <1>1, <1>2, PartSeq, SMTT(20)
<1>4. /\ IsSeq(st2) /\ Len(st2) = Len(ps) + 1 /\ st2[Len(ps) + 1] = f
      /\ \A i \in 1..Len(ps) : st2[i] = ps[i]
  BY <1>3, AddedSeq
<1>5. f.rule = st[m].rule /\ f.start = st[m].start
  OBVIOUS
<1>6. n = m + 1
  BY <1>1
<1> HIDE DEF ps, st2, m
<1>7. Len(ps) = m - 1
  BY <1>1, <1>3, <1>6
<1>8. Len(st2) = m /\ st2[m] = f
  BY <1>1, <1>4, <1>7
<1>9. ASSUME NEW i \in 1..m, i # m PROVE st2[i] = st[i]
  <2>1. i \in 1..(m - 1) /\ i \in 1..(n - 2 - 1 + 1) /\ 1 + i - 1 = i
    BY <1>1, <1>6, <1>9
  <2>2. QED
    BY <1>3, <1>4, <1>7, <2>1
<1>10. ASSUME NEW k \in 1..m, k # m
       PROVE  /\ k + 1 \in 1..m /\ k \in 1..Len(st) /\ k < m
              /\ FrameOK(ts, st[k], st[k + 1].start) /\ Calls(st[k], st[k + 1])
  <2>1. k \in 1..Len(st) /\ k < Len(st) /\ k + 1 \in 1..m /\ k < m
    BY <1>1, <1>6, <1>10
  <2>2. QED
    BY <2>1, StackBelow
<1>11. \A k \in 1..m : st2[k].start = st[k].start /\ st2[k].rule = st[k].rule
  BY <1>5, <1>8, <1>9
<1>12. ASSUME NEW k \in 1..m PROVE FrameOK(ts, st2[k], PlaceOf(st2, k, c2))
  <2>1. CASE k = m
    <3>1. PlaceOf(st2, m, c2) = c2
      BY <1>1, <1>8 DEF PlaceOf
    <3>2. QED
      BY <1>8, <2>1, <3>1
  <2>2. CASE k # m
    <3>1. PlaceOf(st2, k, c2) = st[k + 1].start
      BY <1>8, <1>10, <1>11, <2>2 DEF PlaceOf
    <3>2. QED
      BY <1>9, <1>10, <2>2, <3>1
  <2>3. QED
    BY <2>1, <2>2
<1>13. ASSUME NEW k \in 1..(m - 1) PROVE Calls(st2[k], st2[k + 1])
  <2>1. k \in 1..m /\ k # m
    BY <1>1
  <2>2. Calls(st[k], st[k + 1]) /\ st2[k] = st[k] /\ k + 1 \in 1..m
    BY <1>9, <1>10, <2>1
  <2>3. QED
    BY <1>11, <2>2 DEF Calls
<1>14. ASSUME NEW i \in 1..m, NEW j \in 1..m, i < j PROVE st2[i].start <= st2[j].start
  <2>1. i \in 1..Len(st) /\ j \in 1..Len(st)
    BY <1>1, <1>6
  <2>2. st[i].start <= st[j].start
    BY <1>14, <2>1 DEF StackOK
  <2>3. QED
    BY <1>11, <2>2
<1>15. StackOK(ts, st2, c2)
  BY <1>4, <1>8, <1>12, <1>13, <1>14 DEF StackOK
<1>16. QED
  BY <1>15 DEF st2, ps
-----------------------------------------------------------------------------
(* A function takes up what another one has returned.                      *)

(* No steps of the code are marks of a Try.                                *)
LEMMA NoTries ==
    /\ \A x \in Hits : IsSeq(x) /\ \A j \in 1..Len(x) : x[j].do # "tried"
    /\ \A x : x.do # "tried" => IsSeq(<<x>>) /\ \A j \in 1..Len(<<x>>) : <<x>>[j].do # "tried"
<1>1. ASSUME NEW x, x.do # "tried"
      PROVE  IsSeq(<<x>>) /\ \A j \in 1..Len(<<x>>) : <<x>>[j].do # "tried"
  <2>1. IsSeq(<<x>>) /\ Len(<<x>>) = 1 /\ <<x>>[1] = x
    BY OneSeq
  <2> DEFINE xs == <<x>>
  <2> HIDE DEF xs
  <2>2. QED
    BY <1>1, <2>1 DEF xs
<1>2. Done.do # "tried" /\ Give.do # "tried"
  BY DEF Done, Give
<1>3. IsSeq(<< >>) /\ Len(<< >>) = 0
  BY EmptyIsSeq
<1>4. \A x \in Hits : x = << >> \/ x = <<Done>> \/ x = <<Give>>
  BY DEF Hits
<1>5. QED
  BY <1>1, <1>2, <1>3, <1>4

(* The first thing a function has kept stays the first.                    *)
LEMMA FirstStays ==
    ASSUME NEW r, NEW kids, IsSeq(kids), AccessorBegun(r, kids), NEW kid
    PROVE  AccessorBegun(r, Append(kids, kid))
<1> DEFINE ks == Append(kids, kid)
<1>1. /\ IsSeq(ks) /\ \A i \in 1..Len(kids) : ks[i] = kids[i]
      /\ ks # << >>
  BY AddedSeq
<1>2. kids # << >> => 1 \in 1..Len(kids)
  BY EmptyIsSeq, LengthIsNat
<1> HIDE DEF ks
<1>3. AccessorBegun(r, ks)
  BY <1>1, <1>2 DEF AccessorBegun
<1>4. QED
  BY <1>3 DEF ks

(* The caller goes on from where the function it called has left off.      *)
LEMMA ResumedGoes ==
    ASSUME NEW ts, WellLexed(ts), NEW f, NEW a \in 0..(Len(ts) - 1), FrameOK(ts, f, a),
           NEW g, Calls(f, g), NEW c \in a..(Len(ts) - 1), NEW result,
           \/ result = Null
           \/ /\ f.start < c /\ KidOK(result)
              /\ ts[a + 1].offset <= result.offset /\ result.offset <= ts[c + 1].offset
              /\ IsEmptyNode(result) \/ EndOf(result) <= Reach(ts, c)
    PROVE  /\ FrameOK(ts, Resumed(f, result), c)
           /\ Resumed(f, result).rule = f.rule /\ Resumed(f, result).start = f.start
<1> DEFINE r == f.rule
           start == f.start
           ss == f.todo
           call == ss[1]
           hs == call.hit \o Tail(ss)
           ns == <<[call EXCEPT !.rules = Tail(@)]>> \o Tail(ss)
           ms == <<Miss(call.miss)>> \o Tail(ss)
<1>1. /\ r \in RuleNames /\ start \in Nat /\ start <= a /\ a \in Nat
      /\ IsSeq(ss) /\ IsSeq(f.kids)
      /\ Sound(r, start, Onward(ts, a, ss), ss)
      /\ KidsOK(ts, f.kids, start, a) /\ MarksOK(ts, r, start, a, ss)
  BY FrameParts
<1>2. c \in Nat /\ a <= c /\ start <= c /\ start \in 0..a /\ Len(ts) \in Nat
  BY <1>1, LexedLength
<1>3. ss # << >> /\ call.do = "rules"
  BY DEF Calls
<1>4. Onward(ts, a, ss) = a
  BY <1>3 DEF Onward, Eager
<1>5. Sound(r, start, a, ss)
  BY <1>1, <1>4
<1>6. AccessorBegun(r, f.kids)
  BY <1>3, HasBegun
<1>7. KidsOK(ts, f.kids, start, c)
  BY <1>1, <1>2, KidsLater
<1>8. PICK p \in Places : StepOK(r, p, call)
  BY <1>3, <1>5, HeadPlace
<1>9. call.hit \in Hits
  <2>1. call \in Steps(r, p)
    BY <1>3, <1>8, StepOKIs DEF Mark
  <2>2. QED
    BY <1>3, <2>1, StepParts
<1>10. CASE result # Null
  <2> DEFINE ks == Append(f.kids, result)
             at2 == Onward(ts, c, hs)
  <2>1. at2 \in Nat /\ c <= at2
    BY <1>2, OnwardIs
  <2>2. start < at2 /\ start < c
    BY <1>1, <1>2, <1>10, <2>1
  <2> HIDE DEF at2
  <2>3. Sound(r, start, at2, hs)
    BY <1>3, <1>5, <2>2, SoundCall
  <2>4. IsSeq(call.hit) /\ \A j \in 1..Len(call.hit) : call.hit[j].do # "tried"
    BY <1>9, NoTries
  <2>5. MarksOK(ts, r, start, c, hs)
    BY <1>1, <1>2, <1>3, <2>4, MarksAfter
  <2>6. KidsOK(ts, ks, start, c)
    BY <1>1, <1>2, <1>10, <2>2, KidsWith
  <2>7. AccessorBegun(r, ks)
    BY <1>1, <1>6, FirstStays
  <2> DEFINE new == GoesOn(f, hs, ks)
  <2>8. Resumed(f, result) = new
    <3> DEFINE f2 == Resumed(f, result)
    <3>1. f2 = [f EXCEPT !.kids = ks, !.todo = hs]
      BY <1>10, Zenon DEF Resumed
    <3> HIDE DEF hs, ks, f2
    <3>2. f2 = new
      BY <3>1, FrameWith, Zenon
    <3>3. QED
      BY <3>2 DEF f2
  <2> HIDE DEF hs, ks, new
  <2>9. FrameOK(ts, new, c) /\ new.rule = f.rule /\ new.start = f.start
    <3>1. /\ f.start \in Nat /\ f.start <= c
          /\ Sound(f.rule, f.start, Onward(ts, c, hs), hs)
          /\ MarksOK(ts, f.rule, f.start, c, hs) /\ KidsOK(ts, ks, f.start, c)
          /\ AccessorBegun(f.rule, ks)
      BY <1>1, <1>2, <2>3, <2>5, <2>6, <2>7 DEF at2
    <3>2. QED
      BY <3>1, FrameGoes DEF new
  <2>10. QED
    BY <2>8, <2>9
<1>11. CASE result = Null /\ Len(call.rules) > 1
  <2> DEFINE x == [call EXCEPT !.rules = Tail(@)]
             at2 == Onward(ts, c, ns)
             new == GoesOn(f, ns, f.kids)
  <2>1. at2 \in Nat /\ c <= at2
    BY <1>2, OnwardIs
  <2>2. start < a => start < at2
    BY <1>1, <1>2, <2>1
  <2> HIDE DEF at2
  <2>3. Sound(r, start, at2, ns)
    BY <1>3, <1>5, <1>11, <2>2, SoundCall
  <2>4. x.do # "tried"
    <3>1. call = [do |-> "rules", rules |-> call.rules, hit |-> call.hit, miss |-> call.miss]
      <4>1. call \in Steps(r, p)
        BY <1>3, <1>8, StepOKIs DEF Mark
      <4>2. QED
        BY <1>3, <4>1, StepParts
    <3>2. QED
      BY <3>1
  <2>5. MarksOK(ts, r, start, c, ns)
    <3>1. IsSeq(<<x>>) /\ \A j \in 1..Len(<<x>>) : <<x>>[j].do # "tried"
      BY <2>4, NoTries
    <3> DEFINE xs == <<x>>
    <3>2. IsSeq(xs) /\ \A j \in 1..Len(xs) : xs[j].do # "tried"
      BY <3>1
    <3> HIDE DEF xs
    <3>3. MarksOK(ts, r, start, c, xs \o Tail(ss))
      BY <1>1, <1>2, <1>3, <3>2, MarksAfter
    <3>4. QED
      BY <3>3 DEF xs
  <2>6. Resumed(f, result) = new
    <3>1. Resumed(f, result) = [f EXCEPT !.todo = ns]
      BY <1>11, Zenon DEF Resumed
    <3> HIDE DEF ns
    <3>2. QED
      BY <3>1, FrameThen
  <2> HIDE DEF ns, new
  <2>7. FrameOK(ts, new, c) /\ new.rule = f.rule /\ new.start = f.start
    <3>1. /\ f.start \in Nat /\ f.start <= c
          /\ Sound(f.rule, f.start, Onward(ts, c, ns), ns)
          /\ MarksOK(ts, f.rule, f.start, c, ns) /\ KidsOK(ts, f.kids, f.start, c)
          /\ AccessorBegun(f.rule, f.kids)
      BY <1>1, <1>2, <1>6, <1>7, <2>3, <2>5 DEF at2
    <3>2. QED
      BY <3>1, FrameGoes DEF new
  <2>8. QED
    BY <2>6, <2>7
<1>12. CASE result = Null /\ ~(Len(call.rules) > 1)
  <2> DEFINE at2 == Onward(ts, c, ms)
             new == GoesOn(f, ms, f.kids)
  <2>1. at2 \in Nat /\ c <= at2
    BY <1>2, OnwardIs
  <2>2. start < a => start < at2
    BY <1>1, <1>2, <2>1
  <2> HIDE DEF at2
  <2>3. Sound(r, start, at2, ms)
    BY <1>3, <1>5, <2>2, SoundMiss
  <2>4. MarksOK(ts, r, start, c, ms)
    <3> DEFINE x == Miss(call.miss)
               xs == <<x>>
    <3>1. x.do # "tried"
      BY DEF Miss
    <3> HIDE DEF x
    <3>2. IsSeq(xs) /\ \A j \in 1..Len(xs) : xs[j].do # "tried"
      BY <3>1, NoTries
    <3> HIDE DEF xs
    <3>3. MarksOK(ts, r, start, c, xs \o Tail(ss))
      BY <1>1, <1>2, <1>3, <3>2, MarksAfter
    <3>4. QED
      BY <3>3 DEF xs, x
  <2>5. Resumed(f, result) = new
    <3>1. Resumed(f, result) = [f EXCEPT !.todo = ms]
      BY <1>12, Zenon DEF Resumed
    <3> HIDE DEF ms
    <3>2. QED
      BY <3>1, FrameThen
  <2> HIDE DEF ms, new
  <2>6. FrameOK(ts, new, c) /\ new.rule = f.rule /\ new.start = f.start
    <3>1. /\ f.start \in Nat /\ f.start <= c
          /\ Sound(f.rule, f.start, Onward(ts, c, ms), ms)
          /\ MarksOK(ts, f.rule, f.start, c, ms) /\ KidsOK(ts, f.kids, f.start, c)
          /\ AccessorBegun(f.rule, f.kids)
      BY <1>1, <1>2, <1>6, <1>7, <2>3, <2>4 DEF at2
    <3>2. QED
      BY <3>1, FrameGoes DEF new
  <2>7. QED
    BY <2>5, <2>6
<1>13. QED
  BY <1>10, <1>11, <1>12
-----------------------------------------------------------------------------
(* What the actions have in common.                                        *)

(* What is known of the function on top, and of where it is.               *)
LEMMA TopParts ==
    ASSUME ParserInv, stack # << >>
    PROVE  /\ WellLexed(tokens) /\ Len(tokens) \in Nat \ {0} /\ cursor \in 0..(Len(tokens) - 1)
           /\ cursor \in Nat /\ StackOK(tokens, stack, cursor)
           /\ Len(stack) \in Nat \ {0} /\ Len(stack) \in 1..Len(stack)
           /\ FrameOK(tokens, Top, cursor)
           /\ Top.rule \in RuleNames /\ Top.start \in Nat /\ Top.start <= cursor
           /\ IsSeq(Top.todo) /\ IsSeq(Top.kids)
           /\ Sound(Top.rule, Top.start, Onward(tokens, cursor, Top.todo), Top.todo)
           /\ KidsOK(tokens, Top.kids, Top.start, cursor)
           /\ MarksOK(tokens, Top.rule, Top.start, cursor, Top.todo)
<1>1. WellLexed(tokens) /\ cursor \in 0..(Len(tokens) - 1) /\ StackOK(tokens, stack, cursor)
  BY DEF ParserInv
<1>2. Len(tokens) \in Nat \ {0} /\ cursor \in Nat
  BY <1>1, LexedLength
<1>3. Len(stack) \in Nat \ {0} /\ Len(stack) \in 1..Len(stack) /\ FrameOK(tokens, Top, cursor)
  BY <1>1, StackTop DEF Top
<1>4. QED
  BY <1>1, <1>2, <1>3, FrameParts, Zenon

(* The tokens are the same.                                                *)
LEMMA SameTokens == \A ts, c : SameTo(ts, ts, c)
BY DEF SameTo

(* The function on top goes on.                                            *)
LEMMA TopGoes ==
    ASSUME ParserInv, stack # << >>, NEW zs, NEW ks,
           source' = source, diags' \in Seq(Diagnostics), WellLexed(tokens'),
           SameTo(tokens, tokens', cursor), cursor' \in 0..(Len(tokens') - 1),
           Top.start <= cursor',
           stack' = [stack EXCEPT ![Len(stack)] = GoesOn(Top, zs, ks)],
           Sound(Top.rule, Top.start, Onward(tokens', cursor', zs), zs),
           MarksOK(tokens', Top.rule, Top.start, cursor', zs),
           KidsOK(tokens', ks, Top.start, cursor'),
           AccessorBegun(Top.rule, ks) \/ NotBegun(ks, zs)
    PROVE  ParserInv'
<1> DEFINE f == GoesOn(Top, zs, ks)
           ts2 == tokens'
           c2 == cursor'
<1>1. /\ FrameOK(tokens, Top, cursor) /\ StackOK(tokens, stack, cursor)
      /\ cursor \in Nat /\ Top.start \in Nat
  BY TopParts
<1>2. FrameOK(ts2, f, c2) /\ f.rule = Top.rule /\ f.start = Top.start
  BY <1>1, FrameGoes
<1>3. f.rule = stack[Len(stack)].rule /\ f.start = stack[Len(stack)].start
  BY <1>2, Zenon DEF Top
<1> HIDE DEF f
<1>4. StackOK(ts2, [stack EXCEPT ![Len(stack)] = f], c2)
  BY <1>1, <1>2, <1>3, StackGoes
<1>5. StackOK(tokens', stack', cursor')
  BY <1>4 DEF f
<1>6. source' \in Inputs
  BY DEF ParserInv
<1>7. QED
  BY <1>5, <1>6 DEF ParserInv

(* It goes on with the same tokens and reports nothing.                    *)
LEMMA TopThen ==
    ASSUME ParserInv, stack # << >>, NEW zs, Then(zs),
           UNCHANGED <<source, tokens>>, diags' \in Seq(Diagnostics),
           cursor' \in cursor..(Len(tokens) - 1),
           Sound(Top.rule, Top.start, Onward(tokens, cursor', zs), zs),
           MarksOK(tokens, Top.rule, Top.start, cursor', zs),
           AccessorBegun(Top.rule, Top.kids) \/ NotBegun(Top.kids, zs)
    PROVE  ParserInv'
<1>1. /\ WellLexed(tokens) /\ FrameOK(tokens, Top, cursor) /\ cursor \in Nat
      /\ Top.start \in Nat /\ Top.start <= cursor /\ Len(tokens) \in Nat
      /\ KidsOK(tokens, Top.kids, Top.start, cursor)
      /\ cursor \in 0..(Len(tokens) - 1)
  BY TopParts
<1>2. tokens' = tokens /\ source' = source
  OBVIOUS
<1>3. cursor' \in 0..(Len(tokens) - 1) /\ Top.start <= cursor' /\ Top.start \in 0..cursor
  BY <1>1
<1>4. KidsOK(tokens, Top.kids, Top.start, cursor')
  BY <1>1, <1>3, KidsLater
<1>5. stack' = [stack EXCEPT ![Len(stack)] = GoesOn(Top, zs, Top.kids)]
  <2>1. [Top EXCEPT !.todo = zs] = GoesOn(Top, zs, Top.kids)
    BY <1>1, FrameThen, Zenon
  <2>2. QED
    BY <2>1, Zenon DEF Then, Continue
<1>6. SameTo(tokens, tokens', cursor)
  BY <1>2, SameTokens
<1>7. /\ WellLexed(tokens') /\ cursor' \in 0..(Len(tokens') - 1)
      /\ Sound(Top.rule, Top.start, Onward(tokens', cursor', zs), zs)
      /\ MarksOK(tokens', Top.rule, Top.start, cursor', zs)
      /\ KidsOK(tokens', Top.kids, Top.start, cursor')
  BY <1>1, <1>2, <1>3, <1>4
<1>8. QED
  BY <1>2, <1>3, <1>5, <1>6, <1>7, TopGoes, Zenon
-----------------------------------------------------------------------------
(* Tokens that are taken or missed, and branches.                          *)

(* What is next to do.                                                     *)
LEMMA DoingIs ==
    ASSUME NEW what, Doing(what)
    PROVE  /\ stack # << >> /\ Top.todo # << >>
           /\ Head1 = Top.todo[1] /\ Top.todo[1].do = what /\ Rest = Tail(Top.todo)
BY DEF Doing, Head1, Rest

(* A function that does not take a token for sure is where the cursor is.  *)
LEMMA SoundHere ==
    ASSUME ParserInv, stack # << >>,
           \/ Top.todo = << >> \/ Top.todo[1].do # "token" \/ ~Passes(Top.todo[1].test)
    PROVE  Sound(Top.rule, Top.start, cursor, Top.todo)
<1>1. ~Eager(tokens, cursor, Top.todo)
  BY DEF Eager, PassesAt, Passes, Cur
<1>2. Onward(tokens, cursor, Top.todo) = cursor
  BY <1>1 DEF Onward
<1>3. QED
  BY <1>2, TopParts

(* Where it is once the step is done, if it has not gone back.             *)
LEMMA OnwardLater ==
    ASSUME NEW c \in Nat, NEW c2 \in Nat, c <= c2, NEW ts, NEW start \in Nat, NEW ss
    PROVE  /\ Onward(ts, c2, ss) \in Nat
           /\ start < c => start < Onward(ts, c2, ss)
           /\ start < c2 => start < Onward(ts, c2, ss)
<1>1. Onward(ts, c2, ss) \in Nat /\ c2 <= Onward(ts, c2, ss)
  BY OnwardIs
<1>2. QED
  BY <1>1

(* The token it takes is no end of file, and is kept behind the others.    *)
LEMMA TakeTokenKeeps ==
    ASSUME ParserInv, TakeToken
    PROVE  ParserInv'
<1> DEFINE ss == Top.todo
           ks == IF Head1.keep THEN Append(Top.kids, Cur) ELSE Top.kids
           c2 == cursor + 1
<1>1. /\ stack # << >> /\ ss # << >> /\ Head1 = ss[1] /\ ss[1].do = "token"
      /\ Rest = Tail(ss)
  BY DoingIs DEF TakeToken
<1>2. /\ WellLexed(tokens) /\ Len(tokens) \in Nat \ {0} /\ cursor \in 0..(Len(tokens) - 1)
      /\ cursor \in Nat /\ FrameOK(tokens, Top, cursor)
      /\ Top.start \in Nat /\ Top.start <= cursor /\ IsSeq(ss) /\ IsSeq(Top.kids)
      /\ Sound(Top.rule, Top.start, Onward(tokens, cursor, ss), ss)
      /\ KidsOK(tokens, Top.kids, Top.start, cursor)
      /\ MarksOK(tokens, Top.rule, Top.start, cursor, ss)
  BY <1>1, TopParts
<1>3. Passes(ss[1].test)
  BY <1>1 DEF TakeToken
<1>4. Sound(Top.rule, Top.start, c2, ss)
  <2>1. Eager(tokens, cursor, ss)
    BY <1>1, <1>3 DEF Eager, PassesAt, Passes, Cur
  <2>2. QED
    BY <1>2, <2>1 DEF Onward
<1>5. cursor < Len(tokens) - 1 /\ Cur.kind # "EndOfFile"
  <2>1. ss[1].test \in Tests
    BY <1>1, <1>4, SoundLeaves
  <2>2. Cur.text \in ss[1].test.texts \/ Cur.kind \in ss[1].test.kinds
    BY <1>3 DEF Passes
  <2>3. QED
    BY <1>2, <2>1, <2>2, PassesInside DEF Cur
<1>6. /\ cursor' = c2 /\ c2 \in 0..(Len(tokens) - 1) /\ c2 \in Nat /\ cursor <= c2
      /\ Top.start < c2 /\ c2 \in cursor..(Len(tokens) - 1) /\ Top.start \in 0..cursor
  <2>1. cursor' = c2
    BY <1>5 DEF TakeToken, Stepped, AtEnd
  <2>2. QED
    BY <1>2, <1>5, <2>1
<1> HIDE DEF c2
<1>7. Sound(Top.rule, Top.start, Onward(tokens, c2, Rest), Rest)
  <2> DEFINE at2 == Onward(tokens, c2, Rest)
  <2>1. Top.start < at2
    BY <1>2, <1>6, OnwardLater
  <2> HIDE DEF at2
  <2>2. Sound(Top.rule, Top.start, at2, Tail(ss))
    BY <1>1, <1>4, <2>1, SoundRest
  <2>3. QED
    BY <1>1, <2>2 DEF at2
<1>8. MarksOK(tokens, Top.rule, Top.start, c2, Rest)
  BY <1>1, <1>2, <1>6, MarksOfTail
<1>9. Cur \in Token_ /\ KidOK(Cur)
  <2>1. cursor + 1 \in 1..Len(tokens)
    BY <1>2
  <2>2. Cur \in Token_ /\ Cur.offset \in Nat /\ Cur.length \in Nat /\ "rule" \notin DOMAIN Cur
    BY <1>2, <2>1, LexedToken DEF Cur
  <2>3. QED
    BY <2>2 DEF KidOK
<1>10. KidsOK(tokens, ks, Top.start, c2)
  <2>1. KidsOK(tokens, Top.kids, Top.start, c2)
    BY <1>2, <1>6, KidsLater
  <2>2. KidsOK(tokens, Append(Top.kids, Cur), Top.start, c2)
    <3>1. /\ tokens[cursor + 1].offset <= Cur.offset
          /\ Cur.offset <= tokens[c2 + 1].offset
          /\ EndOf(Cur) <= Reach(tokens, c2)
      <4>1. cursor < c2
        BY <1>2 DEF c2
      <4>2. /\ tokens[cursor + 1].offset \in Nat
            /\ tokens[cursor + 1].offset <= tokens[c2 + 1].offset
            /\ EndOf(tokens[cursor + 1]) <= Reach(tokens, c2)
        BY <1>2, <1>6, <4>1, ReachGrows
      <4>3. QED
        BY <4>2 DEF Cur
    <3>2. QED
      BY <1>2, <1>6, <1>9, <3>1, KidsWith
  <2>3. QED
    BY <2>1, <2>2
<1>11. AccessorBegun(Top.rule, ks)
  <2>1. CASE AccessorBegun(Top.rule, Top.kids)
    BY <1>2, <2>1, FirstStays
  <2>2. CASE NotBegun(Top.kids, ss)
    <3>1. ss = Rules["Accessor"]
      <4>1. Miss("null").do = "miss"
        BY DEF Miss
      <4>2. QED
        BY <1>1, <2>2, <4>1 DEF NotBegun
    <3>2. Head1.keep
      BY <1>1, <3>1, AccessorStarts DEF Keep
    <3>3. ks = Append(<< >>, Cur)
      BY <2>2, <3>2 DEF NotBegun
    <3>4. Append(<< >>, Cur) # << >> /\ Append(<< >>, Cur)[1] = Cur
      <4>1. IsSeq(<< >>) /\ Len(<< >>) = 0
        BY EmptyIsSeq
      <4>2. Append(<< >>, Cur) # << >> /\ Append(<< >>, Cur)[0 + 1] = Cur
        BY <4>1, AddedSeq
      <4>3. QED
        BY <4>2
    <3> HIDE DEF ks
    <3>5. ks # << >> /\ ks[1] \in Token_
      BY <1>9, <3>3, <3>4, Zenon
    <3>6. QED
      BY <3>5, Zenon DEF AccessorBegun
  <2>3. QED
    BY <1>2, <2>1, <2>2 DEF FrameOK
<1>12. stack' = [stack EXCEPT ![Len(stack)] = GoesOn(Top, Rest, ks)]
  <2> DEFINE g == [Top EXCEPT !.todo = Rest, !.kids = ks]
  <2>1. stack' = [stack EXCEPT ![Len(stack)] = g]
    BY Zenon DEF TakeToken, Continue
  <2> HIDE DEF ks
  <2>2. g = [Top EXCEPT !.todo = Rest, !.kids = ks]
    OBVIOUS
  <2> HIDE DEF g
  <2>3. g = GoesOn(Top, Rest, ks)
    BY <1>2, <2>2, FrameWith, Zenon
  <2>4. QED
    BY <2>1, <2>3, Zenon
<1>13. /\ source' = source /\ tokens' = tokens /\ diags' \in Seq(Diagnostics)
  BY DEF TakeToken, ParserInv
<1>14. /\ WellLexed(tokens') /\ SameTo(tokens, tokens', cursor)
       /\ cursor' \in 0..(Len(tokens') - 1) /\ Top.start <= cursor'
       /\ Sound(Top.rule, Top.start, Onward(tokens', cursor', Rest), Rest)
       /\ MarksOK(tokens', Top.rule, Top.start, cursor', Rest)
       /\ KidsOK(tokens', ks, Top.start, cursor')
  <2> HIDE DEF ks
  <2>1. Top.start <= cursor'
    BY <1>2, <1>6
  <2>2. QED
    BY <1>2, <1>6, <1>7, <1>8, <1>10, <1>13, <2>1, SameTokens
<1> HIDE DEF ks
<1>15. QED
  BY <1>1, <1>11, <1>12, <1>13, <1>14, TopGoes, Zenon

(* What a function does next, in front of the rest.                        *)
LEMMA RestIsSeq ==
    ASSUME ParserInv, stack # << >>, Top.todo # << >>
    PROVE  IsSeq(Rest) /\ << >> \o Rest = Rest
<1>1. IsSeq(Rest)
  BY TopParts, TailSeq DEF Rest
<1>2. QED
  BY <1>1, EmptyJoined

(* The function on top does xs before the rest of what it has to do.       *)
LEMMA FrontGoes ==
    ASSUME ParserInv, stack # << >>, Top.todo # << >>,
           NEW xs, IsSeq(xs), \A j \in 1..Len(xs) : xs[j].do # "tried",
           Then(xs \o Rest), UNCHANGED <<source, tokens>>, diags' \in Seq(Diagnostics),
           cursor' \in cursor..(Len(tokens) - 1),
           Sound(Top.rule, Top.start, Onward(tokens, cursor', xs \o Rest), xs \o Rest),
           AccessorBegun(Top.rule, Top.kids) \/ NotBegun(Top.kids, xs \o Rest)
    PROVE  ParserInv'
<1>1. /\ cursor \in Nat /\ Top.start \in Nat /\ IsSeq(Top.todo) /\ Len(tokens) \in Nat
      /\ MarksOK(tokens, Top.rule, Top.start, cursor, Top.todo)
  BY TopParts
<1>2. cursor' \in Nat /\ cursor <= cursor'
  BY <1>1
<1>3. MarksOK(tokens, Top.rule, Top.start, cursor', xs \o Rest)
  BY <1>1, <1>2, MarksAfter DEF Rest
<1> DEFINE zs == xs \o Rest
<1>4. /\ Then(zs) /\ Sound(Top.rule, Top.start, Onward(tokens, cursor', zs), zs)
      /\ MarksOK(tokens, Top.rule, Top.start, cursor', zs)
      /\ AccessorBegun(Top.rule, Top.kids) \/ NotBegun(Top.kids, zs)
  BY <1>3
<1> HIDE DEF zs
<1>5. QED
  BY <1>4, TopThen

(* It has done its next step.                                              *)
LEMMA RestGoes ==
    ASSUME ParserInv, stack # << >>, Top.todo # << >>,
           Then(Rest), UNCHANGED <<source, tokens>>, diags' \in Seq(Diagnostics),
           cursor' \in cursor..(Len(tokens) - 1), Top.todo[1].do # "token",
           ~Feeds(Top.todo[1]) \/ Top.start < cursor',
           AccessorBegun(Top.rule, Top.kids)
    PROVE  ParserInv'
<1>1. /\ cursor \in Nat /\ Top.start \in Nat /\ IsSeq(Top.todo) /\ Len(tokens) \in Nat
      /\ MarksOK(tokens, Top.rule, Top.start, cursor, Top.todo)
  BY TopParts
<1>2. cursor' \in Nat /\ cursor <= cursor'
  BY <1>1
<1>3. MarksOK(tokens, Top.rule, Top.start, cursor', Rest)
  BY <1>1, <1>2, MarksOfTail DEF Rest
<1>4. Sound(Top.rule, Top.start, cursor, Top.todo)
  BY SoundHere
<1>5. Sound(Top.rule, Top.start, Onward(tokens, cursor', Rest), Rest)
  <2> DEFINE at2 == Onward(tokens, cursor', Rest)
  <2>1. /\ Top.start < cursor => Top.start < at2
        /\ Top.start < cursor' => Top.start < at2
    BY <1>1, <1>2, OnwardLater
  <2> HIDE DEF at2
  <2>2. Sound(Top.rule, Top.start, at2, Tail(Top.todo))
    BY <1>4, <2>1, SoundRest
  <2>3. QED
    BY <2>2 DEF at2, Rest
<1>6. QED
  BY <1>3, <1>5, TopThen

(* A frame whose next step is none of a beginning accessor's has begun.    *)
LEMMA TopBegun ==
    ASSUME ParserInv, stack # << >>,
           \/ Top.todo = << >>
           \/ Top.todo[1].do \notin {"token", "miss"}
           \/ Top.todo[1].do = "miss" /\ Top.todo[1].miss # "null"
    PROVE  AccessorBegun(Top.rule, Top.kids)
<1>1. FrameOK(tokens, Top, cursor)
  BY TopParts
<1>2. QED
  BY <1>1, HasBegun

(* The step Miss is one step.                                              *)
LEMMA MissStep ==
    ASSUME NEW m
    PROVE  /\ IsSeq(<<Miss(m)>>) /\ \A j \in 1..Len(<<Miss(m)>>) : <<Miss(m)>>[j].do # "tried"
<1> DEFINE x == Miss(m)
<1>1. x.do # "tried"
  BY DEF Miss
<1> HIDE DEF x
<1>2. QED
  BY <1>1, NoTries DEF x

(* An accessor that does not begin with `get' or `set' has kept nothing    *)
(* and gives up.                                                           *)
LEMMA MissTokenKeeps ==
    ASSUME ParserInv, MissToken
    PROVE  ParserInv'
<1> DEFINE ss == Top.todo
           xs == <<Miss(Head1.miss)>>
           at2 == Onward(tokens, cursor, xs \o Rest)
<1>1. /\ stack # << >> /\ ss # << >> /\ Head1 = ss[1] /\ ss[1].do = "token"
      /\ Rest = Tail(ss)
  BY DoingIs DEF MissToken
<1>2. ~Passes(ss[1].test)
  BY <1>1 DEF MissToken
<1>3. /\ cursor \in Nat /\ Top.start \in Nat /\ Len(tokens) \in Nat
      /\ cursor \in cursor..(Len(tokens) - 1) /\ FrameOK(tokens, Top, cursor) /\ IsSeq(Rest)
  BY <1>1, TopParts, RestIsSeq
<1>4. Sound(Top.rule, Top.start, cursor, ss)
  BY <1>1, <1>2, SoundHere
<1>5. Top.start < cursor => Top.start < at2
  BY <1>3, OnwardLater
<1> HIDE DEF at2
<1>6. Sound(Top.rule, Top.start, at2, xs \o Rest)
  BY <1>1, <1>4, <1>5, SoundMiss
<1>7. IsSeq(xs) /\ \A j \in 1..Len(xs) : xs[j].do # "tried"
  BY MissStep
<1>8. AccessorBegun(Top.rule, Top.kids) \/ NotBegun(Top.kids, xs \o Rest)
  <2>1. CASE NotBegun(Top.kids, ss)
    <3>1. ss = Rules["Accessor"] /\ Top.kids = << >>
      <4>1. Miss("null").do = "miss"
        BY DEF Miss
      <4>2. QED
        BY <1>1, <2>1, <4>1 DEF NotBegun
    <3>2. Head1.miss = "null"
      BY <1>1, <3>1, AccessorStarts DEF Keep
    <3> DEFINE x == Miss("null")
    <3>3. xs = <<x>>
      BY <3>2
    <3> HIDE DEF x, xs
    <3>4. (xs \o Rest)[1] = x /\ xs \o Rest # << >>
      BY <1>3, <3>3, TailJoined, Zenon
    <3>5. QED
      BY <3>1, <3>4, Zenon DEF x, NotBegun
  <2>2. QED
    BY <1>3, <2>1 DEF FrameOK
<1>9. /\ Then(xs \o Rest) /\ UNCHANGED <<source, tokens>> /\ cursor' = cursor
      /\ diags' \in Seq(Diagnostics)
  BY DEF MissToken, ParserInv
<1> HIDE DEF xs
<1>10. Sound(Top.rule, Top.start, Onward(tokens, cursor', xs \o Rest), xs \o Rest)
  BY <1>6, <1>9 DEF at2
<1>11. QED
  BY <1>1, <1>3, <1>7, <1>8, <1>9, <1>10, FrontGoes

(* The ways a branch may go on are steps of the function.                  *)
LEMMA BranchParts ==
    ASSUME NEW r, NEW start, NEW at, NEW ss, Sound(r, start, at, ss), ss # << >>
    PROVE  /\ ss[1].do = "branch" =>
                 /\ IsSeq(ss[1].then) /\ IsSeq(ss[1].otherwise)
                 /\ \A j \in 1..Len(ss[1].then) : ss[1].then[j].do # "tried"
                 /\ \A j \in 1..Len(ss[1].otherwise) : ss[1].otherwise[j].do # "tried"
           /\ ss[1].do = "lambda" =>
                 /\ IsSeq(ss[1].then)
                 /\ \A j \in 1..Len(ss[1].then) : ss[1].then[j].do # "tried"
<1> DEFINE s == ss[1]
<1>1. PICK c \in Places : StepOK(r, c, s)
  BY HeadPlace
<1>2. ASSUME NEW d, NEW xs \in Seq(Steps(r, d))
      PROVE  IsSeq(xs) /\ \A j \in 1..Len(xs) : xs[j].do # "tried"
  <2>1. IsSeq(xs) /\ \A j \in 1..Len(xs) : ~Mark(xs[j])
    BY SeqIsSeq, StepsAreNoMarks
  <2>2. QED
    BY <2>1 DEF Mark
<1>3. CASE s.do \in {"branch", "lambda"}
  <2>1. s \in Steps(r, c)
    BY <1>1, <1>3, StepOKIs DEF Mark
  <2>2. /\ s.do = "branch" => /\ s.otherwise \in Seq(Steps(r, c))
                              /\ \/ s.then \in Seq(Steps(r, c))
                                 \/ s.then \in Seq(Steps(r, WhenFed(c)))
        /\ s.do = "lambda" => s.then \in Seq(Steps(r, c))
    BY <2>1, StepParts
  <2>3. QED
    BY <1>2, <2>2
<1>4. QED
  BY <1>3

(* A branch to a token it has tested for will take it; others feed on both *)
(* ways.                                                                   *)
LEMMA BranchKeeps ==
    ASSUME ParserInv, Doing("branch"), UNCHANGED <<source, tokens, cursor, diags, script>>,
           Then((IF Passes(Head1.test) THEN Head1.then ELSE Head1.otherwise) \o Rest)
    PROVE  ParserInv'
<1> DEFINE ss == Top.todo
           xs == IF Passes(Head1.test) THEN Head1.then ELSE Head1.otherwise
           at2 == Onward(tokens, cursor, xs \o Rest)
<1>1. /\ stack # << >> /\ ss # << >> /\ Head1 = ss[1] /\ ss[1].do = "branch"
      /\ Rest = Tail(ss)
  BY DoingIs
<1>2. /\ cursor \in Nat /\ Top.start \in Nat /\ Len(tokens) \in Nat /\ Top.start <= cursor
      /\ cursor \in cursor..(Len(tokens) - 1) /\ IsSeq(Rest)
  BY <1>1, TopParts, RestIsSeq
<1>3. Sound(Top.rule, Top.start, cursor, ss)
  BY <1>1, SoundHere
<1>4. Top.start < cursor => Top.start < at2
  BY <1>2, OnwardLater
<1>5. /\ IsSeq(ss[1].then) /\ IsSeq(ss[1].otherwise)
      /\ \A j \in 1..Len(ss[1].then) : ss[1].then[j].do # "tried"
      /\ \A j \in 1..Len(ss[1].otherwise) : ss[1].otherwise[j].do # "tried"
  BY <1>1, <1>3, BranchParts
<1>6. CASE Passes(Head1.test)
  <2>1. xs = ss[1].then
    BY <1>1, <1>6
  <2>2. ~Guarded(ss[1]) \/ Top.start < at2
    <3>1. CASE Guarded(ss[1])
      <4>1. xs # << >> /\ xs[1].do = "token" /\ xs[1].test = Head1.test
        BY <1>1, <2>1, <3>1 DEF Guarded
      <4>2. IsSeq(xs)
        BY <1>5, <2>1
      <4> HIDE DEF xs
      <4>3. 1 \in 1..Len(xs)
        BY <4>1, <4>2, EmptyIsSeq, LengthIsNat
      <4>4. (xs \o Rest)[1] = xs[1] /\ xs \o Rest # << >>
        <5> DEFINE zs == xs \o Rest
        <5>1. IsSeq(zs) /\ Len(zs) = Len(xs) + Len(Rest) /\ zs[1] = xs[1]
          BY <1>2, <4>2, <4>3, JoinedSeq
        <5>2. Len(xs) \in Nat /\ Len(Rest) \in Nat
          BY <1>2, <4>2, LengthIsNat
        <5> HIDE DEF zs
        <5>3. Len(zs) # 0
          BY <4>3, <5>1, <5>2
        <5>4. zs # << >>
          BY <5>1, <5>3, EmptyIsSeq
        <5>5. QED
          BY <5>1, <5>4 DEF zs
      <4>5. Eager(tokens, cursor, xs \o Rest)
        BY <1>6, <4>1, <4>4, Zenon DEF Eager, PassesAt, Passes, Cur
      <4>6. at2 = cursor + 1
        BY <4>5 DEF Onward
      <4> HIDE DEF at2
      <4>7. QED
        BY <1>2, <4>6
    <3>2. QED
      BY <3>1
  <2> HIDE DEF at2
  <2>3. Sound(Top.rule, Top.start, at2, xs \o Rest)
    BY <1>1, <1>3, <1>4, <2>1, <2>2, SoundBranch
  <2>4. QED
    BY <1>5, <2>1, <2>3, <1>1, <1>2, TopBegun, FrontGoes DEF at2, ParserInv
<1>7. CASE ~Passes(Head1.test)
  <2>1. xs = ss[1].otherwise
    BY <1>1, <1>7
  <2> HIDE DEF at2
  <2>3. Sound(Top.rule, Top.start, at2, xs \o Rest)
    BY <1>1, <1>3, <1>4, <2>1, SoundBranch
  <2>4. QED
    BY <1>5, <2>1, <2>3, <1>1, <1>2, TopBegun, FrontGoes DEF at2, ParserInv
<1>8. QED
  BY <1>6, <1>7

(* What a step that leaves the tokens, the cursor and the diagnostics      *)
(* alone has for the lemmas above.                                         *)
LEMMA Idle ==
    ASSUME ParserInv, stack # << >>, UNCHANGED <<source, tokens, cursor, diags>>
    PROVE  /\ UNCHANGED <<source, tokens>> /\ diags' \in Seq(Diagnostics)
           /\ cursor' = cursor /\ cursor' \in cursor..(Len(tokens) - 1)
           /\ cursor \in Nat /\ Top.start \in Nat
<1>1. cursor \in Nat /\ Top.start \in Nat /\ Len(tokens) \in Nat /\ cursor \in 0..(Len(tokens) - 1)
  BY TopParts
<1>2. QED
  BY <1>1 DEF ParserInv

LEMMA LambdaKeeps ==
    ASSUME ParserInv, Doing("lambda"), UNCHANGED <<source, tokens, cursor, diags, script>>,
           Then((IF CanParseLambda THEN Head1.then ELSE << >>) \o Rest)
    PROVE  ParserInv'
<1> DEFINE ss == Top.todo
           xs == Head1.then
           at2 == Onward(tokens, cursor, xs \o Rest)
<1>1. /\ stack # << >> /\ ss # << >> /\ Head1 = ss[1] /\ ss[1].do = "lambda"
      /\ Rest = Tail(ss)
  BY DoingIs
<1>2. /\ UNCHANGED <<source, tokens>> /\ diags' \in Seq(Diagnostics)
      /\ cursor' = cursor /\ cursor' \in cursor..(Len(tokens) - 1)
      /\ cursor \in Nat /\ Top.start \in Nat /\ << >> \o Rest = Rest
  BY <1>1, Idle, RestIsSeq
<1>3. Sound(Top.rule, Top.start, cursor, ss)
  BY <1>1, SoundHere
<1>4. AccessorBegun(Top.rule, Top.kids)
  BY <1>1, TopBegun
<1>5. CASE CanParseLambda
  <2>1. Top.start < cursor => Top.start < at2
    BY <1>2, OnwardLater
  <2> HIDE DEF at2
  <2>2. Sound(Top.rule, Top.start, at2, xs \o Rest)
    BY <1>1, <1>3, <2>1, SoundLambda
  <2>3. IsSeq(xs) /\ \A j \in 1..Len(xs) : xs[j].do # "tried"
    BY <1>1, <1>3, BranchParts
  <2>4. Then(xs \o Rest)
    BY <1>5
  <2> HIDE DEF xs
  <2>5. QED
    BY <1>1, <1>2, <1>4, <2>2, <2>3, <2>4, FrontGoes DEF at2
<1>6. CASE ~CanParseLambda
  <2>1. Then(<< >> \o Rest)
    BY <1>6, Zenon
  <2>2. Then(Rest)
    BY <1>2, <2>1, Zenon
  <2>3. ~Feeds(ss[1])
    BY <1>1, FeedingSteps
  <2>4. QED
    BY <1>1, <1>2, <1>4, <2>2, <2>3, RestGoes
<1>7. QED
  BY <1>5, <1>6

(* A function that has kept something has consumed text.                   *)
LEMMA NonEmptyKeeps ==
    ASSUME ParserInv, Doing("nonEmpty"), UNCHANGED <<source, tokens, cursor, diags, script>>,
           Then((IF Top.kids = << >> THEN <<Miss(Head1.miss)>> ELSE << >>) \o Rest)
    PROVE  ParserInv'
<1> DEFINE ss == Top.todo
           xs == <<Miss(Head1.miss)>>
           at2 == Onward(tokens, cursor, xs \o Rest)
<1>1. /\ stack # << >> /\ ss # << >> /\ Head1 = ss[1] /\ ss[1].do = "nonEmpty"
      /\ Rest = Tail(ss)
  BY DoingIs
<1>2. /\ UNCHANGED <<source, tokens>> /\ diags' \in Seq(Diagnostics)
      /\ cursor' = cursor /\ cursor' \in cursor..(Len(tokens) - 1)
      /\ cursor \in Nat /\ Top.start \in Nat /\ << >> \o Rest = Rest
  BY <1>1, Idle, RestIsSeq
<1>3. Sound(Top.rule, Top.start, cursor, ss)
  BY <1>1, SoundHere
<1>4. AccessorBegun(Top.rule, Top.kids)
  BY <1>1, TopBegun
<1>5. CASE Top.kids = << >>
  <2>1. Top.start < cursor => Top.start < at2
    BY <1>2, OnwardLater, SMTT(20)
  <2> HIDE DEF at2
  <2>2. Sound(Top.rule, Top.start, at2, xs \o Rest)
    BY <1>1, <1>3, <2>1, SoundMiss
  <2>3. IsSeq(xs) /\ \A j \in 1..Len(xs) : xs[j].do # "tried"
    BY MissStep
  <2>4. Then(xs \o Rest)
    BY <1>5, Zenon
  <2> HIDE DEF xs
  <2>5. QED
    BY <1>1, <1>2, <1>4, <2>2, <2>3, <2>4, FrontGoes DEF at2
<1>6. CASE Top.kids # << >>
  <2>1. Then(<< >> \o Rest)
    BY <1>6, Zenon
  <2>2. Then(Rest)
    BY <1>2, <2>1, Zenon
  <2>3. Top.start < cursor
    BY <1>1, <1>6, TopParts DEF KidsOK
  <2>4. QED
    BY <1>1, <1>2, <1>4, <2>2, <2>3, RestGoes
<1>7. QED
  BY <1>5, <1>6

(* All the branches.                                                       *)
LEMMA TakeBranchKeeps ==
    ASSUME ParserInv, TakeBranch
    PROVE  ParserInv'
BY BranchKeeps, LambdaKeeps, NonEmptyKeeps, Zenon DEF TakeBranch

(* The mark is passed.                                                     *)
LEMMA TrySucceedsKeeps ==
    ASSUME ParserInv, TrySucceeds
    PROVE  ParserInv'
<1>1. stack # << >> /\ Top.todo # << >> /\ Top.todo[1].do = "tried"
  BY DoingIs DEF TrySucceeds
<1>2. /\ UNCHANGED <<source, tokens>> /\ diags' \in Seq(Diagnostics) /\ Then(Rest)
      /\ cursor' \in cursor..(Len(tokens) - 1)
  BY <1>1, Idle DEF TrySucceeds
<1>3. ~Feeds(Top.todo[1]) /\ AccessorBegun(Top.rule, Top.kids)
  BY <1>1, FeedingSteps, TopBegun
<1>4. QED
  BY <1>1, <1>2, <1>3, RestGoes

(* What is reported is where a token is.                                   *)
LEMMA ReportedKeeps ==
    ASSUME ParserInv, stack # << >>, NEW why \in {"expected", "token", "duplicate"}, Report(why)
    PROVE  diags' \in Seq(Diagnostics)
<1>1. WellLexed(tokens) /\ cursor + 1 \in 1..Len(tokens)
  BY TopParts
<1>2. Cur.offset \in Nat /\ Cur.length \in Nat
  BY <1>1, LexedToken DEF Cur
<1>3. [why |-> why, offset |-> Cur.offset, length |-> Cur.length] \in Diagnostics
  BY <1>2 DEF Diagnostics
<1>4. diags \in Seq(Diagnostics)
  BY DEF ParserInv
<1>5. QED
  BY <1>3, <1>4 DEF Report

(* It is not stepped over the end of file.                                 *)
LEMMA SteppedInside ==
    ASSUME ParserInv, stack # << >>
    PROVE  Stepped \in cursor..(Len(tokens) - 1)
<1>1. WellLexed(tokens) /\ cursor \in 0..(Len(tokens) - 1) /\ Len(tokens) \in Nat
  BY TopParts
<1>2. cursor + 1 \in 1..Len(tokens)
  BY <1>1
<1>3. ~AtEnd => cursor + 1 # Len(tokens)
  BY <1>1, <1>2, LexedToken DEF AtEnd, Cur
<1>4. QED
  BY <1>1, <1>3 DEF Stepped

(* What is missing is passed over, reported, or stepped over.              *)
LEMMA MissOnKeeps ==
    ASSUME ParserInv, MissOn
    PROVE  ParserInv'
<1> DEFINE ss == Top.todo
<1>1. /\ stack # << >> /\ ss # << >> /\ Head1 = ss[1] /\ ss[1].do = "miss"
  BY DoingIs DEF MissOn
<1>2. ss[1].miss \in {"skip", "report", "error"} /\ Then(Rest) /\ UNCHANGED <<source, tokens>>
  BY <1>1 DEF MissOn
<1>3. /\ cursor' \in cursor..(Len(tokens) - 1) /\ diags' \in Seq(Diagnostics)
  <2>1. CASE ss[1].miss = "skip"
    <3>1. UNCHANGED <<cursor, diags>>
      BY <1>1, <2>1 DEF MissOn
    <3>2. QED
      BY <1>1, <1>2, <3>1, Idle
  <2>2. CASE ss[1].miss = "report"
    <3>1. Report("expected") /\ cursor' = cursor
      BY <1>1, <2>2 DEF MissOn
    <3>2. cursor \in 0..(Len(tokens) - 1) /\ cursor \in Nat /\ Len(tokens) \in Nat
      BY <1>1, TopParts
    <3>3. QED
      BY <1>1, <3>1, <3>2, ReportedKeeps
  <2>3. CASE ss[1].miss = "error"
    <3>1. Report("token") /\ cursor' = Stepped
      BY <1>1, <2>3 DEF MissOn
    <3>2. QED
      BY <1>1, <3>1, SteppedInside, ReportedKeeps
  <2>4. QED
    BY <1>2, <2>1, <2>2, <2>3
<1>4. ~Feeds(ss[1])
  BY <1>1, <1>2, FeedingSteps DEF GivesUp
<1>5. AccessorBegun(Top.rule, Top.kids)
  BY <1>1, <1>2, TopBegun
<1>6. QED
  BY <1>1, <1>2, <1>3, <1>4, <1>5, RestGoes
-----------------------------------------------------------------------------
(* Loops and Trys.                                                         *)

(* A body and the mark behind it, that is not a Try's.                     *)
LEMMA BodyParts ==
    ASSUME NEW body, IsSeq(body), \A i \in 1..Len(body) : ~Mark(body[i]),
           NEW m, m.do # "tried"
    PROVE  /\ IsSeq(body \o <<m>>)
           /\ \A j \in 1..Len(body \o <<m>>) : (body \o <<m>>)[j].do # "tried"
<1> DEFINE t == <<m>>
           xs == body \o t
<1>1. Len(t) = 1 /\ t[1] = m
  BY OneSeq
<1>0. IsSeq(t)
  BY OneSeq
<1> HIDE DEF t
<1>2. /\ IsSeq(xs) /\ Len(xs) = Len(body) + Len(t)
      /\ \A i \in 1..Len(body) : xs[i] = body[i]
      /\ \A i \in 1..Len(t) : xs[Len(body) + i] = t[i]
  BY <1>0, JoinedSeq
<1>3. Len(body) \in Nat
  BY LengthIsNat
<1> HIDE DEF xs
<1>4. ASSUME NEW j \in 1..Len(xs) PROVE xs[j].do # "tried"
  <2>1. CASE j \in 1..Len(body)
    BY <1>2, <2>1 DEF Mark
  <2>2. CASE j = Len(body) + 1
    BY <1>1, <1>2, <2>2
  <2>3. QED
    BY <1>1, <1>2, <1>3, <1>4, <2>1, <2>2
<1>5. QED
  BY <1>2, <1>4 DEF xs, t

(* The mark that a loop leaves.                                            *)
LEMMA AgainIs ==
    ASSUME NEW r, NEW start, NEW at, NEW ss, Sound(r, start, at, ss), ss # << >>,
           ss[1].do = "loop"
    PROVE  [ss[1] EXCEPT !.do = "again"].do = "again"
<1>1. PICK c \in Places : StepOK(r, c, ss[1])
  BY HeadPlace
<1>2. ss[1] \in Steps(r, c)
  BY <1>1, StepOKIs DEF Mark
<1>3. ss[1] = [do |-> "loop", stop |-> ss[1].stop, sep |-> ss[1].sep, body |-> ss[1].body]
  BY <1>2, StepParts
<1>4. QED
  BY <1>3

(* The loop's body comes first, and its mark behind it, or it is passed.   *)
LEMMA EnterLoopKeeps ==
    ASSUME ParserInv, EnterLoop
    PROVE  ParserInv'
<1> DEFINE ss == Top.todo
           m == [Head1 EXCEPT !.do = "again"]
           xs == Head1.body \o <<m>>
           at2 == Onward(tokens, cursor, xs \o Rest)
<1>1. /\ stack # << >> /\ ss # << >> /\ Head1 = ss[1] /\ ss[1].do = "loop"
      /\ Rest = Tail(ss)
  BY DoingIs DEF EnterLoop
<1>2. /\ UNCHANGED <<source, tokens>> /\ diags' \in Seq(Diagnostics)
      /\ cursor' = cursor /\ cursor' \in cursor..(Len(tokens) - 1)
      /\ cursor \in Nat /\ Top.start \in Nat
  BY <1>1, Idle DEF EnterLoop
<1>3. Sound(Top.rule, Top.start, cursor, ss) /\ AccessorBegun(Top.rule, Top.kids)
  BY <1>1, SoundHere, TopBegun
<1>4. CASE AtEnd \/ Passes(Head1.stop)
  <2>1. Then(Rest)
    BY <1>4, Zenon DEF EnterLoop
  <2>2. ~Feeds(ss[1])
    BY <1>1, FeedingSteps
  <2>3. QED
    BY <1>1, <1>2, <1>3, <2>1, <2>2, RestGoes
<1>5. CASE ~(AtEnd \/ Passes(Head1.stop))
  <2>1. Then(xs \o Rest)
    BY <1>5, Zenon DEF EnterLoop
  <2>2. Top.start < cursor => Top.start < at2
    BY <1>2, OnwardLater
  <2> HIDE DEF at2
  <2>3. /\ IsSeq(ss[1].body) /\ \A i \in 1..Len(ss[1].body) : ~Mark(ss[1].body[i])
        /\ Sound(Top.rule, Top.start, at2,
                 ss[1].body \o <<[ss[1] EXCEPT !.do = "again"]>> \o Tail(ss))
    BY <1>1, <1>3, <2>2, SoundLoop
  <2>4. Sound(Top.rule, Top.start, at2, xs \o Rest)
    BY <1>1, <2>3, Zenon
  <2>5. m.do # "tried"
    BY <1>1, <1>3, AgainIs
  <2> HIDE DEF m
  <2>6. IsSeq(xs) /\ \A j \in 1..Len(xs) : xs[j].do # "tried"
    BY <1>1, <2>3, <2>5, BodyParts
  <2> HIDE DEF xs
  <2>7. QED
    BY <1>1, <1>2, <1>3, <2>1, <2>4, <2>6, FrontGoes DEF at2
<1>6. QED
  BY <1>4, <1>5

(* There is a token behind a comma.                                        *)
LEMMA CommaInside ==
    ASSUME ParserInv, NextRound, stack # << >>
    PROVE  cursor' \in cursor..(Len(tokens) - 1)
<1>1. /\ WellLexed(tokens) /\ cursor \in 0..(Len(tokens) - 1) /\ Len(tokens) \in Nat
      /\ cursor \in Nat
  BY TopParts
<1>2. cursor' = cursor \/ (cursor' = cursor + 1 /\ Passes(Text(",")))
  BY DEF NextRound
<1>3. CASE Passes(Text(","))
  <2>1. Text(",") \in Tests
    <3>1. "," \in TestWords
      BY PunctuationIn
    <3>2. QED
      BY <3>1, TextTests
  <2>2. Cur.text \in Text(",").texts \/ Cur.kind \in Text(",").kinds
    BY <1>3 DEF Passes
  <2> DEFINE t == Text(",")
  <2>3. t \in Tests /\ (Cur.text \in t.texts \/ Cur.kind \in t.kinds)
    BY <2>1, <2>2
  <2> HIDE DEF t
  <2>4. cursor < Len(tokens) - 1
    BY <1>1, <2>3, PassesInside DEF Cur
  <2>5. cursor + 1 \in cursor..(Len(tokens) - 1) /\ cursor \in cursor..(Len(tokens) - 1)
    BY <1>1, <2>4
  <2>6. QED
    BY <1>2, <2>5, Zenon
<1>4. CASE ~Passes(Text(","))
  <2>1. cursor' = cursor
    BY <1>2, <1>4
  <2>2. QED
    BY <1>1, <2>1
<1>5. QED
  BY <1>3, <1>4

(* At the mark, the body comes once more, behind a comma in a list.        *)
LEMMA NextRoundKeeps ==
    ASSUME ParserInv, NextRound
    PROVE  ParserInv'
<1> DEFINE ss == Top.todo
           xs == Head1.body \o <<Head1>>
           at2 == Onward(tokens, cursor', xs \o Rest)
<1>1. /\ stack # << >> /\ ss # << >> /\ Head1 = ss[1] /\ ss[1].do = "again"
      /\ Rest = Tail(ss)
  BY DoingIs DEF NextRound
<1>2. /\ WellLexed(tokens) /\ cursor \in 0..(Len(tokens) - 1) /\ Len(tokens) \in Nat
      /\ cursor \in Nat /\ Top.start \in Nat /\ Top.start <= cursor /\ IsSeq(ss) /\ IsSeq(Rest)
  BY <1>1, TopParts, RestIsSeq
<1>3. Sound(Top.rule, Top.start, cursor, ss) /\ AccessorBegun(Top.rule, Top.kids)
  BY <1>1, SoundHere, TopBegun
<1>4. UNCHANGED <<source, tokens>> /\ diags' \in Seq(Diagnostics)
  BY DEF NextRound, ParserInv
<1>5. cursor' \in cursor..(Len(tokens) - 1)
  BY <1>1, CommaInside
<1>6. Then(Rest) \/ Then(Head1.body \o Top.todo)
  BY Zenon DEF NextRound
<1>7. CASE Then(Rest)
  <2>1. ~Feeds(ss[1])
    BY <1>1, FeedingSteps
  <2>2. QED
    BY <1>1, <1>3, <1>4, <1>5, <1>7, <2>1, RestGoes
<1>8. CASE Then(Head1.body \o Top.todo)
  <2>1. cursor' \in Nat /\ cursor <= cursor'
    BY <1>2, <1>5
  <2>2. Top.start < cursor => Top.start < at2
    BY <1>2, <2>1, OnwardLater
  <2> HIDE DEF at2
  <2>3. /\ IsSeq(ss[1].body) /\ \A i \in 1..Len(ss[1].body) : ~Mark(ss[1].body[i])
        /\ Sound(Top.rule, Top.start, at2, (ss[1].body \o <<ss[1]>>) \o Tail(ss))
    BY <1>1, <1>3, <2>2, SoundAgain
  <2>4. Sound(Top.rule, Top.start, at2, xs \o Rest) /\ IsSeq(Head1.body)
    BY <1>1, <2>3, Zenon
  <2>5. IsSeq(xs) /\ \A j \in 1..Len(xs) : xs[j].do # "tried"
    <3>1. Head1.do # "tried"
      BY <1>1
    <3>2. QED
      BY <1>1, <2>3, <3>1, BodyParts
  <2>50. IsSeq(Rest) /\ IsSeq(Head1.body)
    BY <1>2, <2>4
  <2>6. Then(xs \o Rest)
    <3> DEFINE t == <<Head1>>
    <3>1. t \o Rest = ss
      BY <1>1, <1>2, HeadJoined, Zenon
    <3>2. IsSeq(t)
      BY OneSeq
    <3> HIDE DEF t
    <3> DEFINE b == Head1.body
    <3>3. (b \o t) \o Rest = b \o (t \o Rest)
      <4>1. IsSeq(b) /\ IsSeq(t) /\ IsSeq(Rest)
        BY <2>50, <3>2
      <4> HIDE DEF b
      <4>2. QED
        BY <4>1, JoinedTwice
    <3>4. (Head1.body \o t) \o Rest = Head1.body \o Top.todo
      BY <3>1, <3>3, Zenon
    <3>5. QED
      BY <1>8, <3>4, Zenon DEF t
  <2> HIDE DEF xs
  <2>7. QED
    BY <1>1, <1>3, <1>4, <1>5, <2>4, <2>5, <2>6, FrontGoes DEF at2
<1>9. QED
  BY <1>6, <1>7, <1>8

(* The function on top goes on behind one of its marks, q - 1.             *)
LEMMA PartParts ==
    ASSUME ParserInv, stack # << >>, NEW q \in 1..(Len(Top.todo) + 1), NEW c2 \in Nat,
           \A i \in q..Len(Top.todo) : Top.todo[i].do = "tried" => Top.todo[i].at <= c2
    PROVE  MarksOK(tokens, Top.rule, Top.start, c2, From(q))
<1> DEFINE ss == Top.todo
           zs == From(q)
<1>1. /\ IsSeq(ss) /\ cursor \in Nat /\ Top.start \in Nat
      /\ MarksOK(tokens, Top.rule, Top.start, cursor, ss)
  BY TopParts
<1>2. IsSeq(zs)
  <2>1. Len(ss) \in Nat
    BY <1>1, LengthIsNat
  <2>2. Len(ss) \in (q - 1)..Len(ss)
    BY <2>1
  <2>3. QED
    BY <1>1, <2>2, PartSeq DEF From
<1>3. IsSeq(<< >>) /\ \A j \in 1..Len(<< >>) : (<< >>)[j].do # "tried"
  BY EmptyIsSeq
<1>4. MarksOK(tokens, Top.rule, Top.start, c2, << >> \o SubSeq(ss, q, Len(ss)))
  BY <1>1, <1>3, MarksBehind
<1>5. << >> \o SubSeq(ss, q, Len(ss)) = zs
  BY <1>2, EmptyJoined DEF From
<1>6. QED
  BY <1>4, <1>5, Zenon

(* A Try began where the cursor is now, or before it.                      *)
LEMMA MarkIsHere ==
    ASSUME ParserInv, stack # << >>, NEW i \in 1..Len(Top.todo), Top.todo[i].do = "tried"
    PROVE  Top.todo[i].at \in Nat /\ Top.start <= Top.todo[i].at /\ Top.todo[i].at <= cursor
<1>1. /\ cursor \in Nat /\ Top.start \in Nat
      /\ MarksOK(tokens, Top.rule, Top.start, cursor, Top.todo)
  BY TopParts
<1>2. Top.todo[i].at \in Top.start..cursor
  BY <1>1 DEF MarksOK, MarkOK
<1>3. QED
  BY <1>1, <1>2

(* The loop is left: there is a mark, and what is behind it is sound.      *)
LEMMA MissBreakKeeps ==
    ASSUME ParserInv, MissBreak
    PROVE  ParserInv'
<1> DEFINE ss == Top.todo
           i == FirstMark("again")
           q == i + 1
           at2 == Onward(tokens, cursor, From(q))
<1>1. /\ stack # << >> /\ ss # << >> /\ Head1 = ss[1] /\ ss[1].do = "miss"
  BY DoingIs DEF MissBreak
<1>2. ss[1].miss = "break" /\ Then(From(q))
  BY <1>1 DEF MissBreak
<1>3. /\ UNCHANGED <<source, tokens>> /\ diags' \in Seq(Diagnostics)
      /\ cursor' = cursor /\ cursor' \in cursor..(Len(tokens) - 1)
      /\ cursor \in Nat /\ Top.start \in Nat
  BY <1>1, Idle DEF MissBreak
<1>4. Sound(Top.rule, Top.start, cursor, ss) /\ AccessorBegun(Top.rule, Top.kids)
  BY <1>1, <1>2, SoundHere, TopBegun
<1>5. IsSeq(ss) /\ Len(ss) \in Nat
  BY <1>1, TopParts, LengthIsNat
<1>6. i \in 1..Len(ss) /\ ss[i].do = "again"
  <2>1. PICK j \in 2..Len(ss) : ss[j].do = "again"
    BY <1>1, <1>2, <1>4, SoundLeaves
  <2>2. j \in 1..Len(ss)
    BY <1>5, <2>1
  <2>3. QED
    BY <1>5, <2>1, <2>2, MarkFound
<1> HIDE DEF i
<1>7. q \in 1..(Len(ss) + 1) /\ q > 1 /\ q - 1 = i /\ Mark(ss[i])
  BY <1>5, <1>6 DEF Mark
<1> HIDE DEF q
<1>8. Sound(Top.rule, Top.start, at2, From(q))
  <2>1. Top.start < cursor => Top.start < at2
    BY <1>3, OnwardLater
  <2> HIDE DEF at2
  <2>2. Sound(Top.rule, Top.start, at2, SubSeq(ss, q, Len(ss)))
    BY <1>4, <1>7, <2>1, SoundPart
  <2>3. QED
    BY <2>2 DEF From
<1>9. MarksOK(tokens, Top.rule, Top.start, cursor, From(q))
  <2>1. \A k \in q..Len(ss) : ss[k].do = "tried" => ss[k].at <= cursor
    <3>1. ASSUME NEW k \in q..Len(ss), ss[k].do = "tried" PROVE ss[k].at <= cursor
      <4>1. k \in 1..Len(ss)
        BY <1>5, <1>7
      <4>2. QED
        BY <1>1, <3>1, <4>1, MarkIsHere
    <3>2. QED
      BY <3>1
  <2>2. QED
    BY <1>1, <1>3, <1>7, <2>1, PartParts
<1>10. QED
  BY <1>1, <1>2, <1>3, <1>4, <1>8, <1>9, TopThen

(* The mark holds where the function is and what it has kept by now.       *)
LEMMA EnterTryKeeps ==
    ASSUME ParserInv, EnterTry
    PROVE  ParserInv'
<1> DEFINE ss == Top.todo
           m == [do |-> "tried", at |-> cursor, kids |-> Top.kids,
                 otherwise |-> Head1.otherwise]
           zs == (Head1.body \o <<m>>) \o Rest
           at2 == Onward(tokens, cursor, zs)
<1>1. /\ stack # << >> /\ ss # << >> /\ Head1 = ss[1] /\ ss[1].do = "try"
      /\ Rest = Tail(ss)
  BY DoingIs DEF EnterTry
<1>2. Then(zs)
  BY Zenon DEF EnterTry
<1>3. /\ UNCHANGED <<source, tokens>> /\ diags' \in Seq(Diagnostics)
      /\ cursor' = cursor /\ cursor' \in cursor..(Len(tokens) - 1)
      /\ cursor \in Nat /\ Top.start \in Nat
  BY <1>1, Idle DEF EnterTry
<1>4. Sound(Top.rule, Top.start, cursor, ss) /\ AccessorBegun(Top.rule, Top.kids)
  BY <1>1, SoundHere, TopBegun
<1>5. m.do = "tried" /\ m.otherwise = ss[1].otherwise /\ m.at = cursor /\ m.kids = Top.kids
  BY <1>1
<1> HIDE DEF m
<1>6. /\ IsSeq(ss[1].body)
      /\ \A i \in 1..Len(ss[1].body) : ~Mark(ss[1].body[i])
      /\ Sound(Top.rule, Top.start, cursor, ss[1].otherwise \o Tail(ss))
  BY <1>1, <1>4, <1>5, SoundTry
<1>7. Sound(Top.rule, Top.start, at2, zs)
  <2>1. Top.start < cursor => Top.start < at2
    BY <1>3, OnwardLater
  <2> HIDE DEF at2
  <2>2. Sound(Top.rule, Top.start, at2, (ss[1].body \o <<m>>) \o Tail(ss))
    BY <1>1, <1>4, <1>5, <2>1, SoundTry
  <2>3. QED
    BY <1>1, <2>2, Zenon
<1>8. MarksOK(tokens, Top.rule, Top.start, cursor, zs)
  <2>1. /\ Top.start <= cursor /\ IsSeq(ss)
        /\ MarksOK(tokens, Top.rule, Top.start, cursor, ss)
        /\ KidsOK(tokens, Top.kids, Top.start, cursor)
    BY <1>1, TopParts
  <2>2. KidsOK(tokens, m.kids, Top.start, cursor) /\ AccessorBegun(Top.rule, m.kids)
    BY <1>4, <1>5, <2>1, Zenon
  <2>3. Sound(Top.rule, Top.start, cursor, m.otherwise \o Tail(ss))
    BY <1>5, <1>6, Zenon
  <2>4. MarksOK(tokens, Top.rule, Top.start, cursor, (ss[1].body \o <<m>>) \o Tail(ss))
    BY <1>1, <1>3, <1>5, <1>6, <2>1, <2>2, <2>3, MarkPut
  <2>5. QED
    BY <1>1, <2>4, Zenon
<1> HIDE DEF zs
<1>9. QED
  BY <1>1, <1>2, <1>3, <1>4, <1>7, <1>8, TopThen DEF at2

(* Metadata ends before the end of file, or at it.                         *)
LEMMA SkipMetadataKeeps ==
    ASSUME ParserInv, SkipMetadata
    PROVE  ParserInv'
<1>1. stack # << >> /\ Top.todo # << >> /\ Top.todo[1].do = "metadata"
  BY DoingIs DEF SkipMetadata
<1>2. WellLexed(tokens) /\ cursor \in 0..(Len(tokens) - 1)
  BY DEF ParserInv
<1>3. cursor' \in cursor..(Len(tokens) - 1)
  BY <1>2, MetadataInside DEF SkipMetadata
<1>4. UNCHANGED <<source, tokens>> /\ Then(Rest) /\ diags' \in Seq(Diagnostics)
  BY DEF SkipMetadata, ParserInv
<1>5. ~Feeds(Top.todo[1]) /\ AccessorBegun(Top.rule, Top.kids)
  BY <1>1, FeedingSteps, TopBegun
<1>6. QED
  BY <1>1, <1>3, <1>4, <1>5, RestGoes
-----------------------------------------------------------------------------
(* What leads back, or out of a Try.                                       *)

(* What is done when a Try fails is steps of the function.                 *)
LEMMA OtherwiseIs ==
    ASSUME NEW r, NEW start, NEW at, NEW ss, Sound(r, start, at, ss),
           NEW i \in 1..Len(ss), ss[i].do = "tried"
    PROVE  /\ IsSeq(ss[i].otherwise)
           /\ \A j \in 1..Len(ss[i].otherwise) : ss[i].otherwise[j].do # "tried"
<1> DEFINE s == ss[i]
<1>1. PICK c \in Places : StepOK(r, c, s)
  BY DEF Sound
<1>2. s \notin Steps(r, c) /\ s.do # "again"
  BY StepsAreNoMarks DEF Mark
<1>3. s.otherwise \in Seq(Steps(r, c))
  BY <1>1, <1>2 DEF StepOK
<1>4. IsSeq(s.otherwise) /\ \A j \in 1..Len(s.otherwise) : ~Mark(s.otherwise[j])
  BY <1>3, SeqIsSeq, StepsAreNoMarks
<1>5. QED
  BY <1>4 DEF Mark

(* The function goes back to the mark: what had been kept then is in order *)
(* there, and the marks further out were set no later.                     *)
LEMMA MissFailKeeps ==
    ASSUME ParserInv, MissFail
    PROVE  ParserInv'
<1> DEFINE ss == Top.todo
           i == FirstMark("tried")
           tried == ss[i]
           q == i + 1
           zs == tried.otherwise \o From(q)
           c2 == tried.at
           r == Top.rule
           start == Top.start
           at2 == Onward(tokens, c2, zs)
<1>1. /\ stack # << >> /\ ss # << >> /\ Head1 = ss[1] /\ ss[1].do = "miss"
  BY DoingIs DEF MissFail
<1>2. ss[1].miss = "fail" /\ cursor' = c2 /\ UNCHANGED <<source, tokens, diags>>
  BY <1>1 DEF MissFail
<1>3. Continue([Top EXCEPT !.kids = tried.kids, !.todo = zs])
  BY Zenon DEF MissFail
<1>4. Sound(r, start, cursor, ss)
  BY <1>1, SoundHere
<1>5. /\ IsSeq(ss) /\ Len(ss) \in Nat /\ start \in Nat /\ cursor \in Nat
      /\ cursor \in 0..(Len(tokens) - 1) /\ Len(tokens) \in Nat /\ WellLexed(tokens)
      /\ MarksOK(tokens, r, start, cursor, ss) /\ FrameOK(tokens, Top, cursor)
  BY <1>1, TopParts, LengthIsNat
<1>6. i \in 1..Len(ss) /\ tried.do = "tried"
  <2>1. PICK j \in 2..Len(ss) : ss[j].do = "tried"
    BY <1>1, <1>2, <1>4, SoundLeaves
  <2>2. j \in 1..Len(ss)
    BY <1>5, <2>1
  <2>3. QED
    BY <1>5, <2>1, <2>2, MarkFound
<1> HIDE DEF i
<1>7. c2 \in Nat /\ start <= c2 /\ c2 <= cursor
  BY <1>1, <1>6, MarkIsHere
<1>8. /\ KidsOK(tokens, tried.kids, start, c2) /\ AccessorBegun(r, tried.kids)
      /\ Sound(r, start, c2, tried.otherwise \o SubSeq(ss, i + 1, Len(ss)))
  BY <1>5, <1>6 DEF MarksOK, MarkOK
<1>9. Sound(r, start, at2, zs)
  <2>1. start < c2 => start < at2
    BY <1>5, <1>7, OnwardLater
  <2> HIDE DEF at2
  <2>2. Sound(r, start, c2, zs)
    BY <1>8 DEF From
  <2>3. QED
    BY <2>1, <2>2, SoundLater
<1>10. MarksOK(tokens, r, start, c2, zs)
  <2>1. q \in 1..(Len(ss) + 1) /\ q \in Nat /\ i < q
    BY <1>5, <1>6
  <2>2. ASSUME NEW k \in q..Len(ss), ss[k].do = "tried" PROVE ss[k].at <= c2
    <3>1. k \in 1..Len(ss) /\ i < k
      BY <1>5, <1>6, <2>1
    <3>2. QED
      BY <1>5, <1>6, <2>2, <3>1 DEF MarksOK
  <2>3. /\ IsSeq(tried.otherwise)
        /\ \A j \in 1..Len(tried.otherwise) : tried.otherwise[j].do # "tried"
    BY <1>4, <1>6, OtherwiseIs
  <2> DEFINE xs == tried.otherwise
  <2> HIDE DEF q, c2, r, start
  <2>4. MarksOK(tokens, r, start, c2, xs \o SubSeq(ss, q, Len(ss)))
    <3> HIDE DEF xs
    <3>1. IsSeq(xs) /\ \A j \in 1..Len(xs) : xs[j].do # "tried"
      BY <2>3 DEF xs
    <3>2. QED
      BY <1>5, <1>7, <2>1, <2>2, <3>1, MarksBehind
  <2>5. QED
    BY <2>4 DEF From
<1>11. stack' = [stack EXCEPT ![Len(stack)] = GoesOn(Top, zs, tried.kids)]
  <2> DEFINE g == [Top EXCEPT !.kids = tried.kids, !.todo = zs]
             ks == tried.kids
  <2>1. stack' = [stack EXCEPT ![Len(stack)] = g]
    BY <1>3, Zenon DEF Continue
  <2> HIDE DEF zs, ks
  <2>2. g = [Top EXCEPT !.kids = ks, !.todo = zs]
    BY DEF ks
  <2> HIDE DEF g
  <2>3. g = GoesOn(Top, zs, ks)
    BY <1>5, <2>2, FrameWith, Zenon
  <2>4. QED
    BY <2>1, <2>3, Zenon DEF ks
<1>12. /\ source' = source /\ diags' \in Seq(Diagnostics) /\ tokens' = tokens
       /\ WellLexed(tokens') /\ SameTo(tokens, tokens', cursor)
       /\ cursor' \in 0..(Len(tokens') - 1) /\ start <= cursor'
  <2>1. c2 \in 0..(Len(tokens) - 1)
    BY <1>5, <1>7
  <2>2. diags \in Seq(Diagnostics)
    BY DEF ParserInv
  <2>3. QED
    BY <1>2, <1>5, <1>7, <2>1, <2>2, SameTokens
<1>13. /\ Sound(r, start, Onward(tokens', cursor', zs), zs)
       /\ MarksOK(tokens', r, start, cursor', zs)
       /\ KidsOK(tokens', tried.kids, start, cursor')
  <2> HIDE DEF zs, tried
  <2>1. QED
    BY <1>2, <1>8, <1>9, <1>10, <1>12, Zenon
<1> HIDE DEF zs, tried
<1>14. QED
  BY <1>1, <1>8, <1>11, <1>12, <1>13, TopGoes, Zenon

(* A token of '>'s is not the end of file; split in two, the tokens are    *)
(* the same up to it.                                                      *)
LEMMA GtSplits ==
    ASSUME WellLexed(tokens), cursor \in 0..(Len(tokens) - 1),
           Cur.text \in DOMAIN AfterGt \cup {">"},
           NEW ts2, ts2 = IF Cur.text = ">" THEN tokens ELSE Split
    PROVE  /\ WellLexed(ts2) /\ SameTo(tokens, ts2, cursor)
           /\ cursor + 1 \in 0..(Len(ts2) - 1)
<1>1. Len(tokens) \in Nat \ {0} /\ cursor \in Nat /\ cursor + 1 \in 1..Len(tokens)
  BY LexedLength
<1>2. Cur.text # ""
  BY AfterGtIs
<1>3. cursor + 1 # Len(tokens)
  BY <1>1, <1>2, LexedToken DEF Cur
<1>4. CASE Cur.text = ">"
  <2>1. ts2 = tokens
    BY <1>4
  <2>2. QED
    BY <1>1, <1>3, <2>1, SameTokens
<1>5. CASE Cur.text # ">"
  <2>1. ts2 = Split /\ Cur.text \in DOMAIN AfterGt
    BY <1>5
  <2>2. WellLexed(Split)
    BY <2>1, SplitLexed
  <2>3. /\ Len(Split) = Len(tokens) + 1
        /\ \A i \in 1..cursor : Split[i] = tokens[i]
        /\ Split[cursor + 1] = [Cur EXCEPT !.text = ">", !.length = 1]
    BY <2>1, SplitParts
  <2>4. Split[cursor + 1].offset = Cur.offset
    <3>1. Cur \in Token_
      BY <1>1, LexedToken DEF Cur
    <3> DEFINE t == Split[cursor + 1]
               u == Cur
    <3>2. t = [u EXCEPT !.text = ">", !.length = 1] /\ u \in Token_
      BY <2>3, <3>1
    <3> HIDE DEF t, u
    <3>3. t.offset = u.offset
      BY <3>2 DEF Token_
    <3>4. QED
      BY <3>3 DEF t, u
  <2>5. SameTo(tokens, Split, cursor)
    BY <2>3, <2>4 DEF SameTo, Cur
  <2>6. cursor + 1 \in 0..(Len(Split) - 1)
    BY <1>1, <2>3
  <2>7. QED
    BY <2>1, <2>2, <2>5, <2>6
<1>6. QED
  BY <1>4, <1>5

(* A token of '>'s may be split: the functions that wait have seen nothing *)
(* of it.                                                                  *)
LEMMA CloseTemplateKeeps ==
    ASSUME ParserInv, CloseTemplate
    PROVE  ParserInv'
<1> DEFINE ss == Top.todo
           i == FirstMark("tried")
           zs == From(i)
           r == Top.rule
           start == Top.start
           c2 == cursor + 1
           ts2 == IF Cur.text = ">" THEN tokens ELSE Split
           at2 == Onward(ts2, c2, zs)
<1>1. /\ stack # << >> /\ ss # << >> /\ Head1 = ss[1] /\ ss[1].do = "gt"
  BY DoingIs DEF CloseTemplate
<1>2. Sound(r, start, cursor, ss) /\ AccessorBegun(r, Top.kids)
  BY <1>1, SoundHere, TopBegun
<1>3. /\ IsSeq(ss) /\ Len(ss) \in Nat /\ start \in Nat /\ cursor \in Nat /\ start <= cursor
      /\ cursor \in 0..(Len(tokens) - 1) /\ Len(tokens) \in Nat /\ WellLexed(tokens)
      /\ MarksOK(tokens, r, start, cursor, ss) /\ FrameOK(tokens, Top, cursor)
      /\ KidsOK(tokens, Top.kids, start, cursor)
  BY <1>1, TopParts, LengthIsNat
<1>4. CASE Cur.text \notin DOMAIN AfterGt \cup {">"}
  <2>1. UNCHANGED <<source, tokens, cursor, diags>> /\ Then(Rest)
    BY <1>4 DEF CloseTemplate
  <2>2. ~Feeds(ss[1])
    BY <1>1, FeedingSteps
  <2>3. /\ UNCHANGED <<source, tokens>> /\ diags' \in Seq(Diagnostics)
        /\ cursor' \in cursor..(Len(tokens) - 1)
    BY <1>1, <2>1, Idle
  <2>4. QED
    BY <1>1, <1>2, <2>1, <2>2, <2>3, RestGoes
<1>5. CASE Cur.text \in DOMAIN AfterGt \cup {">"}
  <2>1. tokens' = ts2 /\ cursor' = c2 /\ Then(zs) /\ UNCHANGED <<source, diags>>
    BY <1>5, Zenon DEF CloseTemplate
  <2>2. WellLexed(ts2) /\ SameTo(tokens, ts2, cursor) /\ c2 \in 0..(Len(ts2) - 1)
    BY <1>3, <1>5, GtSplits
  <2>3. i \in 1..Len(ss) /\ i \in 1..(Len(ss) + 1) /\ i \in Nat
    <3>1. PICK j \in 2..Len(ss) : ss[j].do = "tried"
      BY <1>1, <1>2, SoundLeaves
    <3>2. j \in 1..Len(ss)
      BY <1>3, <3>1
    <3>3. i \in 1..Len(ss)
      BY <1>3, <3>1, <3>2, MarkFound
    <3>4. QED
      BY <1>3, <3>3
  <2> HIDE DEF i, ts2
  <2>4. c2 \in Nat /\ start <= c2 /\ start < c2 /\ cursor <= c2 /\ cursor \in 0..cursor
        /\ start \in 0..cursor
    BY <1>3
  <2>5. Sound(r, start, at2, zs)
    <3>1. start < at2
      BY <1>3, <2>4, OnwardLater
    <3> HIDE DEF at2
    <3>2. Sound(r, start, at2, SubSeq(ss, i, Len(ss)))
      BY <1>2, <2>3, <3>1, SoundPart
    <3>3. QED
      BY <3>2 DEF From
  <2>6. MarksOK(ts2, r, start, c2, zs)
    <3>1. ASSUME NEW k \in i..Len(ss), ss[k].do = "tried" PROVE ss[k].at <= cursor
      <4>1. k \in 1..Len(ss)
        BY <1>3, <2>3
      <4>2. QED
        BY <1>1, <3>1, <4>1, MarkIsHere
    <3>2. MarksOK(tokens, r, start, cursor, zs)
      BY <1>1, <1>3, <2>3, <3>1, PartParts
    <3> HIDE DEF zs, c2, r, start
    <3>3. MarksOK(ts2, r, start, cursor, zs)
      BY <1>3, <2>2, <2>4, <3>2, MarksSame
    <3>4. QED
      BY <1>3, <2>4, <3>3, MarksLater
  <2>7. KidsOK(ts2, Top.kids, start, c2)
    <3>1. KidsOK(ts2, Top.kids, start, cursor)
      BY <1>3, <2>2, <2>4, KidsSame
    <3>2. cursor \in 0..(Len(ts2) - 1) /\ c2 \in cursor..(Len(ts2) - 1)
      <4>1. Len(ts2) \in Nat
        BY <2>2, LexedLength
      <4>2. QED
        BY <1>3, <2>2, <4>1
    <3> HIDE DEF c2, start
    <3>3. QED
      BY <2>2, <2>4, <3>1, <3>2, KidsLater
  <2>8. stack' = [stack EXCEPT ![Len(stack)] = GoesOn(Top, zs, Top.kids)]
    <3> HIDE DEF zs
    <3>1. [Top EXCEPT !.todo = zs] = GoesOn(Top, zs, Top.kids)
      BY <1>3, FrameThen, Zenon
    <3>2. QED
      BY <2>1, <3>1, Zenon DEF Then, Continue
  <2> HIDE DEF zs
  <2>9. source' = source /\ diags' \in Seq(Diagnostics)
    BY <2>1 DEF ParserInv
  <2>10. /\ WellLexed(tokens') /\ SameTo(tokens, tokens', cursor)
         /\ cursor' \in 0..(Len(tokens') - 1) /\ start <= cursor'
         /\ Sound(r, start, Onward(tokens', cursor', zs), zs)
         /\ MarksOK(tokens', r, start, cursor', zs)
         /\ KidsOK(tokens', Top.kids, start, cursor')
    BY <2>1, <2>2, <2>4, <2>5, <2>6, <2>7, Zenon
  <2>11. QED
    BY <1>1, <1>2, <2>8, <2>9, <2>10, TopGoes, Zenon
<1>6. QED
  BY <1>4, <1>5
-----------------------------------------------------------------------------
(* What is taken out of a node.                                            *)

(* A set of numbers up to n has a greatest one.                            *)
LEMMA MaxIsMaximum ==
    ASSUME NEW n \in Nat, NEW S \in SUBSET (1..n), S # {}
    PROVE  Max(S) \in S /\ \A y \in S : y <= Max(S)
<1> DEFINE U == {u \in Nat : \A y \in S : y <= u}
           m == Min(U)
<1>1. U \in SUBSET Nat /\ n \in U
  OBVIOUS
<1> HIDE DEF U
<1>2. m \in U /\ \A u \in U : m <= u
  BY <1>1, MinIsMinimum
<1> HIDE DEF m
<1>3. m \in Nat /\ \A y \in S : y <= m
  BY <1>2 DEF U
<1>4. m \in S
  <2>1. SUFFICES ASSUME m \notin S PROVE FALSE
    OBVIOUS
  <2>2. \A y \in S : y \in Nat /\ y >= 1 /\ y # m
    BY <2>1
  <2>3. m - 1 \in Nat
    <3>1. PICK y \in S : y \in Nat /\ y >= 1 /\ y <= m
      BY <1>3, <2>2
    <3>2. QED
      BY <1>3, <3>1
  <2>4. \A y \in S : y <= m - 1
    BY <1>3, <2>2
  <2>5. m - 1 \in U
    BY <2>3, <2>4 DEF U
  <2>6. QED
    BY <1>2, <1>3, <2>5
<1>5. \E x \in S : \A y \in S : x >= y
  BY <1>3, <1>4
<1>6. Max(S) \in S /\ \A y \in S : Max(S) >= y
  BY <1>5, Zenon DEF Max
<1>7. QED
  <2>1. \A x, y \in S : x \in Nat /\ y \in Nat
    OBVIOUS
  <2>2. QED
    BY <1>6, <2>1

(* Leaving out neighbours keeps the others in order.                       *)
LEMMA KidsWithout ==
    ASSUME NEW ts, NEW start, NEW c, NEW kids, KidsOK(ts, kids, start, c),
           NEW a \in 1..Len(kids), NEW b \in a..Len(kids)
    PROVE  KidsOK(ts, SubSeq(kids, 1, a - 1) \o SubSeq(kids, b + 1, Len(kids)), start, c)
<1> DEFINE n == Len(kids)
           s == SubSeq(kids, 1, a - 1)
           t == SubSeq(kids, b + 1, n)
           ks == s \o t
<1>1. IsSeq(kids) /\ n \in Nat /\ a \in Nat /\ b \in Nat /\ 1 <= a /\ a <= b /\ b <= n
  <2>1. IsSeq(kids)
    BY DEF KidsOK
  <2>2. n \in Nat
    BY <2>1, LengthIsNat
  <2>3. QED
    BY <2>1, <2>2
<1>2. /\ IsSeq(s) /\ Len(s) = a - 1
      /\ \A i \in 1..(a - 1) : s[i] = kids[i]
  <2>1. 1 \in 1..(n + 1) /\ a - 1 \in (1 - 1)..n
    BY <1>1
  <2>2. /\ IsSeq(s) /\ Len(s) = a - 1 - 1 + 1
        /\ \A i \in 1..(a - 1 - 1 + 1) : s[i] = kids[1 + i - 1]
    BY <1>1, <2>1, PartSeq
  <2> HIDE DEF s
  <2>3. QED
    BY <1>1, <2>2
<1>3. /\ IsSeq(t) /\ Len(t) = n - b
      /\ \A i \in 1..(n - b) : t[i] = kids[b + i]
  <2>1. b + 1 \in 1..(n + 1) /\ n \in (b + 1 - 1)..n
    BY <1>1
  <2>2. /\ IsSeq(t) /\ Len(t) = n - (b + 1) + 1
        /\ \A i \in 1..(n - (b + 1) + 1) : t[i] = kids[b + 1 + i - 1]
    BY <1>1, <2>1, PartSeq
  <2> HIDE DEF t
  <2>3. n - (b + 1) + 1 = n - b /\ \A i \in Int : b + 1 + i - 1 = b + i
    BY <1>1
  <2>4. QED
    BY <2>2, <2>3
<1> HIDE DEF s, t
<1>4. IsSeq(s) /\ IsSeq(t)
  BY <1>2, <1>3
<1>5. /\ IsSeq(ks) /\ Len(ks) = Len(s) + Len(t)
      /\ \A i \in 1..Len(s) : ks[i] = s[i]
      /\ \A i \in 1..Len(t) : ks[Len(s) + i] = t[i]
  BY <1>4, JoinedSeq
<1> DEFINE F == [i \in 1..(a - 1 + n - b) |-> IF i < a THEN i ELSE b + i - (a - 1)]
<1> HIDE DEF ks
<1>6. Len(ks) = a - 1 + n - b
  BY <1>1, <1>2, <1>3, <1>5
<1>7. ASSUME NEW i \in 1..Len(ks) PROVE F[i] \in 1..n /\ ks[i] = kids[F[i]]
  <2>1. F[i] = IF i < a THEN i ELSE b + i - (a - 1)
    BY <1>6
  <2> HIDE DEF F
  <2>2. CASE i < a
    <3>1. i \in 1..(a - 1) /\ i \in 1..n
      BY <1>1, <1>6, <2>2
    <3>2. QED
      BY <1>2, <1>5, <2>1, <2>2, <3>1
  <2>3. CASE ~(i < a)
    <3> DEFINE k == i - (a - 1)
    <3>1. k \in 1..(n - b) /\ (a - 1) + k = i /\ b + k \in 1..n /\ b + k = b + i - (a - 1)
      BY <1>1, <1>6, <2>3
    <3> HIDE DEF k
    <3>2. ks[i] = t[k]
      BY <1>2, <1>3, <1>5, <3>1
    <3>3. t[k] = kids[b + k]
      BY <1>3, <3>1
    <3>4. F[i] = b + k
      BY <2>1, <2>3, <3>1
    <3>5. QED
      BY <3>1, <3>2, <3>3, <3>4
  <2>4. QED
    BY <2>2, <2>3
<1>8. \A i, j \in 1..Len(ks) : i < j => F[i] < F[j]
  <2>1. \A i \in 1..Len(ks) : F[i] = IF i < a THEN i ELSE b + i - (a - 1)
    BY <1>6
  <2> HIDE DEF F
  <2>2. QED
    BY <1>1, <1>6, <2>1
<1> HIDE DEF F
<1>9. KidsOK(ts, ks, start, c)
  <2>1. \A i \in 1..Len(ks) : F[i] \in 1..Len(kids) /\ ks[i] = kids[F[i]]
    BY <1>7
  <2>2. IsSeq(ks)
    BY <1>5
  <2>3. QED
    BY <1>8, <2>1, <2>2, KidsOfThem, Zenon
<1>10. QED
  BY <1>9 DEF ks, s, t

(* The function on top leaves out some of what it has kept.                *)
LEMMA KidsGo ==
    ASSUME ParserInv, stack # << >>, Top.todo # << >>, NEW ks,
           stack' = [stack EXCEPT ![Len(stack)] = [Top EXCEPT !.todo = Rest, !.kids = ks]],
           UNCHANGED <<source, tokens, cursor>>, diags' \in Seq(Diagnostics),
           Top.todo[1].do # "token", ~Feeds(Top.todo[1]), Top.rule # "Accessor",
           KidsOK(tokens, ks, Top.start, cursor)
    PROVE  ParserInv'
<1> DEFINE at2 == Onward(tokens, cursor, Rest)
           g == [Top EXCEPT !.todo = Rest, !.kids = ks]
<1>1. /\ cursor \in Nat /\ Top.start \in Nat /\ IsSeq(Top.todo) /\ WellLexed(tokens)
      /\ MarksOK(tokens, Top.rule, Top.start, cursor, Top.todo) /\ Top.start <= cursor
      /\ FrameOK(tokens, Top, cursor) /\ cursor \in 0..(Len(tokens) - 1)
  BY TopParts
<1>2. MarksOK(tokens, Top.rule, Top.start, cursor, Rest)
  BY <1>1, MarksOfTail DEF Rest
<1>3. Sound(Top.rule, Top.start, at2, Rest)
  <2>1. Sound(Top.rule, Top.start, cursor, Top.todo)
    BY SoundHere
  <2>2. Top.start < cursor => Top.start < at2
    BY <1>1, OnwardLater
  <2> HIDE DEF at2
  <2>3. Sound(Top.rule, Top.start, at2, Tail(Top.todo))
    BY <2>1, <2>2, SoundRest
  <2>4. QED
    BY <2>3 DEF Rest
<1>4. g = GoesOn(Top, Rest, ks)
  <2>1. g = [Top EXCEPT !.todo = Rest, !.kids = ks]
    OBVIOUS
  <2> HIDE DEF g
  <2>2. QED
    BY <1>1, <2>1, FrameWith, Zenon
<1>5. stack' = [stack EXCEPT ![Len(stack)] = GoesOn(Top, Rest, ks)]
  BY <1>4, Zenon
<1>6. AccessorBegun(Top.rule, ks)
  BY DEF AccessorBegun
<1>7. tokens' = tokens /\ cursor' = cursor /\ source' = source
  OBVIOUS
<1>8. SameTo(tokens, tokens', cursor)
  BY <1>7, SameTokens
<1>9. /\ WellLexed(tokens') /\ cursor' \in 0..(Len(tokens') - 1) /\ Top.start <= cursor'
      /\ Sound(Top.rule, Top.start, Onward(tokens', cursor', Rest), Rest)
      /\ MarksOK(tokens', Top.rule, Top.start, cursor', Rest)
      /\ KidsOK(tokens', ks, Top.start, cursor')
  BY <1>1, <1>2, <1>3, <1>7
<1>10. QED
  BY <1>5, <1>6, <1>7, <1>8, <1>9, TopGoes, Zenon

(* Only a scope drops types, and the rest stays in order.                  *)
LEMMA DropOlderTypesKeeps ==
    ASSUME ParserInv, DropOlderTypes
    PROVE  ParserInv'
<1> DEFINE ss == Top.todo
           kids == Top.kids
           n == Len(kids)
           older == {k \in 1..n : "rule" \in DOMAIN kids[k] /\ kids[k].rule = "Type"}
           ks == IF older = {} THEN kids
                 ELSE SubSeq(kids, 1, Min(older) - 1) \o SubSeq(kids, Max(older) + 1, n)
<1>1. /\ stack # << >> /\ ss # << >> /\ Head1 = ss[1] /\ ss[1].do = "dropTypes"
  BY DoingIs DEF DropOlderTypes
<1>2. stack' = [stack EXCEPT ![Len(stack)] = [Top EXCEPT !.todo = Rest, !.kids = ks]]
  BY Zenon DEF DropOlderTypes, Continue
<1>3. UNCHANGED <<source, tokens, cursor>> /\ diags' \in Seq(Diagnostics)
  BY DEF DropOlderTypes, ParserInv
<1>4. Top.rule # "Accessor"
  <2>1. Sound(Top.rule, Top.start, cursor, ss)
    BY <1>1, SoundHere
  <2>2. Top.rule = "Scope"
    BY <1>1, <2>1, SoundLeaves
  <2>3. QED
    BY <2>2
<1>5. ~Feeds(ss[1])
  BY <1>1, FeedingSteps
<1>6. KidsOK(tokens, kids, Top.start, cursor) /\ n \in Nat
  BY <1>1, TopParts, LengthIsNat
<1>7. KidsOK(tokens, ks, Top.start, cursor)
  <2>1. CASE older = {}
    BY <1>6, <2>1
  <2>2. CASE older # {}
    <3> DEFINE a == Min(older)
               b == Max(older)
    <3>1. older \in SUBSET Nat /\ older \in SUBSET (1..n)
      OBVIOUS
    <3>2. ks = SubSeq(kids, 1, a - 1) \o SubSeq(kids, b + 1, n)
      BY <2>2
    <3> HIDE DEF older, ks
    <3>3. a \in older /\ b \in older /\ \A y \in older : y <= b
      BY <1>6, <2>2, <3>1, MinIsMinimum, MaxIsMaximum
    <3> HIDE DEF a, b
    <3>4. a \in 1..n /\ b \in 1..n /\ a <= b
      BY <3>1, <3>3
    <3>5. b \in a..n
      BY <1>6, <3>4
    <3>6. KidsOK(tokens, SubSeq(kids, 1, a - 1) \o SubSeq(kids, b + 1, n), Top.start, cursor)
      BY <1>6, <3>4, <3>5, KidsWithout
    <3>7. QED
      BY <3>2, <3>6, Zenon
  <2>3. QED
    BY <2>1, <2>2
<1> HIDE DEF ks
<1>8. QED
  BY <1>1, <1>2, <1>3, <1>4, <1>5, <1>7, KidsGo

(* Only a property refuses accessors, and reports where their first token  *)
(* is.                                                                     *)
LEMMA RefuseSecondAccessorKeeps ==
    ASSUME ParserInv, RefuseSecondAccessor
    PROVE  ParserInv'
<1> DEFINE ss == Top.todo
           kids == Top.kids
           n == Len(kids)
           IsAccessor(k) == "rule" \in DOMAIN kids[k] /\ kids[k].rule = "Accessor"
           Sort(k) == kids[k].kids[1]
           second == \E k \in 1..(n - 1) :
                        /\ IsAccessor(k) /\ IsAccessor(n)
                        /\ Sort(k).text = Sort(n).text
           ks == SubSeq(kids, 1, n - 1)
           diag == [why |-> "duplicate", offset |-> Sort(n).offset, length |-> Sort(n).length]
<1>1. /\ stack # << >> /\ ss # << >> /\ Head1 = ss[1] /\ ss[1].do = "refuseSecond"
  BY DoingIs DEF RefuseSecondAccessor
<1>2. /\ UNCHANGED <<source, tokens, cursor>>
      /\ \/ /\ second /\ diags' = Append(diags, diag)
            /\ Continue([Top EXCEPT !.todo = Rest, !.kids = ks])
         \/ Then(Rest) /\ UNCHANGED diags
  BY Zenon DEF RefuseSecondAccessor
<1>3. Sound(Top.rule, Top.start, cursor, ss) /\ AccessorBegun(Top.rule, Top.kids)
  BY <1>1, SoundHere, TopBegun
<1>4. Top.rule # "Accessor"
  <2>1. Top.rule = "VirtualProp"
    BY <1>1, <1>3, SoundLeaves
  <2>2. QED
    BY <2>1
<1>5. ~Feeds(ss[1])
  BY <1>1, FeedingSteps
<1>6. KidsOK(tokens, kids, Top.start, cursor) /\ n \in Nat /\ IsSeq(kids)
  BY <1>1, TopParts, LengthIsNat
<1>7. CASE Then(Rest) /\ UNCHANGED diags
  <2>1. UNCHANGED <<source, tokens, cursor, diags>>
    BY <1>2, <1>7
  <2>2. /\ UNCHANGED <<source, tokens>> /\ diags' \in Seq(Diagnostics)
        /\ cursor' \in cursor..(Len(tokens) - 1)
    BY <1>1, <2>1, Idle
  <2>3. QED
    BY <1>1, <1>3, <1>5, <1>7, <2>2, RestGoes
<1>8. CASE /\ second /\ diags' = Append(diags, diag)
           /\ Continue([Top EXCEPT !.todo = Rest, !.kids = ks])
  <2>1. PICK k \in 1..(n - 1) : IsAccessor(n)
    BY <1>8
  <2>2. n \in 1..n /\ n >= 1
    BY <1>6, <2>1
  <2>3. Sort(n).offset \in Nat /\ Sort(n).length \in Nat
    <3>1. KidOK(kids[n])
      BY <1>6, <2>2 DEF KidsOK
    <3>2. Sort(n) \in Token_
      BY <2>1, <3>1 DEF KidOK
    <3>3. QED
      BY <3>2 DEF Token_
  <2>4. diags' \in Seq(Diagnostics)
    <3>1. diag \in Diagnostics
      BY <2>3 DEF Diagnostics
    <3>2. diags \in Seq(Diagnostics)
      BY DEF ParserInv
    <3> HIDE DEF diag
    <3>3. QED
      BY <1>8, <3>1, <3>2
  <2>5. stack' = [stack EXCEPT ![Len(stack)] = [Top EXCEPT !.todo = Rest, !.kids = ks]]
    BY <1>8, Zenon DEF Continue
  <2>6. KidsOK(tokens, ks, Top.start, cursor)
    <3> DEFINE F == [i \in 1..(n - 1) |-> i]
    <3>1. 1 \in 1..(n + 1) /\ n - 1 \in (1 - 1)..n
      BY <1>6, <2>2
    <3>2. /\ IsSeq(ks) /\ Len(ks) = n - 1 - 1 + 1
          /\ \A i \in 1..(n - 1 - 1 + 1) : ks[i] = kids[1 + i - 1]
      BY <1>6, <3>1, PartSeq
    <3> HIDE DEF ks
    <3>3. Len(ks) = n - 1
      BY <1>6, <3>2
    <3>4. \A i \in 1..Len(ks) : F[i] = i /\ i \in 1..n /\ 1 + i - 1 = i
      BY <1>6, <3>3
    <3> HIDE DEF F
    <3>5. \A i \in 1..Len(ks) : F[i] \in 1..Len(kids) /\ ks[i] = kids[F[i]]
      BY <3>2, <3>4
    <3>6. \A i, j \in 1..Len(ks) : i < j => F[i] < F[j]
      BY <3>4
    <3>7. IsSeq(ks)
      BY <3>2
    <3>8. QED
      BY <1>6, <3>5, <3>6, <3>7, KidsOfThem, SMTT(20)
  <2> HIDE DEF ks
  <2>7. QED
    BY <1>1, <1>2, <1>4, <1>5, <2>4, <2>5, <2>6, KidsGo
<1>9. QED
  BY <1>2, <1>7, <1>8
-----------------------------------------------------------------------------
(* Calls and returns.                                                      *)

(* A function that has been called has everything yet to do.               *)
LEMMA FreshFrame ==
    ASSUME NEW ts, NEW c \in Nat, NEW r \in RuleNames
    PROVE  /\ FrameOK(ts, Frame(r, c), c)
           /\ Frame(r, c).start = c /\ Frame(r, c).rule = r
<1> DEFINE g == Frame(r, c)
           zs == Rules[r]
           at2 == Onward(ts, c, zs)
<1>1. g = [rule |-> r, start |-> c, todo |-> zs, kids |-> << >>]
  BY Zenon DEF Frame
<1>2. Sound(r, c, at2, zs) /\ \A i \in 1..Len(zs) : ~Mark(zs[i])
  <2>1. Fresh(r, c, at2, zs)
    BY EveryRuleIsSound, Zenon
  <2>2. QED
    BY <2>1, Zenon DEF Fresh
<1>3. KidsOK(ts, << >>, c, c) /\ MarksOK(ts, r, c, c, zs)
  BY <1>2, NoKids, NoMarks
<1>4. AccessorBegun(r, << >>) \/ NotBegun(<< >>, zs)
  BY DEF AccessorBegun, NotBegun
<1> HIDE DEF g, zs
<1>5. g.rule = r /\ g.start = c /\ g.todo = zs /\ g.kids = << >>
  BY <1>1
<1>6. g = [rule |-> g.rule, start |-> g.start, todo |-> g.todo, kids |-> g.kids]
  BY <1>1, <1>5, Zenon
<1>7. c <= c
  OBVIOUS
<1>8. FrameOK(ts, g, c)
  BY <1>2, <1>3, <1>4, <1>5, <1>6, <1>7, Zenon DEF FrameOK, at2
<1>9. QED
  BY <1>5, <1>8 DEF g

(* The function called is sound where it starts (EveryRuleIsSound).        *)
LEMMA CallKeeps ==
    ASSUME ParserInv, Call
    PROVE  ParserInv'
<1> DEFINE ss == Top.todo
           r == Head1.rules[1]
           g == Frame(r, cursor)
<1>1. /\ stack # << >> /\ ss # << >> /\ Head1 = ss[1] /\ ss[1].do = "rules"
  BY DoingIs DEF Call
<1>2. stack' = Append(stack, g) /\ UNCHANGED <<source, tokens, cursor, diags>>
  BY Zenon DEF Call
<1>3. /\ cursor \in Nat /\ StackOK(tokens, stack, cursor)
  BY <1>1, TopParts
<1>4. r \in RuleNames
  BY <1>1, SoundHere, SoundCall
<1>5. FrameOK(tokens, g, cursor) /\ g.start = cursor /\ g.rule = r
  BY <1>3, <1>4, FreshFrame
<1>6. Calls(Top, g)
  BY <1>1, <1>5 DEF Calls
<1> HIDE DEF g
<1>7. StackOK(tokens, Append(stack, g), cursor)
  BY <1>1, <1>3, <1>5, <1>6, StackCalls DEF Top
<1>8. StackOK(tokens', stack', cursor')
  BY <1>2, <1>7, Zenon
<1>9. QED
  BY <1>2, <1>8 DEF ParserInv

(* The function that called the one on top.                                *)
LEMMA CallerParts ==
    ASSUME ParserInv, stack # << >>, Len(stack) # 1, NEW f, f = stack[Len(stack) - 1]
    PROVE  /\ Len(stack) > 1
           /\ FrameOK(tokens, f, Top.start) /\ Calls(f, Top)
           /\ f.start \in Nat /\ f.start <= Top.start
           /\ Top.rule \in Bearing \/ f.start < Top.start
<1> DEFINE n == Len(stack)
           m == n - 1
<1>1. n \in Nat \ {0} /\ StackOK(tokens, stack, cursor)
  BY TopParts
<1>2. n > 1 /\ m \in 1..n /\ m < n /\ m + 1 = n
  <2>1. n \in Nat \ {0} /\ n # 1
    BY <1>1
  <2> HIDE DEF n
  <2>2. QED
    BY <2>1
<1> HIDE DEF m
<1>3. FrameOK(tokens, stack[m], stack[m + 1].start) /\ Calls(stack[m], stack[m + 1])
  BY <1>1, <1>2, StackBelow
<1>4. FrameOK(tokens, f, Top.start) /\ Calls(f, Top)
  <2>1. f = stack[m]
    BY DEF m
  <2>2. stack[m + 1] = Top
    BY <1>2 DEF Top
  <2>3. QED
    BY <1>3, <2>1, <2>2, Zenon
<1>5. f.start \in Nat /\ f.start <= Top.start
  BY <1>4 DEF FrameOK
<1>6. Top.rule \in Bearing \/ f.start < Top.start
  <2>1. f.todo # << >> /\ f.todo[1].do = "rules" /\ f.todo[1].rules[1] = Top.rule
    BY <1>4 DEF Calls
  <2>2. Onward(tokens, Top.start, f.todo) = Top.start
    BY <2>1 DEF Onward, Eager
  <2>3. Sound(f.rule, f.start, Top.start, f.todo)
    BY <1>4, <2>2 DEF FrameOK
  <2>4. f.todo[1].rules[1] \in Bearing \/ f.start < Top.start
    BY <2>1, <2>3, SoundCall
  <2>5. QED
    BY <2>1, <2>4
<1>7. QED
  BY <1>2, <1>4, <1>5, <1>6

-----------------------------------------------------------------------------
(* The accessors of a property.                                            *)

(* The steps of parseVirtualProp.                                          *)
LEMMA PropertyDoes ==
    ASSUME NEW s, PropertyStep(s)
    PROVE  /\ s.do \in {"metadata", "refuseSecond", "rules", "token", "miss", "loop", "again"}
           /\ s.do = "rules" => s \in {ReadAccessor, NeedBack("Type")}
           /\ s.do \in {"token", "miss"} => s.miss \in {"skip", "report", "back", "error"}
           /\ s.do \in {"loop", "again"} => s.body = <<ReadAccessor, RefuseSecond>>
<1>1. /\ Metadata.do = "metadata" /\ RefuseSecond.do = "refuseSecond"
      /\ ReadAccessor.do = "rules" /\ NeedBack("Type").do = "rules"
  BY DEF Metadata, RefuseSecond, ReadAccessor, NeedBack, Any
<1>2. CASE s \in {Metadata, RefuseSecond, ReadAccessor, NeedBack("Type")}
  BY <1>1, <1>2
<1>3. CASE s.do \in {"token", "miss"} /\ s.miss \in {"skip", "report", "back", "error"}
  BY <1>3
<1>4. CASE s.do \in {"loop", "again"} /\ s.body = <<ReadAccessor, RefuseSecond>>
  BY <1>4
<1>5. QED
  BY <1>2, <1>3, <1>4 DEF PropertyStep

(* What it calls.                                                          *)
LEMMA PropertyCalls ==
    /\ ReadAccessor.do = "rules" /\ ReadAccessor.rules = <<"Accessor">>
    /\ ReadAccessor.hit = << >> /\ ReadAccessor.miss = "error"
    /\ NeedBack("Type").do = "rules" /\ NeedBack("Type").rules = <<"Type">>
    /\ NeedBack("Type").hit = << >> /\ NeedBack("Type").miss = "back"
    /\ RefuseSecond.do = "refuseSecond"
BY DEF ReadAccessor, NeedBack, Any, RefuseSecond

LEMMA SortsFewer ==
    ASSUME NEW kids, NEW n \in Int, NEW m \in Int, m <= n, SortsDiffer(kids, n)
    PROVE  SortsDiffer(kids, m)
<1>1. 1..m \subseteq 1..n
  OBVIOUS
<1>2. QED
  BY <1>1 DEF SortsDiffer

(* It does xs before the rest of what it has to do, and keeps ks.          *)
LEMMA PropertyGoes ==
    ASSUME NEW kids, NEW ss, IsSeq(ss), ss # << >>, PropertyOK(kids, ss),
           NEW ks, NEW xs, IsSeq(xs),
           \A i \in 1..Len(xs) :
               /\ PropertyStep(xs[i]) /\ xs[i] # NeedBack("Type")
               /\ xs[i] = ReadAccessor => i < Len(xs) /\ xs[i + 1] = RefuseSecond,
           ss[1].do \in {"metadata", "token", "miss"} =>
               /\ \A i \in 1..Len(xs) : xs[i].do \in {"metadata", "token", "miss"}
               /\ (\E k \in 1..Len(ks) : "rule" \in DOMAIN ks[k])
                      => \E k \in 1..Len(kids) : "rule" \in DOMAIN kids[k],
           NEW zs, zs = xs \o Tail(ss),
           SortsDiffer(ks, IF zs # << >> /\ zs[1] = RefuseSecond THEN Len(ks) - 1 ELSE Len(ks))
    PROVE  PropertyOK(ks, zs)
<1> DEFINE n == Len(xs)
           m == Len(ss)
           T == NeedBack("Type")
           Opens == {"metadata", "token", "miss"}
<1>1. n \in Nat /\ m \in Nat \ {0}
  BY EmptyIsSeq, LengthIsNat
<1>2. /\ IsSeq(Tail(ss)) /\ Len(Tail(ss)) = m - 1
      /\ \A i \in 1..(m - 1) : Tail(ss)[i] = ss[i + 1]
  BY TailSeq
<1>3. /\ IsSeq(zs) /\ Len(zs) = n + (m - 1)
      /\ \A i \in 1..n : zs[i] = xs[i]
      /\ \A i \in 1..(m - 1) : zs[n + i] = ss[i + 1]
  BY <1>2, JoinedSeq
<1>4. \A i \in 1..m :
          /\ PropertyStep(ss[i])
          /\ ss[i] = ReadAccessor => i < m /\ ss[i + 1] = RefuseSecond
          /\ ss[i] = T => /\ \A j \in 1..(i - 1) : ss[j].do \in Opens
                          /\ \A k \in 1..Len(kids) : "rule" \notin DOMAIN kids[k]
  BY DEF PropertyOK
<1>5. \A i \in 1..n :
          /\ PropertyStep(xs[i]) /\ xs[i] # T
          /\ xs[i] = ReadAccessor => i < n /\ xs[i + 1] = RefuseSecond
  OBVIOUS
<1>6. ss[1].do \in Opens =>
          /\ \A i \in 1..n : xs[i].do \in Opens
          /\ (\E k \in 1..Len(ks) : "rule" \in DOMAIN ks[k])
                 => \E k \in 1..Len(kids) : "rule" \in DOMAIN kids[k]
  OBVIOUS
<1> HIDE DEF n, m, T, Opens
<1>7. ASSUME NEW i \in 1..Len(zs), i > n
      PROVE  i - n + 1 \in 2..m /\ zs[i] = ss[i - n + 1] /\ i \in Nat
  <2>1. i \in Nat /\ i <= n + (m - 1)
    BY <1>1, <1>3
  <2>2. i - n \in 1..(m - 1) /\ n + (i - n) = i
    BY <1>1, <1>7, <2>1
  <2>3. zs[n + (i - n)] = ss[(i - n) + 1]
    BY <1>3, <2>2
  <2>4. i - n + 1 \in 2..m
    BY <1>1, <2>2
  <2>5. QED
    BY <2>1, <2>2, <2>3, <2>4
<1>8. ASSUME NEW i \in 1..Len(zs)
      PROVE  PropertyStep(zs[i])
  <2>1. CASE i > n
    <3>1. i - n + 1 \in 1..m /\ zs[i] = ss[i - n + 1]
      BY <1>1, <1>7, <2>1
    <3>2. QED
      BY <1>4, <3>1
  <2>2. CASE ~(i > n)
    <3>1. i \in 1..n
      BY <1>1, <1>3, <2>2
    <3>2. QED
      BY <1>3, <1>5, <3>1
  <2>3. QED
    BY <2>1, <2>2
<1>9. ASSUME NEW i \in 1..Len(zs), zs[i] = ReadAccessor
      PROVE  i < Len(zs) /\ zs[i + 1] = RefuseSecond
  <2>1. CASE i > n
    <3> DEFINE j == i - n + 1
    <3>1. j \in 2..m /\ j \in 1..m /\ zs[i] = ss[j] /\ i \in Nat
      BY <1>1, <1>7, <2>1
    <3>2. j < m /\ ss[j + 1] = RefuseSecond
      BY <1>4, <1>9, <3>1
    <3>3. j \in 1..(m - 1) /\ n + j = i + 1
      BY <1>1, <3>1, <3>2
    <3>4. i < Len(zs)
      BY <1>1, <1>3, <3>1, <3>2
    <3> HIDE DEF j
    <3>5. zs[n + j] = ss[j + 1]
      BY <1>3, <3>3
    <3>6. QED
      BY <3>2, <3>3, <3>4, <3>5
  <2>2. CASE ~(i > n)
    <3>1. i \in 1..n /\ i \in Nat
      BY <1>1, <1>3, <2>2
    <3>2. i < n /\ xs[i + 1] = RefuseSecond
      BY <1>3, <1>5, <1>9, <3>1
    <3>3. i + 1 \in 1..n /\ i < Len(zs)
      BY <1>1, <1>3, <3>1, <3>2
    <3>4. QED
      BY <1>3, <3>2, <3>3
  <2>3. QED
    BY <2>1, <2>2
<1>10. ASSUME NEW i \in 1..Len(zs), zs[i] = T
       PROVE  /\ \A j \in 1..(i - 1) : zs[j].do \in Opens
              /\ \A k \in 1..Len(ks) : "rule" \notin DOMAIN ks[k]
  <2>1. i > n
    <3>1. SUFFICES ASSUME ~(i > n) PROVE FALSE
      OBVIOUS
    <3>2. i \in 1..n
      BY <1>1, <1>3, <3>1
    <3>3. QED
      BY <1>3, <1>5, <1>10, <3>2
  <2> DEFINE j == i - n + 1
  <2>2. j \in 2..m /\ j \in 1..m /\ zs[i] = ss[j] /\ i \in Nat /\ 1 \in 1..(j - 1)
    BY <1>1, <1>7, <2>1
  <2>3. /\ \A p \in 1..(j - 1) : ss[p].do \in Opens
        /\ \A k \in 1..Len(kids) : "rule" \notin DOMAIN kids[k]
    BY <1>4, <1>10, <2>2
  <2>4. ss[1].do \in Opens
    BY <2>2, <2>3
  <2>5. \A k \in 1..Len(ks) : "rule" \notin DOMAIN ks[k]
    BY <1>6, <2>3, <2>4
  <2>6. ASSUME NEW p \in 1..(i - 1) PROVE zs[p].do \in Opens
    <3>1. p \in Nat /\ p \in 1..Len(zs) /\ p < i
      BY <1>1, <1>3, <2>2
    <3>2. CASE p > n
      <4>1. zs[p] = ss[p - n + 1]
        BY <1>7, <3>1, <3>2
      <4>2. p - n + 1 \in 1..(j - 1)
        BY <1>1, <2>2, <3>1, <3>2
      <4>3. QED
        BY <2>3, <4>1, <4>2
    <3>3. CASE ~(p > n)
      <4>1. p \in 1..n
        BY <1>1, <3>1, <3>3
      <4>2. QED
        BY <1>3, <1>6, <2>4, <4>1
    <3>4. QED
      BY <3>2, <3>3
  <2>7. QED
    BY <2>5, <2>6
<1>11. \A i \in 1..Len(zs) :
          /\ PropertyStep(zs[i])
          /\ zs[i] = ReadAccessor => i < Len(zs) /\ zs[i + 1] = RefuseSecond
          /\ zs[i] = T =>
                /\ \A j \in 1..(i - 1) : zs[j].do \in Opens
                /\ \A k \in 1..Len(ks) : "rule" \notin DOMAIN ks[k]
  BY <1>8, <1>9, <1>10
<1>12. SortsDiffer(ks, IF zs # << >> /\ zs[1] = RefuseSecond THEN Len(ks) - 1 ELSE Len(ks))
  OBVIOUS
<1>13. QED
  BY <1>11, <1>12, Zenon DEF PropertyOK, T, Opens

(* The function on top.                                                    *)
LEMMA TopProperty ==
    ASSUME ParserInv, PropertiesOK, stack # << >>, Top.rule = "VirtualProp"
    PROVE  /\ PropertyOK(Top.kids, Top.todo)
           /\ Top.todo # << >> => PropertyStep(Top.todo[1])
<1>1. Len(stack) \in 1..Len(stack) /\ IsSeq(Top.todo)
  BY TopParts
<1>2. PropertyOK(Top.kids, Top.todo)
  BY <1>1 DEF PropertiesOK, Top
<1>3. Top.todo # << >> => 1 \in 1..Len(Top.todo)
  BY <1>1, EmptyIsSeq, LengthIsNat
<1>4. QED
  BY <1>2, <1>3 DEF PropertyOK

(* It is none that reads a property, if it does what none of these does.   *)
LEMMA NoProperty ==
    ASSUME ParserInv, PropertiesOK, stack # << >>, Top.todo # << >>,
           \/ Top.todo[1].do \notin {"metadata", "refuseSecond", "rules", "token", "miss",
                                     "loop", "again"}
           \/ Top.todo[1].do = "miss" /\ Top.todo[1].miss \in {"break", "fail"}
    PROVE  Top.rule # "VirtualProp"
<1>1. SUFFICES ASSUME Top.rule = "VirtualProp" PROVE FALSE
  OBVIOUS
<1>2. PropertyStep(Top.todo[1])
  BY <1>1, TopProperty
<1>3. QED
  BY <1>2, PropertyDoes

(* It goes on.                                                             *)
LEMMA PropertiesGo ==
    ASSUME ParserInv, PropertiesOK, stack # << >>, NEW zs, NEW ks,
           stack' = [stack EXCEPT ![Len(stack)] = GoesOn(Top, zs, ks)],
           Top.rule = "VirtualProp" => PropertyOK(ks, zs)
    PROVE  PropertiesOK'
<1> DEFINE n == Len(stack)
           g == GoesOn(Top, zs, ks)
           st == [stack EXCEPT ![n] = g]
<1>1. n \in 1..n /\ IsSeq(stack)
  BY TopParts DEF StackOK
<1>2. g.rule = Top.rule /\ g.todo = zs /\ g.kids = ks
  BY DEF GoesOn
<1> HIDE DEF g
<1>3. Len(st) = n /\ st[n] = g /\ \A i \in 1..n : i # n => st[i] = stack[i]
  BY <1>1, ReplacedSeq
<1>4. stack' = st
  BY DEF g
<1> HIDE DEF st
<1>5. ASSUME NEW k \in 1..n, st[k].rule = "VirtualProp"
      PROVE  PropertyOK(st[k].kids, st[k].todo)
  <2>1. CASE k = n
    BY <1>2, <1>3, <1>5, <2>1
  <2>2. CASE k # n
    BY <1>3, <1>5, <2>2 DEF PropertiesOK, n
  <2>3. QED
    BY <2>1, <2>2
<1>6. QED
  BY <1>3, <1>4, <1>5 DEF PropertiesOK

LEMMA PropertiesThen ==
    ASSUME ParserInv, PropertiesOK, stack # << >>, NEW zs, Then(zs),
           Top.rule = "VirtualProp" => PropertyOK(Top.kids, zs)
    PROVE  PropertiesOK'
<1>1. FrameOK(tokens, Top, cursor)
  BY TopParts
<1>2. [Top EXCEPT !.todo = zs] = GoesOn(Top, zs, Top.kids)
  BY <1>1, FrameThen
<1>3. stack' = [stack EXCEPT ![Len(stack)] = GoesOn(Top, zs, Top.kids)]
  BY <1>2, Zenon DEF Then, Continue
<1>4. QED
  BY <1>3, PropertiesGo

(* It does xs before the rest of what it has to do.                        *)
LEMMA PropertiesFront ==
    ASSUME ParserInv, PropertiesOK, stack # << >>, Top.todo # << >>,
           Top.todo[1].do # "refuseSecond", NEW xs, IsSeq(xs), Then(xs \o Rest),
           Top.rule = "VirtualProp" =>
               /\ \A i \in 1..Len(xs) :
                     /\ PropertyStep(xs[i]) /\ xs[i] # NeedBack("Type")
                     /\ xs[i] = ReadAccessor => i < Len(xs) /\ xs[i + 1] = RefuseSecond
               /\ Top.todo[1].do \in {"metadata", "token", "miss"} =>
                     \A i \in 1..Len(xs) : xs[i].do \in {"metadata", "token", "miss"}
    PROVE  PropertiesOK'
<1> DEFINE kids == Top.kids
           ss == Top.todo
           zs == xs \o Tail(ss)
           n == Len(kids)
<1>1. /\ IsSeq(ss) /\ IsSeq(kids) /\ n \in Nat
  BY TopParts, LengthIsNat
<1>2. Rest = Tail(ss)
  BY DEF Rest
<1> HIDE DEF zs
<1>3. ASSUME Top.rule = "VirtualProp" PROVE PropertyOK(kids, zs)
  <2>1. PropertyOK(kids, ss)
    BY <1>3, TopProperty
  <2>2. SortsDiffer(kids, n)
    <3>1. ss[1] # RefuseSecond
      BY PropertyCalls
    <3>2. QED
      BY <2>1, <3>1 DEF PropertyOK
  <2>3. SortsDiffer(kids, n - 1)
    BY <1>1, <2>2, SortsFewer
  <2>4. SortsDiffer(kids, IF zs # << >> /\ zs[1] = RefuseSecond THEN n - 1 ELSE n)
    BY <2>2, <2>3
  <2> HIDE DEF kids, ss, n
  <2>5. zs = xs \o Tail(ss)
    BY DEF zs
  <2>6. IsSeq(ss) /\ ss # << >> /\ PropertyOK(kids, ss)
    BY <1>1, <2>1 DEF ss, kids
  <2>7. \A i \in 1..Len(xs) :
            /\ PropertyStep(xs[i]) /\ xs[i] # NeedBack("Type")
            /\ xs[i] = ReadAccessor => i < Len(xs) /\ xs[i + 1] = RefuseSecond
    BY <1>3
  <2>8. ss[1].do \in {"metadata", "token", "miss"} =>
            /\ \A i \in 1..Len(xs) : xs[i].do \in {"metadata", "token", "miss"}
            /\ (\E k \in 1..Len(kids) : "rule" \in DOMAIN kids[k])
                   => \E k \in 1..Len(kids) : "rule" \in DOMAIN kids[k]
    BY <1>3 DEF ss
  <2>9. SortsDiffer(kids, IF zs # << >> /\ zs[1] = RefuseSecond THEN Len(kids) - 1
                          ELSE Len(kids))
    BY <2>4 DEF n, kids
  <2>10. QED
    BY <2>5, <2>6, <2>7, <2>8, <2>9, PropertyGoes, Zenon
<1>4. Then(zs)
  BY <1>2, Zenon DEF zs, ss
<1>5. QED
  BY <1>3, <1>4, PropertiesThen DEF kids

LEMMA PropertiesRest ==
    ASSUME ParserInv, PropertiesOK, stack # << >>, Top.todo # << >>,
           Top.todo[1].do # "refuseSecond", Then(Rest)
    PROVE  PropertiesOK'
<1> DEFINE xs == << >>
<1>1. IsSeq(xs) /\ Len(xs) = 0
  BY EmptyIsSeq
<1>2. Then(xs \o Rest)
  BY RestIsSeq, Zenon
<1> HIDE DEF xs
<1>3. \A i \in 1..Len(xs) : FALSE
  BY <1>1
<1>4. QED
  BY <1>1, <1>2, <1>3, PropertiesFront

(* One more is kept.                                                       *)
LEMMA SortsWith ==
    ASSUME NEW kids, IsSeq(kids), SortsDiffer(kids, Len(kids)), NEW x, NEW ks,
           ks = Append(kids, x)
    PROVE  /\ SortsDiffer(ks, Len(ks) - 1)
           /\ (\/ ~IsNodeOf("Accessor", x)
               \/ \A k \in 1..Len(kids) : "rule" \notin DOMAIN kids[k])
              => SortsDiffer(ks, Len(ks))
<1> DEFINE n == Len(kids)
<1>1. /\ n \in Nat /\ Len(ks) = n + 1 /\ \A i \in 1..n : ks[i] = kids[i]
      /\ ks[n + 1] = x
  BY AddedSeq, LengthIsNat
<1>2. SortsDiffer(kids, n)
  OBVIOUS
<1> HIDE DEF n
<1>3. SortsDiffer(ks, n)
  BY <1>1, <1>2 DEF SortsDiffer
<1>4. ASSUME \/ ~IsNodeOf("Accessor", x)
             \/ \A k \in 1..n : "rule" \notin DOMAIN kids[k],
             NEW a \in 1..(n + 1), NEW b \in 1..(n + 1), a < b,
             IsNodeOf("Accessor", ks[a]), IsNodeOf("Accessor", ks[b])
      PROVE  ks[a].kids[1].text # ks[b].kids[1].text
  <2>1. a \in 1..n
    BY <1>1, <1>4
  <2>2. b # n + 1
    <3>1. SUFFICES ASSUME b = n + 1 PROVE FALSE
      OBVIOUS
    <3>2. IsNodeOf("Accessor", x)
      BY <1>1, <1>4, <3>1
    <3>3. "rule" \notin DOMAIN kids[a]
      BY <1>4, <2>1, <3>2
    <3>4. IsNodeOf("Accessor", kids[a])
      BY <1>1, <1>4, <2>1
    <3>5. QED
      BY <3>3, <3>4 DEF IsNodeOf
  <2>3. b \in 1..n
    BY <1>1, <2>2
  <2>4. QED
    BY <1>3, <1>4, <2>1, <2>3 DEF SortsDiffer
<1>5. Len(ks) - 1 = n
  BY <1>1
<1>6. ASSUME \/ ~IsNodeOf("Accessor", x)
             \/ \A k \in 1..n : "rule" \notin DOMAIN kids[k]
      PROVE  SortsDiffer(ks, n + 1)
  BY <1>4, <1>6 DEF SortsDiffer
<1>7. QED
  BY <1>1, <1>3, <1>5, <1>6 DEF n

(* A step of it is done.                                                   *)
LEMMA PropertyRest ==
    ASSUME NEW kids, NEW ss, IsSeq(ss), ss # << >>, PropertyOK(kids, ss),
           NEW ks, IsSeq(ks), SortsDiffer(ks, Len(ks)),
           ss[1].do \in {"metadata", "token", "miss"} =>
               \/ \A k \in 1..Len(ks) : "rule" \notin DOMAIN ks[k]
               \/ \E k \in 1..Len(kids) : "rule" \in DOMAIN kids[k]
    PROVE  PropertyOK(ks, Tail(ss))
<1> DEFINE xs == << >>
           zs == Tail(ss)
           n == Len(ks)
<1>1. IsSeq(xs) /\ Len(xs) = 0 /\ zs = xs \o Tail(ss)
  BY EmptyIsSeq, TailSeq, EmptyJoined
<1>2. n \in Nat
  BY LengthIsNat
<1>3. SortsDiffer(ks, n - 1) /\ SortsDiffer(ks, n)
  BY <1>2, SortsFewer
<1> HIDE DEF n, xs, zs
<1>4. SortsDiffer(ks, IF zs # << >> /\ zs[1] = RefuseSecond THEN n - 1 ELSE n)
  BY <1>3
<1>5. SortsDiffer(ks, IF zs # << >> /\ zs[1] = RefuseSecond THEN Len(ks) - 1 ELSE Len(ks))
  BY <1>4 DEF n
<1>6. \A i \in 1..Len(xs) : FALSE
  BY <1>1
<1>7. \A i \in 1..Len(xs) :
          /\ PropertyStep(xs[i]) /\ xs[i] # NeedBack("Type")
          /\ xs[i] = ReadAccessor => i < Len(xs) /\ xs[i + 1] = RefuseSecond
  BY <1>6
<1>8. ss[1].do \in {"metadata", "token", "miss"} =>
          /\ \A i \in 1..Len(xs) : xs[i].do \in {"metadata", "token", "miss"}
          /\ (\E k \in 1..Len(ks) : "rule" \in DOMAIN ks[k])
                 => \E k \in 1..Len(kids) : "rule" \in DOMAIN kids[k]
  BY <1>6
<1>9. PropertyOK(ks, zs)
  BY <1>1, <1>5, <1>7, <1>8, PropertyGoes, Zenon
<1>10. QED
  BY <1>9 DEF zs

(* A token is taken: it is no node.                                        *)
LEMMA TakeTokenOfProperty ==
    ASSUME ParserInv, PropertiesOK, TakeToken
    PROVE  PropertiesOK'
<1> DEFINE ss == Top.todo
           kids == Top.kids
           ks == IF Head1.keep THEN Append(Top.kids, Cur) ELSE Top.kids
<1>1. /\ stack # << >> /\ ss # << >> /\ Head1 = ss[1] /\ ss[1].do = "token"
      /\ Rest = Tail(ss)
  BY DoingIs DEF TakeToken
<1>2. /\ FrameOK(tokens, Top, cursor) /\ IsSeq(ss) /\ IsSeq(kids)
      /\ WellLexed(tokens) /\ cursor \in 0..(Len(tokens) - 1) /\ Len(tokens) \in Nat
  BY <1>1, TopParts
<1>3. "rule" \notin DOMAIN Cur
  <2>1. cursor + 1 \in 1..Len(tokens)
    BY <1>2
  <2>2. QED
    BY <1>2, <2>1, LexedToken DEF Cur
<1>4. stack' = [stack EXCEPT ![Len(stack)] = GoesOn(Top, Rest, ks)]
  <2> DEFINE g == [Top EXCEPT !.todo = Rest, !.kids = ks]
  <2>1. stack' = [stack EXCEPT ![Len(stack)] = g]
    BY Zenon DEF TakeToken, Continue
  <2> HIDE DEF ks
  <2>2. g = [Top EXCEPT !.todo = Rest, !.kids = ks]
    OBVIOUS
  <2> HIDE DEF g
  <2>3. g = GoesOn(Top, Rest, ks)
    BY <1>2, <2>2, FrameWith, Zenon
  <2>4. QED
    BY <2>1, <2>3, Zenon
<1>5. ASSUME Top.rule = "VirtualProp" PROVE PropertyOK(ks, Rest)
  <2>1. PropertyOK(kids, ss)
    BY <1>1, <1>5, TopProperty
  <2>2. SortsDiffer(kids, Len(kids))
    <3>1. ss[1] # RefuseSecond
      BY <1>1, PropertyCalls
    <3>2. QED
      BY <2>1, <3>1 DEF PropertyOK
  <2>3. /\ IsSeq(ks) /\ SortsDiffer(ks, Len(ks))
        /\ \/ \A k \in 1..Len(ks) : "rule" \notin DOMAIN ks[k]
           \/ \E k \in 1..Len(kids) : "rule" \in DOMAIN kids[k]
    <3>1. CASE Head1.keep
      <4>1. ks = Append(kids, Cur)
        BY <3>1
      <4> HIDE DEF ks, kids
      <4>2. /\ IsSeq(ks) /\ Len(ks) = Len(kids) + 1 /\ Len(kids) \in Nat
            /\ \A i \in 1..Len(kids) : ks[i] = kids[i]
            /\ ks[Len(kids) + 1] = Cur
        BY <1>2, <4>1, AddedSeq, LengthIsNat DEF kids
      <4>3. ~IsNodeOf("Accessor", Cur)
        BY <1>3 DEF IsNodeOf
      <4>4. IsSeq(kids)
        BY <1>2 DEF kids
      <4>5. SortsDiffer(ks, Len(ks))
        BY <2>2, <4>1, <4>3, <4>4, SortsWith
      <4>6. ASSUME NEW k \in 1..Len(ks), "rule" \in DOMAIN ks[k]
            PROVE  k \in 1..Len(kids) /\ "rule" \in DOMAIN kids[k]
        <5>1. k # Len(kids) + 1
          BY <1>3, <4>2, <4>6
        <5>2. k \in 1..Len(kids)
          BY <4>2, <5>1
        <5>3. QED
          BY <4>2, <4>6, <5>2
      <4>7. QED
        BY <4>2, <4>5, <4>6
    <3>2. CASE ~Head1.keep
      BY <1>2, <2>2, <3>2
    <3>3. QED
      BY <3>1, <3>2
  <2> HIDE DEF ks, kids, ss
  <2>4. PropertyOK(ks, Tail(ss))
    BY <1>1, <1>2, <2>1, <2>3, PropertyRest DEF ss, kids
  <2>5. QED
    BY <1>1, <2>4
<1> HIDE DEF ks
<1>6. QED
  BY <1>1, <1>4, <1>5, PropertiesGo

LEMMA MissTokenOfProperty ==
    ASSUME ParserInv, PropertiesOK, MissToken
    PROVE  PropertiesOK'
<1> DEFINE x == Miss(Head1.miss)
           xs == <<x>>
<1>1. /\ stack # << >> /\ Top.todo # << >> /\ Head1 = Top.todo[1] /\ Top.todo[1].do = "token"
  BY DoingIs DEF MissToken
<1>2. Then(xs \o Rest)
  BY Zenon DEF MissToken
<1>3. x.do = "miss" /\ x.miss = Head1.miss
  BY DEF Miss
<1> HIDE DEF x
<1>4. IsSeq(xs) /\ Len(xs) = 1 /\ xs[1] = x
  BY OneSeq
<1> HIDE DEF xs
<1>5. ASSUME Top.rule = "VirtualProp" PROVE PropertyStep(x)
  <2>1. PropertyStep(Top.todo[1])
    BY <1>1, <1>5, TopProperty
  <2>2. Head1.miss \in {"skip", "report", "back", "error"}
    BY <1>1, <2>1, PropertyDoes
  <2>3. QED
    BY <1>3, <2>2 DEF PropertyStep
<1>6. x # NeedBack("Type") /\ x # ReadAccessor
  BY <1>3, PropertyCalls
<1>7. \A i \in 1..Len(xs) : i = 1
  BY <1>4
<1>8. QED
  BY <1>1, <1>2, <1>3, <1>4, <1>5, <1>6, <1>7, PropertiesFront

(* A loop's body is to read an accessor and to check it.                   *)
LEMMA PropertyBody ==
    ASSUME NEW m, m.do = "again", m.body = <<ReadAccessor, RefuseSecond>>, NEW body,
           body = <<ReadAccessor, RefuseSecond>>, NEW xs, xs = body \o <<m>>
    PROVE  /\ IsSeq(xs)
           /\ \A i \in 1..Len(xs) :
                 /\ PropertyStep(xs[i]) /\ xs[i] # NeedBack("Type")
                 /\ xs[i] = ReadAccessor => i < Len(xs) /\ xs[i + 1] = RefuseSecond
<1> DEFINE t == <<m>>
           A == ReadAccessor
           R == RefuseSecond
<1>1. IsSeq(t) /\ Len(t) = 1 /\ t[1] = m
  BY OneSeq
<1>2. /\ A.do = "rules" /\ R.do = "refuseSecond" /\ A.miss = "error"
      /\ NeedBack("Type").do = "rules" /\ NeedBack("Type").miss = "back"
  BY PropertyCalls
<1>3. PropertyStep(A) /\ PropertyStep(R) /\ PropertyStep(m)
  BY DEF PropertyStep
<1> HIDE DEF A, R, t
<1>4. body = <<A, R>>
  BY DEF A, R
<1>5. IsSeq(body) /\ Len(body) = 2 /\ body[1] = A /\ body[2] = R
  BY <1>4 DEF IsSeq
<1>6. /\ IsSeq(xs) /\ Len(xs) = Len(body) + Len(t)
      /\ \A i \in 1..Len(body) : xs[i] = body[i]
      /\ \A i \in 1..Len(t) : xs[Len(body) + i] = t[i]
  BY <1>1, <1>5, JoinedSeq DEF t
<1>7. Len(xs) = 3 /\ xs[1] = A /\ xs[2] = R /\ xs[3] = m
  BY <1>1, <1>5, <1>6
<1>8. \A i \in 1..Len(xs) : i = 1 \/ i = 2 \/ i = 3
  BY <1>7
<1>9. xs[1] # NeedBack("Type") /\ xs[2] # NeedBack("Type") /\ xs[3] # NeedBack("Type")
  BY <1>2, <1>7
<1>10. xs[2] # A /\ xs[3] # A
  BY <1>2, <1>7
<1>11. \A i \in 1..Len(xs) :
           /\ PropertyStep(xs[i]) /\ xs[i] # NeedBack("Type")
           /\ xs[i] = A => i < Len(xs) /\ xs[i + 1] = R
  BY <1>3, <1>7, <1>8, <1>9, <1>10
<1>12. QED
  BY <1>6, <1>11 DEF A, R

LEMMA EnterLoopOfProperty ==
    ASSUME ParserInv, PropertiesOK, EnterLoop
    PROVE  PropertiesOK'
<1> DEFINE m == [Head1 EXCEPT !.do = "again"]
           xs == Head1.body \o <<m>>
<1>1. /\ stack # << >> /\ Top.todo # << >> /\ Head1 = Top.todo[1] /\ Top.todo[1].do = "loop"
  BY DoingIs DEF EnterLoop
<1>2. Then(Rest) \/ Then(xs \o Rest)
  BY Zenon DEF EnterLoop
<1>3. CASE Then(Rest)
  BY <1>1, <1>3, PropertiesRest
<1>4. CASE Then(xs \o Rest)
  <2>1. Sound(Top.rule, Top.start, cursor, Top.todo)
    BY <1>1, SoundHere
  <2>2. m.do = "again" /\ m.body = Head1.body
    <3>1. PICK c \in Places : StepOK(Top.rule, c, Head1)
      BY <1>1, <2>1, HeadPlace
    <3>2. Head1 \in Steps(Top.rule, c)
      BY <1>1, <3>1, StepOKIs DEF Mark
    <3>3. Head1 = [do |-> "loop", stop |-> Head1.stop, sep |-> Head1.sep, body |-> Head1.body]
      BY <1>1, <3>2, StepParts
    <3>4. QED
      BY <3>3
  <2> HIDE DEF m
  <2>3. IsSeq(xs)
    <3>1. m.do # "tried"
      BY <2>2
    <3>2. /\ IsSeq(Head1.body) /\ \A i \in 1..Len(Head1.body) : ~Mark(Head1.body[i])
      BY <1>1, <2>1, SoundLoop
    <3>3. QED
      BY <3>1, <3>2, BodyParts
  <2>4. ASSUME Top.rule = "VirtualProp"
        PROVE  \A i \in 1..Len(xs) :
                  /\ PropertyStep(xs[i]) /\ xs[i] # NeedBack("Type")
                  /\ xs[i] = ReadAccessor => i < Len(xs) /\ xs[i + 1] = RefuseSecond
    <3>1. PropertyStep(Top.todo[1])
      BY <1>1, <2>4, TopProperty
    <3>2. Head1.body = <<ReadAccessor, RefuseSecond>>
      BY <1>1, <3>1, PropertyDoes
    <3>3. QED
      BY <2>2, <3>2, PropertyBody
  <2> HIDE DEF xs
  <2>5. QED
    BY <1>1, <1>4, <2>3, <2>4, PropertiesFront
<1>5. QED
  BY <1>2, <1>3, <1>4

LEMMA NextRoundOfProperty ==
    ASSUME ParserInv, PropertiesOK, NextRound
    PROVE  PropertiesOK'
<1> DEFINE xs == Head1.body \o <<Head1>>
<1>1. /\ stack # << >> /\ Top.todo # << >> /\ Head1 = Top.todo[1] /\ Top.todo[1].do = "again"
      /\ Rest = Tail(Top.todo)
  BY DoingIs DEF NextRound
<1>2. Then(Rest) \/ Then(Head1.body \o Top.todo)
  BY Zenon DEF NextRound
<1>3. CASE Then(Rest)
  BY <1>1, <1>3, PropertiesRest
<1>4. CASE Then(Head1.body \o Top.todo)
  <2>1. Sound(Top.rule, Top.start, cursor, Top.todo) /\ IsSeq(Rest) /\ IsSeq(Top.todo)
    BY <1>1, SoundHere, RestIsSeq, TopParts
  <2>2. IsSeq(Head1.body) /\ \A i \in 1..Len(Head1.body) : ~Mark(Head1.body[i])
    BY <1>1, <2>1, SoundAgain
  <2>3. IsSeq(xs)
    BY <1>1, <2>2, BodyParts
  <2>4. Then(xs \o Rest)
    <3> DEFINE t == <<Head1>>
               b == Head1.body
    <3>1. t \o Rest = Top.todo
      BY <1>1, <2>1, HeadJoined, Zenon
    <3>2. IsSeq(t)
      BY OneSeq
    <3> HIDE DEF t
    <3>3. (b \o t) \o Rest = b \o (t \o Rest)
      <4>1. IsSeq(b) /\ IsSeq(t) /\ IsSeq(Rest)
        BY <2>1, <2>2, <3>2
      <4> HIDE DEF b
      <4>2. QED
        BY <4>1, JoinedTwice
    <3>4. (Head1.body \o t) \o Rest = Head1.body \o Top.todo
      BY <3>1, <3>3, Zenon
    <3>5. QED
      BY <1>4, <3>4, Zenon DEF t
  <2>5. ASSUME Top.rule = "VirtualProp"
        PROVE  \A i \in 1..Len(xs) :
                  /\ PropertyStep(xs[i]) /\ xs[i] # NeedBack("Type")
                  /\ xs[i] = ReadAccessor => i < Len(xs) /\ xs[i + 1] = RefuseSecond
    <3>1. PropertyStep(Top.todo[1])
      BY <1>1, <2>5, TopProperty
    <3>2. Head1.body = <<ReadAccessor, RefuseSecond>>
      BY <1>1, <3>1, PropertyDoes
    <3> DEFINE m == Head1
               b == Head1.body
    <3>3. m.do = "again" /\ m.body = b /\ b = <<ReadAccessor, RefuseSecond>> /\ xs = b \o <<m>>
      BY <1>1, <3>2
    <3> HIDE DEF m, b, xs
    <3>4. QED
      BY <3>3, PropertyBody
  <2> HIDE DEF xs
  <2>6. QED
    BY <1>1, <2>3, <2>4, <2>5, PropertiesFront
<1>5. QED
  BY <1>2, <1>3, <1>4

(* What parseVirtualProp never does.                                       *)
LEMMA OthersDo ==
    ASSUME ParserInv, PropertiesOK,
           \/ TakeBranch \/ MissBreak \/ MissFail \/ EnterTry \/ TrySucceeds
           \/ CloseTemplate \/ DropOlderTypes
    PROVE  PropertiesOK'
<1>1. stack # << >> /\ Top.todo # << >> /\ Head1 = Top.todo[1]
  BY DoingIs, Zenon DEF TakeBranch, MissBreak, MissFail, EnterTry, TrySucceeds, CloseTemplate,
                        DropOlderTypes
<1>2. Top.rule # "VirtualProp"
  <2>1. \/ Top.todo[1].do \in {"branch", "lambda", "nonEmpty", "try", "tried", "gt", "dropTypes"}
        \/ Top.todo[1].do = "miss" /\ Top.todo[1].miss \in {"break", "fail"}
    <3>1. CASE TakeBranch
      BY <1>1, <3>1 DEF TakeBranch, Doing
    <3>2. CASE MissBreak \/ MissFail
      BY <1>1, <3>2 DEF MissBreak, MissFail, Doing
    <3>3. CASE EnterTry \/ TrySucceeds \/ CloseTemplate \/ DropOlderTypes
      BY <1>1, <3>3 DEF EnterTry, TrySucceeds, CloseTemplate, DropOlderTypes, Doing
    <3>4. QED
      BY <3>1, <3>2, <3>3
  <2>2. QED
    BY <1>1, <2>1, NoProperty
<1>3. \/ \E zs : Then(zs)
      \/ \E zs, ks : Continue([Top EXCEPT !.kids = ks, !.todo = zs])
      \/ \E zs, ks : Continue([Top EXCEPT !.todo = zs, !.kids = ks])
  <2>1. CASE TakeBranch
    BY <2>1, Zenon DEF TakeBranch
  <2>2. CASE MissBreak
    BY <2>2, Zenon DEF MissBreak
  <2>3. CASE MissFail
    BY <2>3, Zenon DEF MissFail
  <2>4. CASE EnterTry
    BY <2>4, Zenon DEF EnterTry
  <2>5. CASE TrySucceeds
    BY <2>5, Zenon DEF TrySucceeds
  <2>6. CASE CloseTemplate
    BY <2>6, Zenon DEF CloseTemplate
  <2>7. CASE DropOlderTypes
    BY <2>7, Zenon DEF DropOlderTypes
  <2>8. QED
    BY <2>1, <2>2, <2>3, <2>4, <2>5, <2>6, <2>7
<1>4. CASE \E zs : Then(zs)
  BY <1>1, <1>2, <1>4, PropertiesThen
<1>5. CASE \/ \E zs, ks : Continue([Top EXCEPT !.kids = ks, !.todo = zs])
           \/ \E zs, ks : Continue([Top EXCEPT !.todo = zs, !.kids = ks])
  <2>1. PICK zs, ks : \/ Continue([Top EXCEPT !.kids = ks, !.todo = zs])
                      \/ Continue([Top EXCEPT !.todo = zs, !.kids = ks])
    BY <1>5, Zenon
  <2>2. PICK g : /\ stack' = [stack EXCEPT ![Len(stack)] = g]
                 /\ \/ g = [Top EXCEPT !.kids = ks, !.todo = zs]
                    \/ g = [Top EXCEPT !.todo = zs, !.kids = ks]
    BY <2>1, Zenon DEF Continue
  <2>3. FrameOK(tokens, Top, cursor)
    BY <1>1, TopParts
  <2>4. g = GoesOn(Top, zs, ks)
    BY <2>2, <2>3, FrameWith, Zenon
  <2>5. QED
    BY <1>1, <1>2, <2>2, <2>4, PropertiesGo
<1>6. QED
  BY <1>3, <1>4, <1>5

LEMMA RestOfProperty ==
    ASSUME ParserInv, PropertiesOK, MissOn \/ SkipMetadata
    PROVE  PropertiesOK'
<1>1. /\ stack # << >> /\ Top.todo # << >>
      /\ Top.todo[1].do \in {"miss", "metadata"} /\ Then(Rest)
  <2>1. CASE MissOn
    <3>1. Doing("miss") /\ Then(Rest)
      BY <2>1, Zenon DEF MissOn
    <3>2. QED
      BY <3>1, DoingIs
  <2>2. CASE SkipMetadata
    <3>1. Doing("metadata") /\ Then(Rest)
      BY <2>2, Zenon DEF SkipMetadata
    <3>2. QED
      BY <3>1, DoingIs
  <2>3. QED
    BY <2>1, <2>2
<1>2. Top.todo[1].do # "refuseSecond"
  BY <1>1
<1>3. QED
  BY <1>1, <1>2, PropertiesRest

(* A second accessor is the last that is kept, and is dropped.             *)
LEMMA RefuseSecondOfProperty ==
    ASSUME ParserInv, PropertiesOK, RefuseSecondAccessor
    PROVE  PropertiesOK'
<1> DEFINE ss == Top.todo
           kids == Top.kids
           n == Len(kids)
           IsAccessor(k) == "rule" \in DOMAIN kids[k] /\ kids[k].rule = "Accessor"
           Sort(k) == kids[k].kids[1]
           second == \E k \in 1..(n - 1) :
                        /\ IsAccessor(k) /\ IsAccessor(n)
                        /\ Sort(k).text = Sort(n).text
           ks == SubSeq(kids, 1, n - 1)
<1>1. /\ stack # << >> /\ ss # << >> /\ Head1 = ss[1] /\ ss[1].do = "refuseSecond"
      /\ Rest = Tail(ss)
  BY DoingIs DEF RefuseSecondAccessor
<1>2. \/ second /\ Continue([Top EXCEPT !.todo = Rest, !.kids = ks])
      \/ ~second /\ Then(Rest)
  BY Zenon DEF RefuseSecondAccessor
<1>3. /\ IsSeq(ss) /\ IsSeq(kids) /\ n \in Nat /\ FrameOK(tokens, Top, cursor)
  BY <1>1, TopParts, LengthIsNat
<1>4. Top.rule = "VirtualProp"
  <2>1. Sound(Top.rule, Top.start, cursor, ss)
    BY <1>1, SoundHere
  <2>2. QED
    BY <1>1, <2>1, SoundLeaves
<1>5. PropertyOK(kids, ss)
  BY <1>1, <1>4, TopProperty
<1>6. SortsDiffer(kids, n - 1)
  <2>1. SortsDiffer(kids, n - 1) \/ SortsDiffer(kids, n)
    BY <1>5, Zenon DEF PropertyOK
  <2> HIDE DEF kids
  <2>2. QED
    BY <1>3, <2>1, SortsFewer
<1>7. CASE second /\ Continue([Top EXCEPT !.todo = Rest, !.kids = ks])
  <2>1. n >= 1
    BY <1>3, <1>7
  <2>2. 1 \in 1..(n + 1) /\ n - 1 \in (1 - 1)..n
    BY <1>3, <2>1
  <2>3. /\ IsSeq(ks) /\ Len(ks) = n - 1 - 1 + 1
        /\ \A i \in 1..(n - 1 - 1 + 1) : ks[i] = kids[1 + i - 1]
    BY <1>3, <2>2, PartSeq
  <2>4. stack' = [stack EXCEPT ![Len(stack)] = [Top EXCEPT !.todo = Rest, !.kids = ks]]
    BY <1>7, Zenon DEF Continue
  <2> HIDE DEF ks
  <2>5. [Top EXCEPT !.todo = Rest, !.kids = ks] = GoesOn(Top, Rest, ks)
    <3> DEFINE g == [Top EXCEPT !.todo = Rest, !.kids = ks]
    <3>1. g = [Top EXCEPT !.todo = Rest, !.kids = ks]
      OBVIOUS
    <3> HIDE DEF g
    <3>2. g = GoesOn(Top, Rest, ks)
      BY <1>3, <3>1, FrameWith, Zenon
    <3>3. QED
      BY <3>2 DEF g
  <2>6. Len(ks) = n - 1 /\ \A i \in 1..(n - 1) : ks[i] = kids[i]
    <3> HIDE DEF kids
    <3>1. n - 1 - 1 + 1 = n - 1 /\ \A i \in 1..(n - 1) : 1 + i - 1 = i
      BY <1>3
    <3>2. QED
      BY <2>3, <3>1
  <2>7. SortsDiffer(ks, Len(ks))
    BY <1>6, <2>6 DEF SortsDiffer
  <2>8. PropertyOK(ks, Rest)
    <3> HIDE DEF kids, ss
    <3>1. ss[1].do \notin {"metadata", "token", "miss"}
      BY <1>1
    <3>2. PropertyOK(ks, Tail(ss))
      BY <1>1, <1>3, <1>5, <2>3, <2>7, <3>1, PropertyRest
    <3>3. QED
      BY <1>1, <3>2
  <2>9. QED
    BY <1>1, <2>4, <2>5, <2>8, PropertiesGo
<1>8. CASE ~second /\ Then(Rest)
  <2>1. SortsDiffer(kids, n)
    <3>1. SUFFICES ASSUME NEW a \in 1..n, NEW b \in 1..n, a < b,
                          IsNodeOf("Accessor", kids[a]), IsNodeOf("Accessor", kids[b])
                   PROVE  kids[a].kids[1].text # kids[b].kids[1].text
      BY DEF SortsDiffer
    <3>2. CASE b = n
      <4>1. a \in 1..(n - 1)
        BY <1>3, <3>1, <3>2
      <4>2. IsAccessor(a) /\ IsAccessor(n)
        BY <3>1, <3>2 DEF IsNodeOf
      <4>3. QED
        BY <1>8, <3>2, <4>1, <4>2
    <3>3. CASE b # n
      <4>1. a \in 1..(n - 1) /\ b \in 1..(n - 1)
        BY <1>3, <3>1, <3>3
      <4>2. QED
        BY <1>6, <3>1, <4>1 DEF SortsDiffer
    <3>4. QED
      BY <3>2, <3>3
  <2>2. PropertyOK(kids, Rest)
    <3>1. SortsDiffer(kids, Len(kids))
      BY <2>1
    <3> HIDE DEF kids, ss
    <3>2. ss[1].do \notin {"metadata", "token", "miss"}
      BY <1>1
    <3>3. PropertyOK(kids, Tail(ss))
      BY <1>1, <1>3, <1>5, <3>1, <3>2, PropertyRest
    <3>4. QED
      BY <1>1, <3>3
  <2>3. QED
    BY <1>1, <1>8, <2>2, PropertiesThen
<1>9. QED
  BY <1>2, <1>7, <1>8

(* It begins with its steps as they are in the code.                       *)
LEMMA FreshProperty == PropertyOK(<< >>, Rules["VirtualProp"])
<1> DEFINE ss == Rules["VirtualProp"]
           T == NeedBack("Type")
           A == ReadAccessor
           R == RefuseSecond
           M == parseAccessModifier
           E == Eat("&")
           N == Name("back")
           W == WantBack("{")
           L == Until(Text("}"), <<Any(<<"Accessor">>, "error"), RefuseSecond>>)
           X == Expect("}")
<1>1. ss = <<Metadata, M, T, E, N, W, L, X>>
  BY RulesAre, Zenon DEF parseVirtualProp
<1>2. /\ M.do = "token" /\ M.miss = "skip" /\ E.do = "token" /\ E.miss = "skip"
      /\ N.do = "token" /\ N.miss = "back" /\ W.do = "token" /\ W.miss = "back"
      /\ X.do = "token" /\ X.miss = "report"
      /\ L.do = "loop" /\ L.body = <<Any(<<"Accessor">>, "error"), RefuseSecond>>
      /\ Metadata.do = "metadata"
  BY DEF parseAccessModifier, Eat, Name, WantBack, Expect, Keep, Token, Until, Metadata
<1>3. L.body = <<ReadAccessor, RefuseSecond>>
  BY <1>2 DEF ReadAccessor
<1>4. /\ PropertyStep(Metadata) /\ PropertyStep(M) /\ PropertyStep(T) /\ PropertyStep(E)
      /\ PropertyStep(N) /\ PropertyStep(W) /\ PropertyStep(X)
  BY <1>2 DEF PropertyStep
<1>5. PropertyStep(L)
  BY <1>2, <1>3 DEF PropertyStep
<1>6. /\ A.do = "rules" /\ A.miss = "error" /\ T.do = "rules" /\ T.miss = "back"
      /\ R.do = "refuseSecond"
  BY PropertyCalls
<1> HIDE DEF ss, T, A, R, M, E, N, W, L, X
<1>7. /\ Len(ss) = 8 /\ ss[1] = Metadata /\ ss[2] = M /\ ss[3] = T /\ ss[4] = E
      /\ ss[5] = N /\ ss[6] = W /\ ss[7] = L /\ ss[8] = X
  BY <1>1
<1>8. ASSUME NEW i \in 1..Len(ss)
      PROVE  i \in {1, 2, 3, 4, 5, 6, 7, 8}
  BY <1>7
<1>9. ASSUME NEW i \in 1..Len(ss)
      PROVE  PropertyStep(ss[i]) /\ ss[i] # A /\ (ss[i] = T => i = 3)
  <2>1. PropertyStep(ss[i])
    BY <1>4, <1>5, <1>7, <1>8
  <2>2. ss[i] # A
    <3>1. T # A
      BY <1>6
    <3>2. i = 3 \/ ss[i].do # "rules"
      BY <1>2, <1>7, <1>8
    <3>3. QED
      BY <1>6, <1>7, <3>1, <3>2
  <2>3. ss[i] = T => i = 3
    BY <1>2, <1>6, <1>7, <1>8
  <2>4. QED
    BY <2>1, <2>2, <2>3
<1>10. \A j \in 1..(3 - 1) : ss[j].do \in {"metadata", "token", "miss"}
  <2>1. \A j \in 1..(3 - 1) : j = 1 \/ j = 2
    OBVIOUS
  <2>2. QED
    BY <1>2, <1>7, <2>1
<1>11. Len(<< >>) = 0
  BY EmptyIsSeq
<1>12. ss[1] # R
  BY <1>2, <1>6, <1>7
<1>13. SortsDiffer(<< >>, Len(<< >>))
  BY <1>11 DEF SortsDiffer
<1> DEFINE ks == << >>
<1>14. Len(ks) = 0 /\ SortsDiffer(ks, Len(ks))
  BY <1>11, <1>13
<1> HIDE DEF ks
<1>15. \A k \in 1..Len(ks) : FALSE
  BY <1>14
<1>16. \A i \in 1..Len(ss) :
          /\ PropertyStep(ss[i])
          /\ ss[i] = A => i < Len(ss) /\ ss[i + 1] = R
          /\ ss[i] = T =>
                /\ \A j \in 1..(i - 1) : ss[j].do \in {"metadata", "token", "miss"}
                /\ \A k \in 1..Len(ks) : "rule" \notin DOMAIN ks[k]
  BY <1>9, <1>10, <1>15
<1>17. SortsDiffer(ks, IF ss # << >> /\ ss[1] = R THEN Len(ks) - 1 ELSE Len(ks))
  BY <1>12, <1>14
<1>18. PropertyOK(ks, ss)
  BY <1>16, <1>17, Zenon DEF PropertyOK, A, T, R
<1>19. QED
  BY <1>18 DEF ks, ss

(* A function is called, or the one that called it goes on.                *)
LEMMA CallOfProperty ==
    ASSUME ParserInv, PropertiesOK, Call
    PROVE  PropertiesOK'
<1> DEFINE r == Head1.rules[1]
           g == Frame(r, cursor)
           n == Len(stack)
           st == Append(stack, g)
<1>1. stack # << >>
  BY DoingIs DEF Call
<1>2. stack' = st
  BY Zenon DEF Call
<1>3. IsSeq(stack) /\ n \in Nat
  BY <1>1, TopParts DEF StackOK
<1>4. g.rule = r /\ g.todo = Rules[r] /\ g.kids = << >>
  BY DEF Frame
<1> HIDE DEF g, r
<1>5. Len(st) = n + 1 /\ st[n + 1] = g /\ \A i \in 1..n : st[i] = stack[i]
  BY <1>3, AddedSeq
<1> HIDE DEF st
<1>6. ASSUME NEW k \in 1..(n + 1), st[k].rule = "VirtualProp"
      PROVE  PropertyOK(st[k].kids, st[k].todo)
  <2>1. CASE k = n + 1
    <3>1. r = "VirtualProp" /\ st[k] = g
      BY <1>4, <1>5, <1>6, <2>1
    <3>2. st[k].todo = Rules["VirtualProp"] /\ st[k].kids = << >>
      BY <1>4, <3>1
    <3>3. QED
      BY <3>2, FreshProperty
  <2>2. CASE k # n + 1
    <3>1. k \in 1..n
      BY <1>3, <2>2
    <3>2. QED
      BY <1>5, <1>6, <3>1 DEF PropertiesOK, n
  <2>3. QED
    BY <2>1, <2>2
<1>7. QED
  BY <1>2, <1>5, <1>6 DEF PropertiesOK

(* parseVirtualProp takes up a type before it has kept any node, and then  *)
(* an accessor that is checked next.                                       *)
LEMMA PropertyResumes ==
    ASSUME NEW ts, NEW c, NEW f, FrameOK(ts, f, c), IsSeq(f.todo), IsSeq(f.kids),
           PropertyOK(f.kids, f.todo),
           f.todo # << >>, f.todo[1].do = "rules", NEW result
    PROVE  /\ PropertyOK(Resumed(f, result).kids, Resumed(f, result).todo)
<1> DEFINE ss == f.todo
           kids == f.kids
           n == Len(kids)
           call == ss[1]
           A == ReadAccessor
           T == NeedBack("Type")
           R == RefuseSecond
<1>1. /\ A.do = "rules" /\ A.rules = <<"Accessor">> /\ A.hit = << >> /\ A.miss = "error"
      /\ T.do = "rules" /\ T.rules = <<"Type">> /\ T.hit = << >> /\ T.miss = "back"
      /\ R.do = "refuseSecond"
  BY PropertyCalls
<1>2. n \in Nat /\ Len(ss) \in Nat /\ 1 \in 1..Len(ss)
  BY EmptyIsSeq, LengthIsNat
<1>3. /\ PropertyStep(call)
      /\ call = A => 1 < Len(ss) /\ ss[1 + 1] = R
      /\ call = T => \A k \in 1..n : "rule" \notin DOMAIN kids[k]
  BY <1>2 DEF PropertyOK
<1>4. call \in {A, T}
  BY <1>3, PropertyDoes
<1>5. call # R
  BY <1>1
<1>6. SortsDiffer(kids, n)
  BY <1>5 DEF PropertyOK
<1>7. /\ IsSeq(Tail(ss)) /\ Len(Tail(ss)) = Len(ss) - 1
      /\ \A i \in 1..(Len(ss) - 1) : Tail(ss)[i] = ss[i + 1]
  BY TailSeq
<1>8. Len(call.rules) = 1
  <2>1. call.rules = <<"Accessor">> \/ call.rules = <<"Type">>
    BY <1>1, <1>4
  <2>2. QED
    BY <2>1, OneSeq
<1>9. CASE result # Null
  <2> DEFINE ks == Append(kids, result)
             zs == Tail(ss)
             f2 == Resumed(f, result)
  <2>1. call.hit = << >> /\ call.hit \o Tail(ss) = zs
    <3>1. call.hit = << >>
      BY <1>1, <1>4
    <3>2. << >> \o Tail(ss) = Tail(ss)
      BY <1>7, EmptyJoined
    <3>3. QED
      BY <3>1, <3>2, Zenon
  <2>2. f2 = [f EXCEPT !.kids = ks, !.todo = zs]
    <3>1. f2 = [f EXCEPT !.kids = Append(kids, result), !.todo = call.hit \o Tail(ss)]
      BY <1>9, Zenon DEF Resumed
    <3>2. QED
      BY <2>1, <3>1, Zenon
  <2>3. IsSeq(ks) /\ Len(ks) = n + 1
    BY AddedSeq
  <2>4. SortsDiffer(ks, Len(ks) - 1) /\ (call = T => SortsDiffer(ks, Len(ks)))
    BY <1>3, <1>6, SortsWith
  <2>5. call = A => zs # << >> /\ zs[1] = R
    <3>1. SUFFICES ASSUME call = A PROVE zs # << >> /\ zs[1] = R
      OBVIOUS
    <3>2. 1 \in 1..(Len(ss) - 1) /\ ss[1 + 1] = R
      BY <1>2, <1>3, <3>1
    <3> HIDE DEF ss, R
    <3>3. Tail(ss)[1] = R
      BY <1>7, <3>2
    <3>4. Len(Tail(ss)) # 0
      BY <1>2, <1>7, <3>2
    <3>5. QED
      BY <1>7, <3>3, <3>4, EmptyIsSeq, Zenon
  <2> HIDE DEF ks, zs, f2, call, A, T, R, kids, ss, n
  <2>6. SortsDiffer(ks, IF zs # << >> /\ zs[1] = R THEN Len(ks) - 1 ELSE Len(ks))
    BY <1>4, <2>4, <2>5
  <2>7. PropertyOK(ks, zs)
    <3> DEFINE xs == << >>
    <3>1. IsSeq(xs) /\ Len(xs) = 0 /\ zs = xs \o Tail(ss)
      BY <1>7, EmptyIsSeq, EmptyJoined DEF zs
    <3>2. ss[1].do \notin {"metadata", "token", "miss"}
      BY <1>1, <1>4 DEF call
    <3>3. SortsDiffer(ks, IF zs # << >> /\ zs[1] = RefuseSecond THEN Len(ks) - 1
                          ELSE Len(ks))
      BY <2>6 DEF R
    <3>4. IsSeq(ss) /\ ss # << >> /\ PropertyOK(kids, ss)
      BY DEF ss, kids
    <3> HIDE DEF xs
    <3>5. \A i \in 1..Len(xs) : FALSE
      BY <3>1
    <3>6. \A i \in 1..Len(xs) :
              /\ PropertyStep(xs[i]) /\ xs[i] # NeedBack("Type")
              /\ xs[i] = ReadAccessor => i < Len(xs) /\ xs[i + 1] = RefuseSecond
      BY <3>5
    <3>7. ss[1].do \in {"metadata", "token", "miss"} =>
              /\ \A i \in 1..Len(xs) : xs[i].do \in {"metadata", "token", "miss"}
              /\ (\E k \in 1..Len(ks) : "rule" \in DOMAIN ks[k])
                     => \E k \in 1..Len(kids) : "rule" \in DOMAIN kids[k]
      BY <3>2
    <3>8. QED
      BY <3>1, <3>3, <3>4, <3>6, <3>7, PropertyGoes, Zenon
  <2>8. f2 = GoesOn(f, zs, ks)
    BY <2>2, FrameWith
  <2>9. f2.kids = ks /\ f2.todo = zs
    BY <2>8 DEF GoesOn
  <2>10. QED
    BY <2>7, <2>9 DEF f2
<1>10. CASE result = Null
  <2> DEFINE x == Miss(call.miss)
             xs == <<x>>
             zs == xs \o Tail(ss)
             f2 == Resumed(f, result)
  <2>1. f2 = [f EXCEPT !.todo = zs]
    <3>1. ~(Len(call.rules) > 1)
      <4> HIDE DEF call
      <4>1. QED
        BY <1>8
    <3>2. QED
      BY <1>10, <3>1, Zenon DEF Resumed
  <2>2. x.do = "miss" /\ x.miss = call.miss
    BY DEF Miss
  <2>3. call.miss \in {"error", "back"}
    BY <1>1, <1>4
  <2>4. IsSeq(xs) /\ Len(xs) = 1 /\ xs[1] = x
    BY OneSeq
  <2>5. zs # << >> /\ zs[1] = x
    BY <1>7, TailJoined
  <2> HIDE DEF f2, zs, x
  <2>6. zs[1] # R
    BY <1>1, <2>2, <2>5
  <2>7. PropertyOK(kids, zs)
    <3> HIDE DEF call, A, T, R, kids, ss, n, xs
    <3>1. zs = xs \o Tail(ss)
      BY DEF zs, xs
    <3>2. IsSeq(ss) /\ ss # << >> /\ PropertyOK(kids, ss)
      BY DEF ss, kids
    <3>3. ss[1].do \notin {"metadata", "token", "miss"}
      BY <1>1, <1>4 DEF call
    <3>4. PropertyStep(x) /\ x # NeedBack("Type") /\ x # ReadAccessor
      BY <1>1, <2>2, <2>3 DEF PropertyStep, A, T
    <3>5. \A i \in 1..Len(xs) : i = 1
      BY <2>4
    <3>6. \A i \in 1..Len(xs) :
              /\ PropertyStep(xs[i]) /\ xs[i] # NeedBack("Type")
              /\ xs[i] = ReadAccessor => i < Len(xs) /\ xs[i + 1] = RefuseSecond
      BY <2>4, <3>4, <3>5
    <3>7. ss[1].do \in {"metadata", "token", "miss"} =>
              /\ \A i \in 1..Len(xs) : xs[i].do \in {"metadata", "token", "miss"}
              /\ (\E k \in 1..Len(kids) : "rule" \in DOMAIN kids[k])
                     => \E k \in 1..Len(kids) : "rule" \in DOMAIN kids[k]
      BY <3>3
    <3>8. SortsDiffer(kids, IF zs # << >> /\ zs[1] = RefuseSecond THEN Len(kids) - 1
                            ELSE Len(kids))
      BY <1>6, <2>6 DEF R, n
    <3>9. IsSeq(xs)
      BY <2>4
    <3>10. QED
      BY <3>1, <3>2, <3>6, <3>7, <3>8, <3>9, PropertyGoes, Zenon
  <2> HIDE DEF xs
  <2>8. f2 = GoesOn(f, zs, kids)
    BY <2>1, FrameThen
  <2>9. f2.kids = kids /\ f2.todo = zs
    BY <2>8 DEF GoesOn
  <2>10. QED
    BY <2>7, <2>9 DEF f2
<1>11. QED
  BY <1>9, <1>10

LEMMA ReturnOfProperty ==
    ASSUME ParserInv, PropertiesOK, stack # << >>, NEW result, Return(result)
    PROVE  PropertiesOK'
<1> DEFINE n == Len(stack)
           f == stack[n - 1]
           f2 == Resumed(f, result)
           below == SubSeq(stack, 1, n - 2)
           st == Append(below, f2)
<1>1. CASE n = 1
  <2>1. stack' = << >>
    BY <1>1, Zenon DEF Return
  <2>2. Len(stack') = 0
    BY <2>1, EmptyIsSeq, Zenon
  <2>3. QED
    BY <2>2 DEF PropertiesOK
<1>2. CASE n # 1
  <2>1. stack' = st
    BY <1>2, Zenon DEF Return
  <2>2. /\ n > 1 /\ FrameOK(tokens, f, Top.start) /\ Calls(f, Top)
    BY <1>2, CallerParts
  <2>3. IsSeq(stack) /\ n \in Nat /\ IsSeq(f.todo) /\ IsSeq(f.kids)
    <3>1. IsSeq(stack) /\ n \in Nat
      BY TopParts DEF StackOK
    <3> HIDE DEF f
    <3>2. IsSeq(f.todo) /\ IsSeq(f.kids)
      BY <2>2 DEF FrameOK, Sound, KidsOK
    <3>3. QED
      BY <3>1, <3>2
  <2>4. f.rule = "VirtualProp" => PropertyOK(f2.kids, f2.todo)
    <3>1. n - 1 \in 1..n
      BY <2>2, <2>3
    <3>2. f.rule = "VirtualProp" => PropertyOK(f.kids, f.todo)
      BY <3>1 DEF PropertiesOK
    <3>3. f.todo # << >> /\ f.todo[1].do = "rules"
      BY <2>2 DEF Calls
    <3> HIDE DEF f
    <3>4. QED
      BY <2>2, <2>3, <3>2, <3>3, PropertyResumes
  <2>5. f2.rule = f.rule
    <3> HIDE DEF f
    <3>1. PICK r, a, t, k : f = [rule |-> r, start |-> a, todo |-> t, kids |-> k]
      BY <2>2, Zenon DEF FrameOK
    <3>2. \/ \E ks, zs : f2 = [f EXCEPT !.kids = ks, !.todo = zs]
          \/ \E zs : f2 = [f EXCEPT !.todo = zs]
      BY Zenon DEF Resumed
    <3>3. CASE \E ks, zs : f2 = [f EXCEPT !.kids = ks, !.todo = zs]
      <4>1. PICK ks, zs : f2 = [f EXCEPT !.kids = ks, !.todo = zs]
        BY <3>3, Zenon
      <4> HIDE DEF f2
      <4>2. QED
        BY <3>1, <4>1
    <3>4. CASE \E zs : f2 = [f EXCEPT !.todo = zs]
      <4>1. PICK zs : f2 = [f EXCEPT !.todo = zs]
        BY <3>4, Zenon
      <4> HIDE DEF f2
      <4>2. QED
        BY <3>1, <4>1
    <3>5. QED
      BY <3>2, <3>3, <3>4
  <2> HIDE DEF f, f2
  <2>6. /\ IsSeq(below) /\ Len(below) = n - 2
        /\ \A i \in 1..(n - 2) : below[i] = stack[i]
    <3>1. 1 \in 1..(n + 1) /\ n - 2 \in (1 - 1)..n
      BY <2>2, <2>3
    <3>2. /\ IsSeq(below) /\ Len(below) = n - 2 - 1 + 1
          /\ \A i \in 1..(n - 2 - 1 + 1) : below[i] = stack[1 + i - 1]
      BY <2>3, <3>1, PartSeq
    <3> HIDE DEF below
    <3>3. n - 2 - 1 + 1 = n - 2 /\ \A i \in 1..(n - 2) : 1 + i - 1 = i
      BY <2>3
    <3>4. QED
      BY <3>2, <3>3
  <2> HIDE DEF below
  <2>7. Len(st) = n - 1 /\ st[n - 1] = f2 /\ \A i \in 1..(n - 2) : st[i] = stack[i]
    <3>1. /\ Len(st) = n - 2 + 1 /\ st[n - 2 + 1] = f2
          /\ \A i \in 1..(n - 2) : st[i] = below[i]
      BY <2>6, AddedSeq
    <3>2. n - 2 + 1 = n - 1
      BY <2>3
    <3>3. QED
      BY <2>6, <3>1, <3>2
  <2> HIDE DEF st
  <2>8. ASSUME NEW k \in 1..(n - 1), st[k].rule = "VirtualProp"
        PROVE  PropertyOK(st[k].kids, st[k].todo)
    <3>1. CASE k = n - 1
      BY <2>4, <2>5, <2>7, <2>8, <3>1
    <3>2. CASE k # n - 1
      <4>1. k \in 1..(n - 2) /\ k \in 1..n
        BY <2>3, <3>2
      <4>2. st[k] = stack[k]
        BY <2>7, <4>1
      <4>3. QED
        BY <2>8, <4>1, <4>2 DEF PropertiesOK, n
    <3>3. QED
      BY <3>1, <3>2
  <2>9. QED
    BY <2>1, <2>7, <2>8 DEF PropertiesOK
<1>3. QED
  BY <1>1, <1>2

LEMMA PropertyReturns ==
    ASSUME ParserInv, PropertiesOK, stack # << >>, Top.todo # << >> => Head1.do = "done",
           Top.rule = "VirtualProp"
    PROVE  SortsDiffer(Top.kids, Len(Top.kids))
<1>1. PropertyOK(Top.kids, Top.todo) /\ (Top.todo # << >> => PropertyStep(Top.todo[1]))
  BY TopProperty
<1>2. Top.todo = << >>
  <2>1. SUFFICES ASSUME Top.todo # << >> PROVE FALSE
    OBVIOUS
  <2>2. PropertyStep(Top.todo[1]) /\ Top.todo[1].do = "done"
    BY <1>1, <2>1 DEF Head1
  <2>3. QED
    BY <2>2, PropertyDoes
<1>3. QED
  BY <1>1, <1>2 DEF PropertyOK

LEMMA PropertiesBegin == Init => PropertiesOK
<1>1. SUFFICES ASSUME Init PROVE PropertiesOK
  OBVIOUS
<1> DEFINE g == Frame("Script", 0)
           st == <<g>>
<1>2. stack = st
  BY <1>1, Zenon DEF Init
<1>3. g.rule = "Script"
  BY DEF Frame
<1> HIDE DEF g
<1>4. Len(st) = 1 /\ st[1] = g
  BY OneSeq
<1> HIDE DEF st
<1>5. \A k \in 1..Len(st) : st[k].rule # "VirtualProp"
  BY <1>3, <1>4
<1>6. QED
  BY <1>2, <1>5 DEF PropertiesOK

LEMMA PropertiesStay == ParserInv /\ PropertiesOK /\ [Next]_vars => PropertiesOK'
<1> SUFFICES ASSUME ParserInv, PropertiesOK, [Next]_vars PROVE PropertiesOK'
  OBVIOUS
<1>1. CASE UNCHANGED vars
  BY <1>1 DEF vars, PropertiesOK
<1>2. CASE ReturnNode \/ ReturnChild \/ MissNull
  <2>1. stack # << >> /\ \E result : Return(result)
    <3>1. CASE ReturnNode
      BY <3>1, Zenon DEF ReturnNode
    <3>2. CASE ReturnChild
      BY <3>2, Zenon DEF ReturnChild, Doing
    <3>3. CASE MissNull
      BY <3>3, Zenon DEF MissNull, Doing
    <3>4. QED
      BY <1>2, <3>1, <3>2, <3>3
  <2>2. QED
    BY <2>1, ReturnOfProperty
<1>3. CASE Step
  BY <1>2, <1>3, TakeTokenOfProperty, MissTokenOfProperty, CallOfProperty, RestOfProperty,
     EnterLoopOfProperty, NextRoundOfProperty, RefuseSecondOfProperty, OthersDo,
     Zenon DEF Step
<1>4. QED
  BY <1>1, <1>3, Zenon DEF Next, Finished
-----------------------------------------------------------------------------
(* What is returned.                                                       *)

(* What a function may return when it started at a and is at c.            *)
Fits(ts, result, a, c) ==
    \/ result = Null
    \/ /\ KidOK(result)
       /\ ts[a + 1].offset <= result.offset /\ result.offset <= ts[c + 1].offset
       /\ IsEmptyNode(result) \/ EndOf(result) <= Reach(ts, c)

(* A function returns what fits to where it started and to where it is.    *)
LEMMA ReturnKeeps ==
    ASSUME ParserInv, stack # << >>, NEW result, Return(result),
           UNCHANGED <<source, tokens>>, diags' \in Seq(Diagnostics),
           cursor' \in Top.start..(Len(tokens) - 1),
           Fits(tokens, result, Top.start, cursor'),
           result = Null \/ Top.start < cursor' \/ Top.rule \notin Bearing
    PROVE  ParserInv'
<1> DEFINE n == Len(stack)
           f == stack[n - 1]
           c2 == cursor'
           a == Top.start
<1>1. /\ WellLexed(tokens) /\ Len(tokens) \in Nat \ {0} /\ cursor \in 0..(Len(tokens) - 1)
      /\ a \in Nat /\ a <= cursor /\ n \in Nat \ {0} /\ StackOK(tokens, stack, cursor)
  BY TopParts
<1>2. c2 \in 0..(Len(tokens) - 1) /\ a \in 0..(Len(tokens) - 1) /\ a <= c2 /\ c2 \in Nat
  BY <1>1
<1>3. StackOK(tokens, stack', c2)
  <2>1. CASE n = 1
    <3>1. stack' = << >>
      BY <2>1, Zenon DEF Return
    <3>2. IsSeq(<< >>) /\ Len(<< >>) = 0
      BY EmptyIsSeq
    <3>3. StackOK(tokens, << >>, c2)
      BY <3>2 DEF StackOK
    <3>4. QED
      BY <3>1, <3>3
  <2>2. CASE n # 1
    <3> DEFINE f2 == Resumed(f, result)
    <3>1. stack' = Append(SubSeq(stack, 1, n - 2), f2)
      BY <2>2, Zenon DEF Return
    <3>2. /\ n > 1 /\ FrameOK(tokens, f, a) /\ Calls(f, Top)
          /\ f.start \in Nat /\ f.start <= a
          /\ Top.rule \in Bearing \/ f.start < a
      BY <2>2, CallerParts
    <3>3. result = Null \/ f.start < c2
      BY <1>1, <1>2, <3>2
    <3> HIDE DEF f, a, c2
    <3>4. FrameOK(tokens, f2, c2) /\ f2.rule = f.rule /\ f2.start = f.start
      <4>1. c2 \in a..(Len(tokens) - 1)
        BY DEF c2, a
      <4>2. \/ result = Null
            \/ /\ f.start < c2 /\ KidOK(result)
               /\ tokens[a + 1].offset <= result.offset /\ result.offset <= tokens[c2 + 1].offset
               /\ IsEmptyNode(result) \/ EndOf(result) <= Reach(tokens, c2)
        BY <3>3 DEF Fits, a, c2
      <4>3. QED
        BY <1>1, <1>2, <3>2, <4>1, <4>2, ResumedGoes, SMTT(20)
    <3> HIDE DEF f2
    <3>5. StackOK(tokens, Append(SubSeq(stack, 1, n - 2), f2), c2)
      BY <1>1, <3>2, <3>4, StackReturns DEF f
    <3>6. QED
      BY <3>1, <3>5, Zenon
  <2>3. QED
    BY <2>1, <2>2
<1>4. QED
  BY <1>1, <1>2, <1>3 DEF ParserInv

(* The function on top has consumed a token when it returns a node, unless *)
(* it is one of those that may return an empty one.                        *)
LEMMA NodeStarts ==
    ASSUME ParserInv, stack # << >>, Top.todo # << >> => Head1.do = "done"
    PROVE  /\ Top.rule \in Bearing => Top.start < cursor
           /\ Top.start < cursor \/ (Top.rule \in MayBeEmpty /\ Top.kids = << >>)
           /\ AccessorBegun(Top.rule, Top.kids)
<1>1. /\ cursor \in Nat /\ Top.start \in Nat /\ Top.start <= cursor /\ Top.rule \in RuleNames
      /\ KidsOK(tokens, Top.kids, Top.start, cursor)
  BY TopParts
<1>2. Top.todo = << >> \/ (Top.todo # << >> /\ Top.todo[1].do = "done")
  BY DEF Head1
<1>3. Sound(Top.rule, Top.start, cursor, Top.todo) /\ AccessorBegun(Top.rule, Top.kids)
  BY <1>2, SoundHere, TopBegun
<1>4. Top.rule \in Bearing => Top.start < cursor
  BY <1>2, <1>3, SoundReturn
<1>5. Top.start < cursor \/ Top.kids = << >>
  BY <1>1 DEF KidsOK
<1>6. Top.rule \in Bearing \/ Top.rule \in MayBeEmpty
  BY <1>1 DEF Bearing, MayBeEmpty
<1>7. QED
  BY <1>3, <1>4, <1>5, <1>6

(* Its node has the span of what has been consumed.                        *)
LEMMA NodeFits ==
    ASSUME ParserInv, PropertiesOK, stack # << >>, Top.todo # << >> => Head1.do = "done"
    PROVE  Fits(tokens, NodeOf(Top), Top.start, cursor)
<1> DEFINE a == Top.start
           first == tokens[a + 1]
           last == IF cursor > 0 THEN tokens[cursor] ELSE first
           node == NodeOf(Top)
           ts == tokens
           c == cursor
<1>1. /\ WellLexed(ts) /\ Len(ts) \in Nat \ {0} /\ c \in 0..(Len(ts) - 1) /\ c \in Nat
      /\ a \in Nat /\ a <= c /\ Top.rule \in RuleNames
  BY TopParts
<1>2. /\ a + 1 \in 1..Len(ts) /\ c + 1 \in 1..Len(ts) /\ a + 1 <= c + 1
      /\ c > 0 => c \in 1..Len(ts)
  BY <1>1
<1>3. /\ a < c \/ (Top.rule \in MayBeEmpty /\ Top.kids = << >>)
      /\ AccessorBegun(Top.rule, Top.kids)
  BY NodeStarts
<1>4. /\ first.offset \in Nat /\ first.length \in Nat
      /\ first.offset <= ts[c + 1].offset /\ first.offset <= EndOf(first)
      /\ EndOf(last) \in Nat
  <2>1. /\ first.offset \in Nat /\ first.length \in Nat /\ first.offset <= EndOf(first)
        /\ EndOf(first) \in Nat
    BY <1>1, <1>2, LexedToken
  <2>2. first.offset <= ts[c + 1].offset
    BY <1>1, <1>2, LexedOrder
  <2>3. c > 0 => EndOf(ts[c]) \in Nat
    BY <1>1, <1>2, LexedToken
  <2>4. QED
    BY <2>1, <2>2, <2>3
<1>5. /\ node = [rule |-> Top.rule, offset |-> Span.offset, length |-> Span.length,
                 kids |-> Top.kids]
      /\ Span = IF EndOf(last) < first.offset
                THEN [offset |-> first.offset, length |-> first.length]
                ELSE [offset |-> first.offset, length |-> EndOf(last) - first.offset]
  BY Zenon DEF NodeOf, Span
<1> DEFINE e == EndOf(last)
<1> HIDE DEF node
<1>6. /\ node.rule = Top.rule /\ node.kids = Top.kids /\ "rule" \in DOMAIN node
      /\ node.offset = Span.offset /\ node.length = Span.length
  BY <1>5
<1>7. /\ node.offset = first.offset
      /\ node.length = IF e < first.offset THEN first.length ELSE e - first.offset
  <2> HIDE DEF first, e
  <2>1. Span = IF e < first.offset
               THEN [offset |-> first.offset, length |-> first.length]
               ELSE [offset |-> first.offset, length |-> e - first.offset]
    BY <1>5 DEF e
  <2>2. QED
    BY <1>6, <2>1
<1>8. node.length \in Nat
  <2> HIDE DEF first, e
  <2>1. first.offset \in Nat /\ first.length \in Nat /\ e \in Nat
    BY <1>4 DEF e
  <2>2. QED
    BY <1>7, <2>1
<1>9. KidOK(node)
  <2>1. node.rule = "Accessor" => node.kids # << >> /\ node.kids[1] \in Token_
    BY <1>3, <1>6 DEF AccessorBegun
  <2>2. node.rule = "VirtualProp" => SortsDiffer(node.kids, Len(node.kids))
    <3>1. Top.rule = "VirtualProp" => SortsDiffer(Top.kids, Len(Top.kids))
      BY PropertyReturns
    <3>2. QED
      BY <1>6, <3>1, Zenon
  <2>3. node.offset \in Nat
    BY <1>4, <1>7
  <2>4. QED
    BY <1>6, <1>8, <2>1, <2>2, <2>3 DEF KidOK
<1>10. IsEmptyNode(node) \/ EndOf(node) <= Reach(ts, c)
  <2>1. CASE a < c
    <3>1. c > 0 /\ a + 1 <= c
      BY <1>1, <2>1
    <3>2. e = EndOf(ts[c]) /\ Reach(ts, c) = EndOf(ts[c])
      BY <3>1 DEF Reach
    <3>3. EndOf(first) <= EndOf(ts[c]) /\ EndOf(first) \in Nat
      BY <1>1, <1>2, <3>1, LexedOrder, LexedToken
    <3> HIDE DEF e, first
    <3>4. first.offset \in Nat /\ first.offset <= EndOf(first) /\ e \in Nat
      BY <1>4 DEF e
    <3>5. first.offset <= e
      BY <3>2, <3>3, <3>4
    <3>6. node.length = e - first.offset
      BY <1>7, <3>4, <3>5
    <3>7. EndOf(node) = e
      BY <1>7, <3>4, <3>6 DEF EndOf
    <3>8. EndOf(node) <= Reach(ts, c)
      BY <3>2, <3>4, <3>7
    <3>9. QED
      BY <3>8
  <2>2. CASE ~(a < c)
    BY <1>3, <1>6, <2>2 DEF IsEmptyNode
  <2>3. QED
    BY <2>1, <2>2
<1>11. ts[a + 1].offset <= node.offset /\ node.offset <= ts[c + 1].offset
  BY <1>4, <1>7
<1>12. QED
  BY <1>9, <1>10, <1>11 DEF Fits, node

(* It returns its node.                                                    *)
LEMMA ReturnNodeKeeps ==
    ASSUME ParserInv, PropertiesOK, ReturnNode
    PROVE  ParserInv'
<1>1. /\ stack # << >> /\ (Top.todo # << >> => Head1.do = "done") /\ Return(NodeOf(Top))
      /\ UNCHANGED <<source, tokens, cursor, diags>>
  BY Zenon DEF ReturnNode
<1>2. /\ cursor \in 0..(Len(tokens) - 1) /\ cursor \in Nat /\ Len(tokens) \in Nat
      /\ Top.start \in Nat /\ Top.start <= cursor
  BY <1>1, TopParts
<1>3. Fits(tokens, NodeOf(Top), Top.start, cursor')
  BY <1>1, NodeFits
<1>4. Top.start < cursor' \/ Top.rule \notin Bearing
  BY <1>1, NodeStarts
<1>5. diags' \in Seq(Diagnostics) /\ UNCHANGED <<source, tokens>>
  BY <1>1 DEF ParserInv
<1>6. cursor' \in Top.start..(Len(tokens) - 1)
  BY <1>1, <1>2
<1> DEFINE node == NodeOf(Top)
<1> HIDE DEF node
<1>7. Return(node) /\ Fits(tokens, node, Top.start, cursor')
  BY <1>1, <1>3 DEF node
<1>8. QED
  BY <1>1, <1>4, <1>5, <1>6, <1>7, ReturnKeeps

(* It returns what it has kept last.                                       *)
LEMMA ReturnChildKeeps ==
    ASSUME ParserInv, ReturnChild
    PROVE  ParserInv'
<1> DEFINE kids == Top.kids
           n == Len(kids)
           result == IF kids = << >> THEN Null ELSE kids[n]
<1>1. /\ stack # << >> /\ Top.todo # << >> /\ Top.todo[1].do = "give"
  BY DoingIs DEF ReturnChild
<1>2. Return(result) /\ UNCHANGED <<source, tokens, cursor, diags>>
  BY Zenon DEF ReturnChild
<1>3. /\ cursor \in 0..(Len(tokens) - 1) /\ cursor \in Nat /\ Len(tokens) \in Nat
      /\ Top.start \in Nat /\ Top.start <= cursor
      /\ KidsOK(tokens, kids, Top.start, cursor) /\ IsSeq(kids)
  BY <1>1, TopParts
<1>4. Top.start < cursor
  BY <1>1, SoundHere, SoundReturn
<1>5. Fits(tokens, result, Top.start, cursor)
  <2>1. CASE kids = << >>
    BY <2>1 DEF Fits
  <2>2. CASE kids # << >>
    <3>1. n \in 1..n
      BY <1>3, <2>2, EmptyIsSeq, LengthIsNat
    <3>2. result = kids[n]
      BY <2>2
    <3>3. /\ KidOK(kids[n])
          /\ tokens[Top.start + 1].offset <= kids[n].offset
          /\ kids[n].offset <= tokens[cursor + 1].offset
          /\ IsEmptyNode(kids[n]) \/ EndOf(kids[n]) <= Reach(tokens, cursor)
      BY <1>3, <3>1 DEF KidsOK
    <3> HIDE DEF result
    <3>4. QED
      BY <3>2, <3>3 DEF Fits
  <2>3. QED
    BY <2>1, <2>2
<1>6. /\ cursor' \in Top.start..(Len(tokens) - 1) /\ UNCHANGED <<source, tokens>>
      /\ diags' \in Seq(Diagnostics) /\ Top.start < cursor'
  BY <1>2, <1>3, <1>4 DEF ParserInv
<1> HIDE DEF result
<1>7. Fits(tokens, result, Top.start, cursor')
  BY <1>2, <1>5
<1>8. QED
  BY <1>1, <1>2, <1>6, <1>7, ReturnKeeps

(* It gives up, and goes back to where it started or stays where it is.    *)
LEMMA MissNullKeeps ==
    ASSUME ParserInv, MissNull
    PROVE  ParserInv'
<1>1. stack # << >>
  BY DoingIs DEF MissNull
<1>2. Return(Null) /\ UNCHANGED <<source, tokens>>
  BY Zenon DEF MissNull
<1>3. /\ cursor \in 0..(Len(tokens) - 1) /\ cursor \in Nat /\ Len(tokens) \in Nat
      /\ Top.start \in Nat /\ Top.start <= cursor
  BY <1>1, TopParts
<1>4. cursor' = Top.start \/ cursor' = cursor
  BY Zenon DEF MissNull
<1>5. cursor' \in Top.start..(Len(tokens) - 1)
  BY <1>3, <1>4
<1>6. diags' \in Seq(Diagnostics)
  <2>1. Report("expected") \/ UNCHANGED diags
    BY Zenon DEF MissNull
  <2>2. CASE Report("expected")
    BY <1>1, <2>2, ReportedKeeps
  <2>3. CASE UNCHANGED diags
    BY <2>3 DEF ParserInv
  <2>4. QED
    BY <2>1, <2>2, <2>3
<1>7. Fits(tokens, Null, Top.start, cursor')
  BY DEF Fits
<1> DEFINE result == Null
<1>8. Return(result) /\ Fits(tokens, result, Top.start, cursor') /\ result = Null
  BY <1>2, <1>7
<1> HIDE DEF result
<1>9. QED
  BY <1>1, <1>2, <1>5, <1>6, <1>8, ReturnKeeps
-----------------------------------------------------------------------------
(* The theorems.                                                           *)

(* ParserInv is inductive.                                                 *)
LEMMA InitHolds == Init => ParserInv
<1> SUFFICES ASSUME Init PROVE ParserInv
  OBVIOUS
<1> DEFINE g == Frame("Script", 0)
           st == <<g>>
<1>1. /\ source \in Inputs /\ tokens = source /\ cursor = 0 /\ diags = << >> /\ stack = st
  BY Zenon DEF Init
<1>2. WellLexed(tokens)
  BY <1>1, InputsAssumption
<1>3. cursor \in 0..(Len(tokens) - 1)
  BY <1>1, <1>2, LexedLength
<1>4. FrameOK(tokens, g, 0)
  <2>1. "Script" \in RuleNames
    BY DEF RuleNames
  <2>2. QED
    BY <2>1, FreshFrame
<1>5. IsSeq(st) /\ Len(st) = 1 /\ st[1] = g
  BY OneSeq
<1> HIDE DEF g, st
<1>6. StackOK(tokens, st, 0)
  <2>1. PlaceOf(st, 1, 0) = 0
    BY <1>5 DEF PlaceOf
  <2>2. \A k \in 1..Len(st) : FrameOK(tokens, st[k], PlaceOf(st, k, 0))
    BY <1>4, <1>5, <2>1
  <2>3. \A k \in 1..(Len(st) - 1) : Calls(st[k], st[k + 1])
    BY <1>5
  <2>4. \A i, j \in 1..Len(st) : i < j => st[i].start <= st[j].start
    BY <1>5
  <2>5. QED
    BY <1>5, <2>2, <2>3, <2>4, Zenon DEF StackOK
<1>7. QED
  BY <1>1, <1>2, <1>3, <1>6 DEF ParserInv

LEMMA StepKeeps == ParserInv /\ PropertiesOK /\ [Next]_vars => ParserInv'
<1> SUFFICES ASSUME ParserInv, PropertiesOK, [Next]_vars PROVE ParserInv'
  OBVIOUS
<1>1. CASE UNCHANGED vars
  BY <1>1 DEF vars, ParserInv
<1>2. CASE Step
  BY <1>2, TakeTokenKeeps, MissTokenKeeps, TakeBranchKeeps, CallKeeps, ReturnNodeKeeps,
     ReturnChildKeeps, MissNullKeeps, MissOnKeeps, MissBreakKeeps, MissFailKeeps,
     EnterLoopKeeps, NextRoundKeeps, EnterTryKeeps, TrySucceedsKeeps, CloseTemplateKeeps,
     SkipMetadataKeeps, DropOlderTypesKeeps, RefuseSecondAccessorKeeps, Zenon DEF Step
<1>3. QED
  BY <1>1, <1>2, Zenon DEF Next, Finished

(* Neither is without the other: that a property's node has one accessor   *)
(* of each sort is part of ParserInv, and PropertiesOK says of the running *)
(* parseVirtualProp why it will be so.                                     *)
LEMMA InvarianceOfBoth == Spec => [](ParserInv /\ PropertiesOK)
BY InitHolds, StepKeeps, PropertiesBegin, PropertiesStay, PTL DEF Spec

(* At every moment, whatever the source: each running function has yet to  *)
(* do what is sound where it is, was called by the one below, has kept     *)
(* nodes in order within the text it has consumed, and its marks lie       *)
(* between its start and the cursor.                                       *)
THEOREM Invariance == Spec => []ParserInv
BY InvarianceOfBoth, PTL

(* The tokens stay well lexed, also when consumeOneGt has split one, the   *)
(* cursor stays within them, what is reported has a place, and only        *)
(* functions of the grammar run.                                           *)
THEOREM TypesHold == Spec => []TypeOK
<1>1. ParserInv => TypeOK
  <2> SUFFICES ASSUME ParserInv PROVE TypeOK
    OBVIOUS
  <2>1. /\ source \in Inputs /\ WellLexed(tokens) /\ cursor \in 0..(Len(tokens) - 1)
        /\ diags \in Seq(Diagnostics) /\ StackOK(tokens, stack, cursor)
    BY DEF ParserInv
  <2>2. WellLexed(source)
    BY <2>1, InputsAssumption
  <2>3. \A k \in 1..Len(stack) : stack[k].rule \in DOMAIN Rules /\ stack[k].start \in Nat
    BY <2>1, EveryRuleIsSound DEF StackOK, FrameOK
  <2>4. QED
    BY <2>1, <2>2, <2>3, Zenon DEF TypeOK, Diagnostics
<1>2. QED
  BY <1>1, Invariance, PTL

(* Every rewindTo of parser.cpp goes back to a place that the function     *)
(* itself, or the Try it is in, has come from: not before its own start,   *)
(* and not past the cursor.                                                *)
THEOREM RewindsDoNest == Spec => []RewindsNest
<1>1. ParserInv => RewindsNest
  <2> SUFFICES ASSUME ParserInv PROVE RewindsNest
    OBVIOUS
  <2>1. stack # << >> => Top.start <= cursor
    BY TopParts
  <2>2. StackOK(tokens, stack, cursor) /\ Len(stack) \in Nat
    BY LengthIsNat DEF ParserInv, StackOK
  <2>3. ASSUME NEW k \in 1..Len(stack), k > 1 PROVE stack[k - 1].start <= stack[k].start
    <3>1. k - 1 \in 1..Len(stack) /\ k - 1 < k
      BY <2>2, <2>3
    <3>2. QED
      BY <2>2, <3>1 DEF StackOK
  <2>4. ASSUME NEW k \in 1..Len(stack), NEW i \in Tries(stack[k])
        PROVE  /\ stack[k].start <= stack[k].todo[i].at
               /\ stack[k].todo[i].at <= (IF k < Len(stack) THEN stack[k + 1].start
                                          ELSE cursor)
    <3> DEFINE f == stack[k]
               c == PlaceOf(stack, k, cursor)
    <3>1. c = IF k < Len(stack) THEN stack[k + 1].start ELSE cursor
      BY DEF PlaceOf
    <3>2. FrameOK(tokens, f, c)
      BY <2>2 DEF StackOK
    <3> HIDE DEF c
    <3>3. c \in Nat
      <4>1. CASE k < Len(stack)
        <5>1. k + 1 \in 1..Len(stack)
          BY <2>2, <4>1
        <5>2. FrameOK(tokens, stack[k + 1], PlaceOf(stack, k + 1, cursor))
          BY <2>2, <5>1 DEF StackOK
        <5>3. QED
          BY <3>1, <4>1, <5>2 DEF FrameOK
      <4>2. CASE ~(k < Len(stack))
        <5>1. cursor \in Nat
          <6>1. WellLexed(tokens) /\ cursor \in 0..(Len(tokens) - 1)
            BY DEF ParserInv
          <6>2. QED
            BY <6>1, LexedLength
        <5>2. QED
          BY <3>1, <4>2, <5>1
      <4>3. QED
        BY <4>1, <4>2
    <3>4. i \in 1..Len(f.todo) /\ f.todo[i].do = "tried"
      BY DEF Tries
    <3>5. f.todo[i].at \in f.start..c /\ f.start \in Nat
      BY <3>2, <3>4 DEF FrameOK, MarksOK, MarkOK
    <3>6. f.start <= f.todo[i].at /\ f.todo[i].at <= c
      BY <3>3, <3>5
    <3>7. QED
      BY <3>1, <3>6
  <2>5. QED
    BY <2>1, <2>3, <2>4, Zenon DEF RewindsNest
<1>2. QED
  BY <1>1, Invariance, PTL

(* What a running function has kept for its node lies in order, without    *)
(* overlap, in the text between its start and the cursor, also after it    *)
(* went back or a token was split; so siblings of the syntax tree are      *)
(* disjoint and lie in their parent.                                       *)
THEOREM KidsAreInConsumedText == Spec => []KidsInConsumedText
<1>1. ParserInv => KidsInConsumedText
  <2> SUFFICES ASSUME ParserInv, NEW k \in 1..Len(stack)
               PROVE  LET kids == stack[k].kids IN
                      /\ \A i, j \in 1..Len(kids) :
                            i < j => /\ kids[i].offset <= kids[j].offset
                                     /\ IsEmptyNode(kids[i]) \/ EndOf(kids[i]) <= kids[j].offset
                      /\ \A i \in 1..Len(kids) :
                            /\ tokens[stack[k].start + 1].offset <= kids[i].offset
                            /\ IsEmptyNode(kids[i]) \/ EndOf(kids[i]) <= ReachOf(k)
    BY Zenon DEF KidsInConsumedText
  <2>1. StackOK(tokens, stack, cursor)
    BY DEF ParserInv
  <2>2. KidsOK(tokens, stack[k].kids, stack[k].start, PlaceOf(stack, k, cursor))
    BY <2>1 DEF StackOK, FrameOK
  <2>3. Reach(tokens, PlaceOf(stack, k, cursor)) = ReachOf(k)
    BY DEF Reach, ReachOf, PlaceOf
  <2>4. QED
    BY <2>2, <2>3 DEF KidsOK
<1>2. QED
  BY <1>1, Invariance, PTL

(* A parse function that returns a node of its own has consumed a token    *)
(* (save for the three that may return an empty one): the loops over parse *)
(* functions of parser.cpp make progress each time a function returns a    *)
(* node.                                                                   *)
THEOREM NodesDoConsume == Spec => NodesConsume
<1>1. ParserInv /\ [Next]_vars => [NodeConsumes]_vars
  <2> SUFFICES ASSUME ParserInv PROVE NodeConsumes
    OBVIOUS
  <2>1. SUFFICES ASSUME ReturnNode, Top.rule \notin MayBeEmpty PROVE cursor > Top.start
    BY Zenon DEF NodeConsumes
  <2>2. stack # << >> /\ (Top.todo # << >> => Head1.do = "done")
    BY <2>1, Zenon DEF ReturnNode
  <2>3. Top.start < cursor
    BY <2>1, <2>2, NodeStarts
  <2>4. cursor \in Nat /\ Top.start \in Nat
    BY <2>2, TopParts
  <2>5. QED
    BY <2>3, <2>4
<1>2. QED
  BY <1>1, Invariance, PTL DEF Spec, NodesConsume

(* No property has two accessors of a sort, whatever the source: the       *)
(* function that has been given a property's node has been given one that  *)
(* parseVirtualProp has checked, each accessor before the next was read.   *)
THEOREM AccessorsAreUnique == Spec => []AccessorsUnique
<1>1. ParserInv => AccessorsUnique
  <2> SUFFICES ASSUME ParserInv, NEW k \in 1..Len(stack), NEW i \in 1..Len(stack[k].kids),
                      IsNodeOf("VirtualProp", stack[k].kids[i])
               PROVE  SortsDiffer(stack[k].kids[i].kids, Len(stack[k].kids[i].kids))
    BY DEF AccessorsUnique
  <2>1. FrameOK(tokens, stack[k], PlaceOf(stack, k, cursor))
    BY DEF ParserInv, StackOK
  <2>2. KidOK(stack[k].kids[i])
    BY <2>1 DEF FrameOK, KidsOK
  <2>3. QED
    BY <2>2 DEF KidOK, IsNodeOf
<1>2. QED
  BY <1>1, Invariance, PTL
=============================================================================
